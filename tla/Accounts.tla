------------------------------ MODULE Accounts ------------------------------
(***************************************************************************)
(* The accounts of mdict-server: the users table, the refresh tokens, and  *)
(* the requests and the starts and stops of the server that change them    *)
(* (internal/handlers/user.go and auth.go, store/user_store.go, main.go).  *)
(*                                                                         *)
(* A request is a sequence of single SQL statements without a transaction, *)
(* so requests interleave between statements, and each may fail.           *)
(*                                                                         *)
(* Of the permissions only is_user_admin decides anything here.  A refresh *)
(* token is represented by the password that was in force when it was      *)
(* stored and the secret it is signed with; tokens of a user that agree on *)
(* both are one.  API tokens are left out, and requests that change        *)
(* nothing.                                                                *)
(***************************************************************************)
EXTENDS Config, FiniteSets

CONSTANTS
  Users,        \* user IDs
  AdminID,      \* "admin-001", the ID of the default administrator
  Names,        \* usernames
  Passwords,
  Secrets,      \* secrets of tokens
  Environments, \* what a start may find: [env, dotEnv]
  Handlers,     \* concurrent requests
  SerialAdmin,  \* are accounts deleted and demoted one request at a time?
  MaxFaults,    \* bound: failing statements
  MaxCrashes    \* bound: deaths of the process

Row == [name : Names, pass : Passwords, admin : BOOLEAN]
RequestPcs == {"idle", "login", "password", "revoke", "tokens", "delete",
               "count", "permissions", "insert"}
Request == [pc : RequestPcs, user : Users \cup {None}, name : Names \cup {None},
            pass : Passwords \cup {None}, admin : BOOLEAN]

Session == [pass : Passwords, secret : Secrets]
Configurations == UNION {Load(e.env, e.dotEnv) : e \in Environments}

ASSUME AdminAssumption == AdminID \in Users
ASSUME EnvironmentsAssumption == \A e \in Environments : e.dotEnv \in Seq(Lines)
ASSUME ConfigurationsAssumption ==
  \A c \in Configurations :
    c.user \in Names /\ c.pass \in Passwords /\ c.secret \in Secrets
ASSUME UsersAssumption == IsFiniteSet(Users)
ASSUME BoundsAssumption == MaxFaults \in Nat /\ MaxCrashes \in Nat
ASSUME NoneAssumption ==
  None \notin Users \cup Names \cup Passwords \cup Secrets \cup Row

VARIABLES
  status,  \* the server process: "down", "up", "draining" once it was told to
           \* stop; after log.Fatal "refused" (the configuration), "unhashed" (the
           \* password of the administrator) or "dead" (anything else)
  secret,  \* the secret of its JWT manager
  rows,    \* the users table
  used,    \* the IDs given out
  tokens,  \* the refresh_tokens table
  req,     \* locals of each request
  faults, crashes

bounds == <<faults, crashes>>
process == <<status, secret>>
vars == <<process, rows, used, tokens, req, bounds>>

-----------------------------------------------------------------------------
Idle == [pc |-> "idle", user |-> None, name |-> None, pass |-> None,
         admin |-> FALSE]

Init ==
  /\ status = "down" /\ secret = None
  /\ rows = [u \in Users |-> None]
  /\ used = {AdminID}
  /\ tokens = [u \in Users |-> {}]
  /\ req = [h \in Handlers |-> Idle]
  /\ faults = 0 /\ crashes = 0

Exists(u) == rows[u] # None
Admins == {u \in Users : Exists(u) /\ rows[u].admin}
NameTaken(n) == \E u \in Users : Exists(u) /\ rows[u].name = n

Fault == faults < MaxFaults /\ faults' = faults + 1
Goto(h, pc) == req' = [req EXCEPT ![h].pc = pc]
Finish(h) == req' = [req EXCEPT ![h] = Idle]

\* A request gets as far as the handler.
Begin(h, r) ==
  /\ status = "up" /\ req[h] = Idle
  /\ req' = [req EXCEPT ![h] = r]
  /\ UNCHANGED <<process, rows, used, tokens, bounds>>

\* RequireUserAdmin: somebody may administer users.
Authorized == Admins # {}

\* UPDATE ... WHERE id = u: no error when the row is gone.
UpdateRow(u, r) == rows' = IF Exists(u) THEN [rows EXCEPT ![u] = r] ELSE rows

\* Faulty variant: the tokens of a user stay.
DropNothing(u) == UNCHANGED tokens

DropTokens(u) == tokens' = [tokens EXCEPT ![u] = {}]

-----------------------------------------------------------------------------
(* Start and end of the process                                             *)

\* Faulty variant: the name is not looked up first.
NeverFound(n) == FALSE

AdminFound(n) == NameTaken(n)

\* bcrypt.GenerateFromPassword takes no more than 72 bytes.
Hashable(p) == Length[p] <= 72

\* The row is inserted with a fixed ID; an error ends main().  Validate lets a
\* password pass that cannot be hashed.
CreateDefaultAdmin(user, pass) ==
  LET conflict == Exists(AdminID) \/ NameTaken(user)
  IN  \/ AdminFound(user) /\ status' = "up" /\ UNCHANGED rows
      \/ ~AdminFound(user) /\ ~Hashable(pass) /\ status' = "unhashed" /\ UNCHANGED rows
      \/ /\ ~AdminFound(user) /\ Hashable(pass) /\ conflict
         /\ status' = "dead" /\ UNCHANGED rows
      \/ /\ ~AdminFound(user) /\ Hashable(pass) /\ ~conflict
         /\ status' = "up"
         /\ rows' = [rows EXCEPT ![AdminID] =
                       [name |-> user, pass |-> pass, admin |-> TRUE]]

\* main(): the configuration, the database, the administrator.
Boot ==
  /\ status \notin {"up", "draining"}
  /\ \/ \E c \in Configurations :
          CreateDefaultAdmin(c.user, c.pass) /\ secret' = c.secret
     \/ /\ \E e \in Environments : Load(e.env, e.dotEnv) = {}
        /\ status' = "refused"
        /\ UNCHANGED <<secret, rows>>
  /\ UNCHANGED <<used, tokens, req, bounds>>

BootFails ==
  /\ status \notin {"up", "draining"}
  /\ Fault /\ status' = "dead"
  /\ UNCHANGED <<secret, rows, used, tokens, req, crashes>>

\* A signal: no more requests are taken, nor expired tokens removed.
Stop ==
  /\ status = "up" /\ status' = "draining"
  /\ UNCHANGED <<secret, rows, used, tokens, req, bounds>>

\* Faulty variant: the process does not wait for its requests.
AtAnyTime == TRUE

Drained == \A h \in Handlers : req[h] = Idle

\* Shutdown has waited for the requests under way.
Exit ==
  /\ status = "draining" /\ Drained
  /\ status' = "down"
  /\ req' = [h \in Handlers |-> Idle]
  /\ UNCHANGED <<secret, rows, used, tokens, bounds>>

\* The process dies with requests under way, or Shutdown gives them up after ten
\* seconds.
Crash ==
  /\ status \in {"up", "draining"} /\ crashes < MaxCrashes
  /\ crashes' = crashes + 1
  /\ status' = "down"
  /\ req' = [h \in Handlers |-> Idle]
  /\ UNCHANGED <<secret, rows, used, tokens, faults>>

-----------------------------------------------------------------------------
(* Sessions                                                                 *)

\* The row is read and the password compared.
Login(h) ==
  \E u \in Users :
    /\ Exists(u)
    /\ Begin(h, [Idle EXCEPT !.pc = "login", !.user = u])

\* Faulty variant: the foreign key is not enforced.
SaveUnchecked(u, p) ==
  tokens' = [tokens EXCEPT ![u] = @ \cup {[pass |-> p, secret |-> secret]}]

\* INSERT into refresh_tokens: the user must exist.
SaveRefreshToken(u, p) ==
  tokens' = IF Exists(u)
              THEN [tokens EXCEPT ![u] = @ \cup {[pass |-> p, secret |-> secret]}]
              ELSE tokens

PasswordOf(u) == IF Exists(u) THEN rows[u].pass ELSE None

\* A token is a JWT of the user and the second: another login of this second
\* stored the same one already, and this login fails.
LoginSave(h) ==
  /\ req[h].pc = "login"
  /\ \/ SaveRefreshToken(req[h].user, PasswordOf(req[h].user)) /\ UNCHANGED faults
     \/ tokens[req[h].user] # {} /\ UNCHANGED <<tokens, faults>>
     \/ Fault /\ UNCHANGED tokens
  /\ Finish(h)
  /\ UNCHANGED <<process, rows, used, crashes>>

\* One token is revoked, or all of a user.
Logout(u) ==
  /\ status = "up" /\ Exists(u)
  /\ \/ \E t \in tokens[u] : tokens' = [tokens EXCEPT ![u] = @ \ {t}]
     \/ tokens[u] # {} /\ DropTokens(u)
  /\ UNCHANGED <<process, rows, used, req, bounds>>

\* CleanExpiredTokens, every hour: any token may have expired.
CleanExpiredTokens ==
  /\ status = "up"
  /\ \E u \in Users : \E t \in tokens[u] :
       tokens' = [tokens EXCEPT ![u] = @ \ {t}]
  /\ UNCHANGED <<process, rows, used, req, bounds>>

-----------------------------------------------------------------------------
(* Passwords                                                                *)

\* The old password is compared with the row that was read.  A new one that cannot
\* be hashed changes nothing, here and below.
ChangePassword(h) ==
  \E u \in Users, p \in Passwords :
    /\ Exists(u) /\ Hashable(p)
    /\ Begin(h, [Idle EXCEPT !.pc = "password", !.user = u, !.pass = p])

AdminResetPassword(h) ==
  \E u \in Users, p \in Passwords :
    /\ Authorized /\ Exists(u) /\ Hashable(p)
    /\ Begin(h, [Idle EXCEPT !.pc = "password", !.user = u, !.pass = p])

\* Faulty variant: the whole row is written, from a user filled in by half.
WithBlankName(u, p) == [rows[u] EXCEPT !.pass = p, !.name = None]

WithPassword(u, p) == [rows[u] EXCEPT !.pass = p]

UpdatePassword(h) ==
  /\ req[h].pc = "password"
  /\ \/ /\ UpdateRow(req[h].user, WithPassword(req[h].user, req[h].pass))
        /\ Goto(h, "revoke")
        /\ UNCHANGED faults
     \/ Fault /\ Finish(h) /\ UNCHANGED rows
  /\ UNCHANGED <<process, used, tokens, crashes>>

\* An error here is ignored.
Revoke(h) ==
  /\ req[h].pc = "revoke"
  /\ \/ DropTokens(req[h].user) /\ UNCHANGED faults
     \/ Fault /\ UNCHANGED tokens
  /\ Finish(h)
  /\ UNCHANGED <<process, rows, used, crashes>>

-----------------------------------------------------------------------------
(* Administration of users                                                  *)

Alone(h) ==
  SerialAdmin => \A g \in Handlers :
                   req[g].pc \notin {"tokens", "delete", "count", "permissions"}

\* Faulty variant: administrators are deleted like anybody.
Anybody(u) == Exists(u)

Deletable(u) == Exists(u) /\ ~rows[u].admin

Delete(h) ==
  \E u \in Users :
    /\ Authorized /\ Alone(h) /\ Deletable(u)
    /\ Begin(h, [Idle EXCEPT !.pc = "tokens", !.user = u])

\* An error here is logged and passed over.
DeleteUserRefreshTokens(h) ==
  /\ req[h].pc = "tokens"
  /\ \/ DropTokens(req[h].user) /\ UNCHANGED faults
     \/ Fault /\ UNCHANGED tokens
  /\ Goto(h, "delete")
  /\ UNCHANGED <<process, rows, used, crashes>>

\* ON DELETE CASCADE takes the tokens that are left.
DeleteRow(h) ==
  /\ req[h].pc = "delete"
  /\ \/ /\ rows' = [rows EXCEPT ![req[h].user] = None]
        /\ DropTokens(req[h].user)
        /\ UNCHANGED faults
     \/ Fault /\ UNCHANGED <<rows, tokens>>
  /\ Finish(h)
  /\ UNCHANGED <<process, used, crashes>>

UpdatePermissions(h) ==
  \E u \in Users, a \in BOOLEAN :
    /\ Authorized /\ Alone(h) /\ Exists(u)
    /\ Begin(h, [Idle EXCEPT !.user = u, !.admin = a,
                   !.pc = IF rows[u].admin /\ ~a THEN "count"
                                                 ELSE "permissions"])

\* Faulty variant: off by one.
NoAdminLeft == Cardinality(Admins) <= 0

LastAdmin == Cardinality(Admins) <= 1

CountAdmins(h) ==
  /\ req[h].pc = "count"
  /\ \/ /\ IF LastAdmin THEN Finish(h) ELSE Goto(h, "permissions")
        /\ UNCHANGED faults
     \/ Fault /\ Finish(h)
  /\ UNCHANGED <<process, rows, used, tokens, crashes>>

WritePermissions(h) ==
  /\ req[h].pc = "permissions"
  /\ \/ /\ UpdateRow(req[h].user,
                     [rows[req[h].user] EXCEPT !.admin = req[h].admin])
        /\ UNCHANGED faults
     \/ Fault /\ UNCHANGED rows
  /\ Finish(h)
  /\ UNCHANGED <<process, used, tokens, crashes>>

\* The user gets a new uuid.
Create(h) ==
  /\ status = "up" /\ req[h] = Idle /\ Authorized
  /\ \E u \in Users \ used, n \in Names, p \in Passwords, a \in BOOLEAN :
       /\ ~NameTaken(n) /\ Hashable(p)
       /\ used' = used \cup {u}
       /\ req' = [req EXCEPT ![h] = [pc |-> "insert", user |-> u, name |-> n,
                                    pass |-> p, admin |-> a]]
  /\ UNCHANGED <<process, rows, tokens, bounds>>

\* The username is UNIQUE: somebody may have taken it meanwhile.
InsertUser(h) ==
  /\ req[h].pc = "insert"
  /\ \/ /\ ~NameTaken(req[h].name)
        /\ rows' = [rows EXCEPT ![req[h].user] =
                      [name |-> req[h].name, pass |-> req[h].pass,
                       admin |-> req[h].admin]]
        /\ UNCHANGED faults
     \/ NameTaken(req[h].name) /\ UNCHANGED <<rows, faults>>
     \/ Fault /\ UNCHANGED rows
  /\ Finish(h)
  /\ UNCHANGED <<process, used, tokens, crashes>>

-----------------------------------------------------------------------------
SessionStep(h) ==
  Login(h) \/ LoginSave(h) \/ ChangePassword(h) \/ AdminResetPassword(h)
    \/ UpdatePassword(h) \/ Revoke(h)

AdminStep(h) ==
  \/ Delete(h) \/ DeleteUserRefreshTokens(h) \/ DeleteRow(h)
  \/ UpdatePermissions(h) \/ CountAdmins(h) \/ WritePermissions(h)
  \/ Create(h) \/ InsertUser(h)

Next ==
  \/ Boot \/ BootFails \/ Stop \/ Exit \/ Crash \/ CleanExpiredTokens
  \/ \E u \in Users : Logout(u)
  \/ \E h \in Handlers : SessionStep(h) \/ AdminStep(h)

Spec == Init /\ [][Next]_vars

-----------------------------------------------------------------------------
\* Types of the tables and of the requests.
TypeOK ==
  /\ status \in {"down", "up", "draining", "refused", "unhashed", "dead"}
  /\ secret \in Secrets \cup {None}
  /\ rows \in [Users -> Row \cup {None}]
  /\ used \subseteq Users
  /\ tokens \in [Users -> SUBSET Session]
  /\ req \in [Handlers -> Request]
  /\ faults \in 0..MaxFaults /\ crashes \in 0..MaxCrashes

\* Once the server is up there is an administrator, whatever requests, failures
\* and restarts did since ("Prevent removing last admin", handlers/user.go:256).
SomeAdmin == status = "up" => Admins # {}

\* An administrator is never deleted, only somebody who is none any more
\* ("Prevent deleting admin users", handlers/user.go:191).
AdminsStay ==
  [][\A u \in Admins : rows'[u] # None]_vars

\* A changed or reset password ends every session that was open when it was
\* written, except where revoking them fails or the process dies before; a server
\* that is told to stop finishes the request first
\* ("so other sessions are logged out", handlers/user.go:421).
OldSessionsEnd ==
  faults = 0 /\ crashes = 0 =>
    \A u \in Users : Exists(u) =>
      \/ \A t \in tokens[u] : t.pass = rows[u].pass
      \/ \E h \in Handlers : req[h].pc = "revoke" /\ req[h].user = u

\* No session survives its user, also one that a login opens while the user is
\* deleted; the ID of the default administrator is even used again.
NoOrphanSessions == \A u \in Users : tokens[u] # {} => Exists(u)

\* With a configured JWT_SECRET the sessions of the table are still good after a
\* restart, wherever the value comes from: .env replaces nothing that the
\* environment says ("Only sets variables that are not already set",
\* config/config.go:286).
SessionsSurvive ==
  status = "up" => \A u \in Users : \A t \in tokens[u] : t.secret = secret

\* While the database works the server starts with every valid configuration: the
\* administrator is created if he is missing, and not a second time
\* (createDefaultAdmin, main.go:234).  The exception is an ADMIN_PASS that bcrypt
\* rejects and Validate does not check (main.go:248): it ends the starts that find
\* the default administrator missing, and does no harm once he is there.
BootSucceeds ==
  /\ status = "dead" => faults > 0
  /\ status = "unhashed" => /\ ~Exists(AdminID)
                            /\ \E c \in Configurations : ~Hashable(c.pass)
=============================================================================
