--------------------------- MODULE AccountsProofs ---------------------------
(***************************************************************************)
(* Proofs about Accounts, for every set of users, names, passwords,        *)
(* environments and requests, with any number of failing statements and    *)
(* deaths of the process.                                                  *)
(***************************************************************************)
EXTENDS Accounts, FiniteSetTheorems, TLAPS

-----------------------------------------------------------------------------
(* The inductive invariants.                                                *)

\* The process that holds the requests.
Alive == status \in {"up", "draining"}

\* What a request uses later it has, and there are no requests without a server.
LocalsInv ==
  \A h \in Handlers :
    /\ req[h].pc # "idle" => req[h].user \in Users
    /\ req[h].pc \in {"password", "insert"} => req[h].pass \in Passwords
    /\ req[h].pc = "insert" => req[h].name \in Names
    /\ ~Alive => req[h] = Idle

\* An ID is given out once; the one of an insertion is not in the table yet.
IdsInv ==
  /\ AdminID \in used
  /\ \A u \in Users : Exists(u) => u \in used
  /\ \A h \in Handlers : req[h].pc = "insert" =>
       /\ req[h].user \in used \ {AdminID}
       /\ ~Exists(req[h].user)
       /\ \A g \in Handlers \ {h} :
            req[g].pc = "insert" => req[g].user # req[h].user

\* Every secret in use comes from a configuration.
SecretInv ==
  /\ Alive => \E c \in Configurations : secret = c.secret
  /\ \A u \in Users : \A t \in tokens[u] :
       \E c \in Configurations : t.secret = c.secret

Base == TypeOK /\ LocalsInv /\ IdsInv /\ SecretInv /\ NoOrphanSessions

Administering(h) ==
  req[h].pc \in {"tokens", "delete", "count", "permissions"}

\* While accounts are administered by one request at a time: who is about to be
\* deleted is no administrator, and who is about to be demoted not the only one.
AdminInv ==
  /\ \A g, h \in Handlers : Administering(g) /\ Administering(h) => g = h
  /\ \A h \in Handlers : Administering(h) =>
       req[h].user \in Users /\ Exists(req[h].user)
  /\ \A h \in Handlers : req[h].pc \in {"tokens", "delete"} =>
       req[h].user \notin Admins
  /\ \A h \in Handlers : req[h].pc = "permissions" /\ ~req[h].admin =>
       req[h].user \notin Admins \/ Admins \ {req[h].user} # {}
  /\ (Alive \/ \E u \in Users : Exists(u)) => Admins # {}

\* One administrator is configured, and one secret.
OneUser == \A c, d \in Configurations : c.user = d.user
OneSecret == \A c, d \in Configurations : c.secret = d.secret

\* The default administrator keeps the name.
NameInv ==
  Exists(AdminID) => \A c \in Configurations : rows[AdminID].name = c.user


-----------------------------------------------------------------------------
(* Steps.                                                                   *)

USE DEF Alive, Exists

Beginning(h) ==
  Login(h) \/ ChangePassword(h) \/ AdminResetPassword(h) \/ Delete(h)
    \/ UpdatePermissions(h)

\* What a request begins with.
Beginner ==
  {r \in Request : r.pc \notin {"idle", "insert", "revoke", "delete"}
                   /\ r.user \in Users /\ (r.pc = "password" => r.pass \in Passwords)}

LEMMA BeginsTyped ==
  ASSUME TypeOK, NEW h \in Handlers, Beginning(h)
  PROVE  \E r \in Beginner : Begin(h, r)
<1>1. Idle \in Request
  BY NoneAssumption DEF Idle, Request, RequestPcs
<1>2. CASE Login(h)
  BY <1>1, <1>2 DEF Login, Beginner, Request, RequestPcs, Idle
<1>3. CASE ChangePassword(h)
  BY <1>1, <1>3 DEF ChangePassword, Beginner, Request, RequestPcs, Idle
<1>4. CASE AdminResetPassword(h)
  BY <1>1, <1>4 DEF AdminResetPassword, Beginner, Request, RequestPcs, Idle
<1>5. CASE Delete(h)
  BY <1>1, <1>5 DEF Delete, Beginner, Request, RequestPcs, Idle
<1>6. CASE UpdatePermissions(h)
  BY <1>1, <1>6 DEF UpdatePermissions, Beginner, Request, RequestPcs, Idle
<1>. QED
  BY <1>2, <1>3, <1>4, <1>5, <1>6 DEF Beginning

\* A request that was begun in a server that takes requests.
LEMMA RequestsAlive ==
  ASSUME LocalsInv, NEW h \in Handlers, req[h].pc # "idle"
  PROVE  Alive /\ req[h].user \in Users
BY DEF LocalsInv, Idle

LEMMA IdleTyped == Idle \in Request
BY NoneAssumption DEF Idle, Request, RequestPcs

\* The row of a user that exists.
LEMMA RowTyped ==
  ASSUME TypeOK, NEW u \in Users, Exists(u)
  PROVE  rows[u] \in Row /\ rows[u].pass \in Passwords
BY DEF TypeOK, Row

LEMMA TypeStep ==
  ASSUME TypeOK, LocalsInv, SecretInv, [Next]_vars
  PROVE  TypeOK'
<1>. USE DEF TypeOK
<1>1. CASE Boot
  <2>1. CASE \E c \in Configurations :
                 CreateDefaultAdmin(c.user, c.pass) /\ secret' = c.secret
    <3>1. PICK c \in Configurations :
                 CreateDefaultAdmin(c.user, c.pass) /\ secret' = c.secret
      BY <2>1
    <3>2. c.user \in Names /\ c.pass \in Passwords /\ c.secret \in Secrets
      BY ConfigurationsAssumption
    <3>3. [name |-> c.user, pass |-> c.pass, admin |-> TRUE] \in Row
      BY <3>2 DEF Row
    <3>4. /\ rows' \in [Users -> Row \cup {None}]
          /\ status' \in {"up", "unhashed", "dead"}
      BY <3>1, <3>3, AdminAssumption DEF CreateDefaultAdmin
    <3>. QED
      BY <1>1, <3>1, <3>2, <3>4 DEF Boot, bounds
  <2>. QED
    BY <1>1, <2>1 DEF Boot, bounds
<1>2. CASE BootFails
  BY <1>2, BoundsAssumption DEF BootFails, Fault
<1>3. CASE Stop
  BY <1>3 DEF Stop, bounds
<1>4. CASE Exit
  BY <1>4, IdleTyped DEF Exit, bounds
<1>5. CASE Crash
  BY <1>5, IdleTyped, BoundsAssumption DEF Crash
<1>6. CASE CleanExpiredTokens
  BY <1>6 DEF CleanExpiredTokens, process, bounds
<1>7. CASE \E u \in Users : Logout(u)
  BY <1>7 DEF Logout, DropTokens, process, bounds
<1>8. ASSUME NEW h \in Handlers, Beginning(h)
      PROVE  TypeOK'
  BY <1>8, BeginsTyped DEF Begin, Beginner, process, bounds
<1>9. ASSUME NEW h \in Handlers, LoginSave(h)
      PROVE  TypeOK'
  <2>1. Alive /\ req[h].user \in Users /\ secret \in Secrets
    BY <1>9, RequestsAlive, ConfigurationsAssumption DEF LoginSave, SecretInv
  <2>2. Exists(req[h].user) => rows[req[h].user].pass \in Passwords
    BY <2>1, RowTyped
  <2>3. tokens' \in [Users -> SUBSET Session]
    <3>1. CASE SaveRefreshToken(req[h].user, PasswordOf(req[h].user))
      BY <2>1, <2>2, <3>1 DEF SaveRefreshToken, PasswordOf, Session
    <3>. QED
      BY <1>9, <3>1 DEF LoginSave
  <2>4. req' \in [Handlers -> Request]
    BY <1>9, IdleTyped DEF LoginSave, Finish
  <2>5. faults' \in 0..MaxFaults
    BY <1>9, BoundsAssumption DEF LoginSave, Fault
  <2>. QED
    BY <1>9, <2>3, <2>4, <2>5 DEF LoginSave, process
<1>10. ASSUME NEW h \in Handlers, UpdatePassword(h)
      PROVE  TypeOK'
  <2>1. Alive /\ req[h].user \in Users
    BY <1>10, RequestsAlive DEF UpdatePassword
  <2>2. req[h].pass \in Passwords
    BY <1>10 DEF UpdatePassword, LocalsInv
  <2>3. Exists(req[h].user) => WithPassword(req[h].user, req[h].pass) \in Row
    BY <2>1, <2>2, RowTyped DEF WithPassword, Row
  <2>4. rows' \in [Users -> Row \cup {None}]
    BY <1>10, <2>1, <2>3 DEF UpdatePassword, UpdateRow
  <2>5. req' \in [Handlers -> Request]
    BY <1>10, IdleTyped DEF UpdatePassword, Finish, Goto, Request, RequestPcs
  <2>6. faults' \in 0..MaxFaults
    BY <1>10, BoundsAssumption DEF UpdatePassword, Fault
  <2>. QED
    BY <1>10, <2>1, <2>2, <2>3, <2>4, <2>5, <2>6 DEF UpdatePassword, process
<1>11. ASSUME NEW h \in Handlers, Revoke(h)
      PROVE  TypeOK'
  <2>1. Alive /\ req[h].user \in Users
    BY <1>11, RequestsAlive DEF Revoke
  <2>2. req' \in [Handlers -> Request]
    BY <1>11, IdleTyped DEF Revoke, Finish, Goto, Request, RequestPcs
  <2>3. faults' \in 0..MaxFaults
    BY <1>11, BoundsAssumption DEF Revoke, Fault
  <2>. QED
    BY <1>11, <2>1, <2>2, <2>3 DEF Revoke, DropTokens, process
<1>12. ASSUME NEW h \in Handlers, DeleteUserRefreshTokens(h)
      PROVE  TypeOK'
  <2>1. Alive /\ req[h].user \in Users
    BY <1>12, RequestsAlive DEF DeleteUserRefreshTokens
  <2>2. req' \in [Handlers -> Request]
    BY <1>12, IdleTyped DEF DeleteUserRefreshTokens, Finish, Goto, Request,
       RequestPcs
  <2>3. faults' \in 0..MaxFaults
    BY <1>12, BoundsAssumption DEF DeleteUserRefreshTokens, Fault
  <2>. QED
    BY <1>12, <2>1, <2>2, <2>3 DEF DeleteUserRefreshTokens, DropTokens, process
<1>13. ASSUME NEW h \in Handlers, DeleteRow(h)
      PROVE  TypeOK'
  <2>1. Alive /\ req[h].user \in Users
    BY <1>13, RequestsAlive DEF DeleteRow
  <2>2. req' \in [Handlers -> Request]
    BY <1>13, IdleTyped DEF DeleteRow, Finish, Goto, Request, RequestPcs
  <2>3. faults' \in 0..MaxFaults
    BY <1>13, BoundsAssumption DEF DeleteRow, Fault
  <2>. QED
    BY <1>13, <2>1, <2>2, <2>3 DEF DeleteRow, DropTokens, process
<1>14. ASSUME NEW h \in Handlers, CountAdmins(h)
      PROVE  TypeOK'
  <2>1. req' \in [Handlers -> Request]
    BY <1>14, IdleTyped DEF CountAdmins, Finish, Goto, Request, RequestPcs
  <2>2. faults' \in 0..MaxFaults
    BY <1>14, BoundsAssumption DEF CountAdmins, Fault
  <2>. QED
    BY <1>14, <2>1, <2>2 DEF CountAdmins, process
<1>15. ASSUME NEW h \in Handlers, WritePermissions(h)
      PROVE  TypeOK'
  <2>1. Alive /\ req[h].user \in Users
    BY <1>15, RequestsAlive DEF WritePermissions
  <2>2. req[h].admin \in BOOLEAN
    BY DEF Request
  <2>3. Exists(req[h].user) =>
           [rows[req[h].user] EXCEPT !.admin = req[h].admin] \in Row
    BY <2>1, <2>2, RowTyped DEF Row
  <2>4. rows' \in [Users -> Row \cup {None}]
    BY <1>15, <2>1, <2>3 DEF WritePermissions, UpdateRow
  <2>5. req' \in [Handlers -> Request]
    BY <1>15, IdleTyped DEF WritePermissions, Finish, Goto, Request, RequestPcs
  <2>6. faults' \in 0..MaxFaults
    BY <1>15, BoundsAssumption DEF WritePermissions, Fault
  <2>. QED
    BY <1>15, <2>1, <2>2, <2>3, <2>4, <2>5, <2>6 DEF WritePermissions, process
<1>16. ASSUME NEW h \in Handlers, Create(h)
      PROVE  TypeOK'
  <2>1. req' \in [Handlers -> Request] /\ used' \subseteq Users
    BY <1>16 DEF Create, Request, RequestPcs
  <2>. QED
    BY <1>16, <2>1 DEF Create, process, bounds
<1>17. ASSUME NEW h \in Handlers, InsertUser(h)
      PROVE  TypeOK'
  <2>1. Alive /\ req[h].user \in Users
    BY <1>17, RequestsAlive DEF InsertUser
  <2>2. [name |-> req[h].name, pass |-> req[h].pass, admin |-> req[h].admin] \in Row
    BY <1>17 DEF InsertUser, LocalsInv, Request, Row
  <2>3. rows' \in [Users -> Row \cup {None}]
    BY <1>17, <2>1, <2>2 DEF InsertUser
  <2>4. req' \in [Handlers -> Request]
    BY <1>17, IdleTyped DEF InsertUser, Finish, Goto, Request, RequestPcs
  <2>5. faults' \in 0..MaxFaults
    BY <1>17, BoundsAssumption DEF InsertUser, Fault
  <2>. QED
    BY <1>17, <2>1, <2>2, <2>3, <2>4, <2>5 DEF InsertUser, process
<1>18. CASE UNCHANGED vars
  BY <1>18 DEF vars, process, bounds
<1>. QED
  BY <1>1, <1>2, <1>3, <1>4, <1>5, <1>6, <1>7, <1>8, <1>9, <1>10, <1>11, <1>12,
     <1>13, <1>14, <1>15, <1>16, <1>17, <1>18
     DEF Next, SessionStep, AdminStep, Beginning

LEMMA LocalsStep ==
  ASSUME TypeOK, LocalsInv, [Next]_vars
  PROVE  LocalsInv'
<1>. USE DEF LocalsInv
<1>1. CASE Boot
  BY <1>1 DEF Boot
<1>2. CASE BootFails
  BY <1>2 DEF BootFails
<1>3. CASE Stop
  BY <1>3 DEF Stop
<1>4. CASE Exit \/ Crash
  <2>1. \A h \in Handlers : req'[h] = Idle
    BY <1>4 DEF Exit, Crash
  <2>2. Idle.pc = "idle"
    BY DEF Idle
  <2>. QED
    BY <2>1, <2>2
<1>5. CASE CleanExpiredTokens \/ (\E u \in Users : Logout(u))
  BY <1>5 DEF CleanExpiredTokens, Logout, process
<1>6. ASSUME NEW h \in Handlers, Beginning(h)
      PROVE  LocalsInv'
  <2>1. PICK r \in Beginner : Begin(h, r)
    BY <1>6, BeginsTyped
  <2>. QED
    BY <2>1 DEF Begin, Beginner, process, TypeOK
<1>7. ASSUME NEW h \in Handlers, Create(h)
      PROVE  LocalsInv'
  BY <1>7 DEF Create, process, TypeOK
<1>8. ASSUME NEW h \in Handlers,
             LoginSave(h) \/ Revoke(h) \/ DeleteRow(h) \/ WritePermissions(h)
               \/ InsertUser(h)
      PROVE  LocalsInv'
  BY <1>8 DEF LoginSave, Revoke, DeleteRow, WritePermissions, InsertUser, Finish,
              Idle, process, TypeOK
<1>9. ASSUME NEW h \in Handlers,
             UpdatePassword(h) \/ DeleteUserRefreshTokens(h) \/ CountAdmins(h)
      PROVE  LocalsInv'
  <2>1. Alive /\ req[h].user \in Users
    BY <1>9, RequestsAlive DEF UpdatePassword, DeleteUserRefreshTokens, CountAdmins
  <2>2. \/ Finish(h) \/ Goto(h, "revoke") \/ Goto(h, "delete")
        \/ Goto(h, "permissions")
    BY <1>9 DEF UpdatePassword, DeleteUserRefreshTokens, CountAdmins
  <2>3. UNCHANGED process
    BY <1>9 DEF UpdatePassword, DeleteUserRefreshTokens, CountAdmins
  <2>4. CASE Finish(h)
    BY <2>1, <2>3, <2>4 DEF Finish, Idle, process, TypeOK
  <2>5. ASSUME NEW pc \in {"revoke", "delete", "permissions"}, Goto(h, pc)
        PROVE  LocalsInv'
    BY <2>1, <2>3, <2>5 DEF Goto, process, TypeOK, Request
  <2>. QED
    BY <2>2, <2>4, <2>5
<1>10. CASE UNCHANGED vars
  BY <1>10 DEF vars, process
<1>. QED
  BY <1>1, <1>2, <1>3, <1>4, <1>5, <1>6, <1>7, <1>8, <1>9, <1>10
     DEF Next, SessionStep, AdminStep, Beginning

LEMMA IdsStep ==
  ASSUME TypeOK, LocalsInv, IdsInv, [Next]_vars
  PROVE  IdsInv'
<1>. USE DEF IdsInv
<1>1. CASE Boot
  <2>1. UNCHANGED rows \/ (\E r \in Row : rows' = [rows EXCEPT ![AdminID] = r])
    <3>1. \A c \in Configurations : 
            [name |-> c.user, pass |-> c.pass, admin |-> TRUE] \in Row
      BY ConfigurationsAssumption DEF Row
    <3>. QED
      BY <1>1, <3>1 DEF Boot, CreateDefaultAdmin
  <2>. QED
    BY <1>1, <2>1, AdminAssumption DEF Boot, TypeOK
<1>2. CASE BootFails \/ Stop \/ CleanExpiredTokens \/ (\E u \in Users : Logout(u))
  BY <1>2 DEF BootFails, Stop, CleanExpiredTokens, Logout
<1>3. CASE Exit \/ Crash
  <2>1. \A h \in Handlers : req'[h] = Idle
    BY <1>3 DEF Exit, Crash
  <2>2. Idle.pc = "idle"
    BY DEF Idle
  <2>. QED
    BY <1>3, <2>1, <2>2 DEF Exit, Crash
<1>4. ASSUME NEW h \in Handlers, Beginning(h)
      PROVE  IdsInv'
  <2>1. PICK r \in Beginner : Begin(h, r)
    BY <1>4, BeginsTyped
  <2>. QED
    BY <2>1 DEF Begin, Beginner, TypeOK
<1>5. ASSUME NEW h \in Handlers, LoginSave(h) \/ Revoke(h)
      PROVE  IdsInv'
  BY <1>5 DEF LoginSave, Revoke, Finish, Idle, TypeOK
<1>6. ASSUME NEW h \in Handlers, DeleteUserRefreshTokens(h) \/ CountAdmins(h)
      PROVE  IdsInv'
  BY <1>6 DEF DeleteUserRefreshTokens, CountAdmins, Finish, Goto, Idle, TypeOK,
     Request
<1>7. ASSUME NEW h \in Handlers, DeleteRow(h)
      PROVE  IdsInv'
  BY <1>7, RequestsAlive DEF DeleteRow, Finish, Idle, TypeOK
<1>8. ASSUME NEW h \in Handlers, UpdatePassword(h) \/ WritePermissions(h)
      PROVE  IdsInv'
  <2>1. \A u \in Users : Exists(u)' => Exists(u)
    BY <1>8 DEF UpdatePassword, WritePermissions, UpdateRow, TypeOK
  <2>. QED
    BY <1>8, <2>1 DEF UpdatePassword, WritePermissions, Finish, Goto, Idle,
       TypeOK, Request
<1>9. ASSUME NEW h \in Handlers, Create(h)
      PROVE  IdsInv'
  BY <1>9 DEF Create, TypeOK
<1>10. ASSUME NEW h \in Handlers, InsertUser(h)
      PROVE  IdsInv'
  BY <1>10, RequestsAlive DEF InsertUser, Finish, Idle, TypeOK
<1>11. CASE UNCHANGED vars
  BY <1>11 DEF vars
<1>. QED
  BY <1>1, <1>2, <1>3, <1>4, <1>5, <1>6, <1>7, <1>8, <1>9, <1>10, <1>11
     DEF Next, SessionStep, AdminStep, Beginning

\* What a step does to the refresh tokens: it adds at most the one of a login.
LEMMA TokensStep ==
  ASSUME TypeOK, LocalsInv, [Next]_vars
  PROVE  \/ \A u \in Users : tokens'[u] \subseteq tokens[u]
         \/ /\ Alive /\ UNCHANGED <<process, rows>>
            /\ \E u \in Users :
                 /\ Exists(u)
                 /\ tokens' = [tokens EXCEPT ![u] =
                      @ \cup {[pass |-> rows[u].pass, secret |-> secret]}]
<1>1. CASE Boot \/ BootFails \/ Stop \/ Exit \/ Crash \/ UNCHANGED vars
  BY <1>1 DEF Boot, BootFails, Stop, Exit, Crash, vars
<1>2. CASE CleanExpiredTokens \/ (\E u \in Users : Logout(u))
  BY <1>2 DEF CleanExpiredTokens, Logout, DropTokens, TypeOK
<1>3. ASSUME NEW h \in Handlers, Beginning(h)
      PROVE  UNCHANGED tokens
  BY <1>3, BeginsTyped DEF Begin
<1>4. ASSUME NEW h \in Handlers,
             UpdatePassword(h) \/ CountAdmins(h) \/ WritePermissions(h) \/ Create(h)
               \/ InsertUser(h)
      PROVE  UNCHANGED tokens
  BY <1>4 DEF UpdatePassword, CountAdmins, WritePermissions, Create, InsertUser
<1>5. ASSUME NEW h \in Handlers,
             Revoke(h) \/ DeleteUserRefreshTokens(h) \/ DeleteRow(h)
      PROVE  \A u \in Users : tokens'[u] \subseteq tokens[u]
  BY <1>5 DEF Revoke, DeleteUserRefreshTokens, DeleteRow, DropTokens, TypeOK
<1>6. ASSUME NEW h \in Handlers, LoginSave(h), tokens' # tokens
      PROVE  /\ Alive /\ UNCHANGED <<process, rows>>
             /\ \E u \in Users :
                  /\ Exists(u)
                  /\ tokens' = [tokens EXCEPT ![u] =
                       @ \cup {[pass |-> rows[u].pass, secret |-> secret]}]
  <2>1. Alive /\ req[h].user \in Users
    BY <1>6, RequestsAlive DEF LoginSave
  <2>. QED
    BY <1>6, <2>1 DEF LoginSave, SaveRefreshToken, PasswordOf
<1>. QED
  BY <1>1, <1>2, <1>3, <1>4, <1>5, <1>6 DEF Next, SessionStep, AdminStep, Beginning

\* Only main(), a signal and a crash change the process.
LEMMA ProcessStep ==
  ASSUME TypeOK, [Next]_vars
  PROVE  Boot \/ BootFails \/ Stop \/ Exit \/ Crash \/ UNCHANGED process
<1>1. ASSUME NEW h \in Handlers, Beginning(h)
      PROVE  UNCHANGED process
  BY <1>1, BeginsTyped DEF Begin
<1>. QED
  BY <1>1 DEF Next, SessionStep, AdminStep, Beginning, CleanExpiredTokens, Logout,
     LoginSave, UpdatePassword, Revoke, DeleteUserRefreshTokens, DeleteRow,
     CountAdmins, WritePermissions, Create, InsertUser, vars

\* What a step does to the table of users: it deletes one, gives one another
\* password or permissions, or inserts one.
LEMMA RowsStep ==
  ASSUME TypeOK, LocalsInv, [Next]_vars
  PROVE  \/ UNCHANGED rows
         \/ Boot /\ \E r \in Row : rows' = [rows EXCEPT ![AdminID] = r]
         \/ \E h \in Handlers : DeleteRow(h)
         \/ \E h \in Handlers :
              /\ UpdatePassword(h) /\ Exists(req[h].user)
              /\ WithPassword(req[h].user, req[h].pass) \in Row
              /\ rows' = [rows EXCEPT ![req[h].user] =
                            WithPassword(req[h].user, req[h].pass)]
         \/ \E h \in Handlers :
              /\ WritePermissions(h) /\ Exists(req[h].user)
              /\ [rows[req[h].user] EXCEPT !.admin = req[h].admin] \in Row
              /\ rows' = [rows EXCEPT ![req[h].user] =
                            [rows[req[h].user] EXCEPT !.admin = req[h].admin]]
         \/ \E h \in Handlers :
              InsertUser(h) /\ \E r \in Row : rows' = [rows EXCEPT ![req[h].user] = r]
<1>1. CASE Boot
  <2>1. \A c \in Configurations :
          [name |-> c.user, pass |-> c.pass, admin |-> TRUE] \in Row
    BY ConfigurationsAssumption DEF Row
  <2>. QED
    BY <1>1, <2>1 DEF Boot, CreateDefaultAdmin
<1>2. ASSUME NEW h \in Handlers, Beginning(h)
      PROVE  UNCHANGED rows
  BY <1>2, BeginsTyped DEF Begin
<1>3. CASE \/ BootFails \/ Stop \/ Exit \/ Crash \/ CleanExpiredTokens
           \/ (\E u \in Users : Logout(u)) \/ UNCHANGED vars
           \/ \E h \in Handlers :
                LoginSave(h) \/ Revoke(h) \/ DeleteUserRefreshTokens(h)
                  \/ CountAdmins(h) \/ Create(h)
  BY <1>3 DEF BootFails, Stop, Exit, Crash, CleanExpiredTokens, Logout, vars,
     LoginSave, Revoke, DeleteUserRefreshTokens, CountAdmins, Create
<1>4. ASSUME NEW h \in Handlers, UpdatePassword(h), ~UNCHANGED rows
      PROVE  /\ Exists(req[h].user)
             /\ WithPassword(req[h].user, req[h].pass) \in Row
             /\ rows' = [rows EXCEPT ![req[h].user] =
                           WithPassword(req[h].user, req[h].pass)]
  <2>1. req[h].user \in Users /\ req[h].pass \in Passwords
    BY <1>4, RequestsAlive DEF UpdatePassword, LocalsInv
  <2>2. UpdateRow(req[h].user, WithPassword(req[h].user, req[h].pass))
    BY <1>4 DEF UpdatePassword
  <2>3. Exists(req[h].user)
    BY <1>4, <2>2 DEF UpdateRow
  <2>4. WithPassword(req[h].user, req[h].pass) \in Row
    BY <2>1, <2>3, RowTyped DEF WithPassword, Row
  <2>. QED
    BY <2>2, <2>3, <2>4 DEF UpdateRow
<1>5. ASSUME NEW h \in Handlers, WritePermissions(h), ~UNCHANGED rows
      PROVE  /\ Exists(req[h].user)
             /\ [rows[req[h].user] EXCEPT !.admin = req[h].admin] \in Row
             /\ rows' = [rows EXCEPT ![req[h].user] =
                           [rows[req[h].user] EXCEPT !.admin = req[h].admin]]
  <2>1. req[h].user \in Users /\ req[h].admin \in BOOLEAN
    BY <1>5, RequestsAlive DEF WritePermissions, TypeOK, Request
  <2>2. UpdateRow(req[h].user, [rows[req[h].user] EXCEPT !.admin = req[h].admin])
    BY <1>5 DEF WritePermissions
  <2>3. Exists(req[h].user)
    BY <1>5, <2>2 DEF UpdateRow
  <2>4. [rows[req[h].user] EXCEPT !.admin = req[h].admin] \in Row
    BY <2>1, <2>3, RowTyped DEF Row
  <2>. QED
    BY <2>2, <2>3, <2>4 DEF UpdateRow
<1>6. ASSUME NEW h \in Handlers, InsertUser(h), ~UNCHANGED rows
      PROVE  \E r \in Row : rows' = [rows EXCEPT ![req[h].user] = r]
  <2>1. [name |-> req[h].name, pass |-> req[h].pass, admin |-> req[h].admin] \in Row
    BY <1>6 DEF InsertUser, LocalsInv, TypeOK, Request, Row
  <2>. QED
    BY <1>6, <2>1 DEF InsertUser
<1>. QED
  BY <1>1, <1>2, <1>3, <1>4, <1>5, <1>6 DEF Next, SessionStep, AdminStep, Beginning

\* Only DeleteRow removes a user, and then his tokens are gone.
LEMMA ExistsStep ==
  ASSUME TypeOK, LocalsInv, [Next]_vars, NEW u \in Users, Exists(u)
  PROVE  \/ Exists(u)'
         \/ tokens'[u] = {} /\ \E h \in Handlers : DeleteRow(h)
<1>1. None \notin Row
  BY NoneAssumption
<1>2. ASSUME NEW h \in Handlers, DeleteRow(h)
      PROVE  Exists(u)' \/ tokens'[u] = {}
  BY <1>2 DEF DeleteRow, DropTokens, TypeOK
<1>. QED
  BY <1>1, <1>2, RowsStep DEF TypeOK

\* A token that is added carries the secret of the process.
LEMMA SecretStep ==
  ASSUME TypeOK, LocalsInv, SecretInv, [Next]_vars
  PROVE  SecretInv'
<1>. USE DEF SecretInv
<1>1. Alive' => \E c \in Configurations : secret' = c.secret
  <2>1. CASE Boot
    BY <2>1 DEF Boot
  <2>2. CASE BootFails \/ Stop \/ Exit \/ Crash
    BY <2>2 DEF BootFails, Stop, Exit, Crash
  <2>3. CASE UNCHANGED process
    BY <2>3 DEF process
  <2>. QED
    BY <2>1, <2>2, <2>3, ProcessStep
<1>2. \A u \in Users : \A t \in tokens'[u] :
        \E c \in Configurations : t.secret = c.secret
  BY TokensStep DEF TypeOK
<1>. QED
  BY <1>1, <1>2

\* A user that is gone leaves no token, and nobody stores one for him.
LEMMA OrphansStep ==
  ASSUME TypeOK, LocalsInv, NoOrphanSessions, [Next]_vars
  PROVE  NoOrphanSessions'
<1>. USE DEF NoOrphanSessions
<1>1. \A u \in Users : Exists(u) => Exists(u)' \/ tokens'[u] = {}
  BY ExistsStep
<1>2. \A u \in Users : tokens'[u] # {} => Exists(u)
  BY TokensStep DEF TypeOK
<1>. QED
  BY <1>1, <1>2

LEMMA BaseInitial == Init => Base
<1>. SUFFICES ASSUME Init PROVE Base
  OBVIOUS
<1>1. TypeOK
  BY IdleTyped, AdminAssumption, BoundsAssumption DEF Init, TypeOK
<1>2. LocalsInv /\ IdsInv /\ SecretInv /\ NoOrphanSessions
  BY DEF Init, LocalsInv, IdsInv, SecretInv, NoOrphanSessions, Idle
<1>. QED
  BY <1>1, <1>2 DEF Base

LEMMA BaseStep == Base /\ [Next]_vars => Base'
BY TypeStep, LocalsStep, IdsStep, SecretStep, OrphansStep DEF Base

LEMMA BaseHolds == Spec => []Base
BY BaseInitial, BaseStep, PTL DEF Spec

\* The tables and the locals of the requests keep their types (user.go, auth.go).
THEOREM AccountTypes == Spec => []TypeOK
<1>1. Base => TypeOK
  BY DEF Base
<1>. QED
  BY <1>1, BaseHolds, PTL

\* No refresh token survives its user, whatever a login, a deletion and a failure
\* interleave (the foreign key of store/schema.go with DeleteUser).
THEOREM NoTokenSurvivesItsUser == Spec => []NoOrphanSessions
<1>1. Base => NoOrphanSessions
  BY DEF Base
<1>. QED
  BY <1>1, BaseHolds, PTL

\* While JWT_SECRET is configured, each stored session is good for the server that
\* is up, after any number of restarts (config/config.go:286).
THEOREM ConfiguredSessionsSurvive == OneSecret => (Spec => []SessionsSurvive)
<1>. SUFFICES ASSUME OneSecret PROVE Spec => []SessionsSurvive
  OBVIOUS
<1>1. Base => SessionsSurvive
  BY DEF Base, SecretInv, SessionsSurvive, OneSecret
<1>. QED
  BY <1>1, BaseHolds, PTL

\* Failures and deaths are counted.
LEMMA CountersStep ==
  ASSUME TypeOK, [Next]_vars
  PROVE  faults' >= faults /\ crashes' >= crashes
<1>1. ASSUME NEW h \in Handlers, Beginning(h)
      PROVE  UNCHANGED bounds
  BY <1>1, BeginsTyped DEF Begin
<1>2. UNCHANGED faults \/ Fault
  BY <1>1 DEF Next, SessionStep, AdminStep, Beginning, Boot, BootFails, Stop, Exit,
     Crash, CleanExpiredTokens, Logout, LoginSave, UpdatePassword, Revoke,
     DeleteUserRefreshTokens, DeleteRow, CountAdmins, WritePermissions, Create,
     InsertUser, vars, bounds
<1>3. UNCHANGED crashes \/ Crash
  BY <1>1 DEF Next, SessionStep, AdminStep, Beginning, Boot, BootFails, Stop, Exit,
     CleanExpiredTokens, Logout, LoginSave, UpdatePassword, Revoke,
     DeleteUserRefreshTokens, DeleteRow, CountAdmins, WritePermissions, Create,
     InsertUser, vars, bounds
<1>4. faults \in Nat /\ crashes \in Nat
  BY BoundsAssumption DEF TypeOK
<1>. QED
  BY <1>2, <1>3, <1>4 DEF Fault, Crash

\* A request that is about to revoke sessions does, unless something goes wrong.
LEMMA RevokeStays ==
  ASSUME TypeOK, LocalsInv, [Next]_vars, NEW h \in Handlers, req[h].pc = "revoke",
         faults' = 0, crashes' = 0
  PROVE  req'[h] = req[h] \/ tokens'[req[h].user] = {}
<1>1. faults = 0 /\ crashes = 0 /\ ~Crash /\ ~Fault
  <2>1. ~Fault
    BY DEF Fault, TypeOK
  <2>2. ~Crash
    BY DEF Crash, TypeOK
  <2>. QED
    BY <2>1, <2>2, CountersStep, BoundsAssumption DEF TypeOK
<1>2. req[h].user \in Users /\ Idle.pc = "idle"
  BY DEF LocalsInv, Idle
<1>3. CASE Revoke(h)
  BY <1>1, <1>2, <1>3 DEF Revoke, DropTokens, TypeOK
<1>4. CASE Exit
  BY <1>2, <1>4 DEF Exit, Drained
<1>5. ASSUME NEW g \in Handlers, Beginning(g)
      PROVE  req'[h] = req[h]
  <2>1. g # h /\ \E r \in Beginner : Begin(g, r)
    BY <1>2, <1>5, BeginsTyped DEF Begin
  <2>. QED
    BY <2>1 DEF Begin, TypeOK
<1>6. ASSUME NEW g \in Handlers, Create(g)
      PROVE  req'[h] = req[h]
  BY <1>2, <1>6 DEF Create, TypeOK
<1>7. ASSUME NEW g \in Handlers,
             \/ LoginSave(g) \/ UpdatePassword(g) \/ DeleteUserRefreshTokens(g)
             \/ DeleteRow(g) \/ CountAdmins(g) \/ WritePermissions(g)
             \/ InsertUser(g)
      PROVE  req'[h] = req[h]
  <2>1. g # h
    BY <1>7 DEF LoginSave, UpdatePassword, DeleteUserRefreshTokens, DeleteRow,
       CountAdmins, WritePermissions, InsertUser
  <2>2. \/ Finish(g) \/ Goto(g, "revoke") \/ Goto(g, "delete")
        \/ Goto(g, "permissions")
    BY <1>7 DEF LoginSave, UpdatePassword, DeleteUserRefreshTokens, DeleteRow,
       CountAdmins, WritePermissions, InsertUser
  <2>. QED
    BY <2>1, <2>2 DEF Finish, Goto, TypeOK
<1>8. CASE \/ Boot \/ BootFails \/ Stop \/ CleanExpiredTokens
           \/ (\E u \in Users : Logout(u)) \/ UNCHANGED vars
  BY <1>1, <1>8 DEF Boot, BootFails, Stop, CleanExpiredTokens, Logout, vars
<1>9. ASSUME NEW g \in Handlers \ {h}, Revoke(g)
      PROVE  req'[h] = req[h]
  BY <1>9 DEF Revoke, Finish, TypeOK
<1>. QED
  BY <1>1, <1>3, <1>4, <1>5, <1>6, <1>7, <1>8, <1>9
     DEF Next, SessionStep, AdminStep, Beginning

\* A user has the password of before, or is new, or gets his sessions revoked.
LEMMA PasswordsStep ==
  ASSUME Base, [Next]_vars, NEW u \in Users, Exists(u)', faults' = 0
  PROVE  \/ Exists(u) /\ rows'[u].pass = rows[u].pass
         \/ ~Exists(u)
         \/ \E h \in Handlers : req'[h].pc = "revoke" /\ req'[h].user = u
<1>. USE DEF Base
<1>1. ASSUME NEW h \in Handlers, UpdatePassword(h), req[h].user = u
      PROVE  req'[h].pc = "revoke" /\ req'[h].user = u
  <2>1. ~Fault
    BY DEF Fault, TypeOK
  <2>. QED
    BY <1>1, <2>1 DEF UpdatePassword, Goto, TypeOK, Request
<1>2. ASSUME NEW h \in Handlers, WritePermissions(h), Exists(req[h].user),
             rows' = [rows EXCEPT ![req[h].user] =
                        [rows[req[h].user] EXCEPT !.admin = req[h].admin]]
      PROVE  Exists(u) /\ rows'[u].pass = rows[u].pass
  <2>1. req[h].user \in Users
    BY <1>2, RequestsAlive DEF WritePermissions
  <2>. QED
    BY <1>2, <2>1, RowTyped DEF TypeOK, Row
<1>3. ASSUME NEW h \in Handlers, DeleteRow(h)
      PROVE  Exists(u) /\ rows'[u].pass = rows[u].pass
  BY <1>3, RequestsAlive DEF DeleteRow, TypeOK
<1>4. ASSUME NEW h \in Handlers, InsertUser(h), req[h].user = u
      PROVE  ~Exists(u)
  BY <1>4 DEF InsertUser, IdsInv
<1>5. CASE Boot
  BY <1>5 DEF Boot, CreateDefaultAdmin, TypeOK
<1>6. ASSUME NEW h \in Handlers, NEW r, rows' = [rows EXCEPT ![req[h].user] = r],
             req[h].user # u
      PROVE  Exists(u) /\ rows'[u].pass = rows[u].pass
  BY <1>6 DEF TypeOK
<1>. QED
  BY <1>1, <1>2, <1>3, <1>4, <1>5, <1>6, RowsStep

LEMMA OldSessionsStep ==
  ASSUME Base, OldSessionsEnd, [Next]_vars
  PROVE  OldSessionsEnd'
<1>. SUFFICES ASSUME faults' = 0, crashes' = 0, NEW u \in Users, Exists(u)'
              PROVE  \/ \A t \in tokens'[u] : t.pass = rows'[u].pass
                     \/ \E h \in Handlers : req'[h].pc = "revoke" /\ req'[h].user = u
  BY DEF OldSessionsEnd
<1>. USE DEF Base
<1>1. faults = 0 /\ crashes = 0
  BY CountersStep, BoundsAssumption DEF TypeOK
<1>2. CASE ~Exists(u)
  <2>1. tokens'[u] = {}
    BY <1>2, TokensStep DEF NoOrphanSessions, TypeOK
  <2>. QED
    BY <2>1
<1>3. ASSUME NEW h \in Handlers, req[h].pc = "revoke", req[h].user = u
      PROVE  tokens'[u] = {} \/ (req'[h].pc = "revoke" /\ req'[h].user = u)
  BY <1>3, RevokeStays
<1>4. CASE /\ Exists(u) /\ rows'[u].pass = rows[u].pass
           /\ \A t \in tokens[u] : t.pass = rows[u].pass
  BY <1>4, TokensStep DEF TypeOK
<1>. QED
  BY <1>1, <1>2, <1>3, <1>4, PasswordsStep DEF OldSessionsEnd

LEMMA OldSessionsInitial == Init => OldSessionsEnd
BY DEF Init, OldSessionsEnd

\* A changed or reset password ends the sessions that were open, while nothing
\* fails (handlers/user.go:421).
THEOREM OldSessionsAreEnded == Spec => []OldSessionsEnd
BY BaseHolds, OldSessionsInitial, OldSessionsStep, PTL DEF Spec

\* A request administers accounts after a step because it did before, or has
\* just begun to.
LEMMA AdministeringStep ==
  ASSUME TypeOK, LocalsInv, [Next]_vars, NEW g \in Handlers, Administering(g)'
  PROVE  \/ Delete(g) \/ UpdatePermissions(g)
         \/ /\ Administering(g)
            /\ req'[g].user = req[g].user /\ req'[g].admin = req[g].admin
            /\ \/ req'[g].pc = req[g].pc
               \/ req[g].pc = "tokens" /\ req'[g].pc = "delete"
               \/ CountAdmins(g) /\ ~LastAdmin
<1>. USE DEF Administering
<1>1. Idle.pc = "idle"
  BY DEF Idle
<1>2. CASE req'[g] = req[g]
  BY <1>2
<1>3. ASSUME NEW f \in Handlers, Beginning(f)
      PROVE  req'[g] = req[g] \/ Delete(g) \/ UpdatePermissions(g)
  <2>1. PICK r \in Beginner : Begin(f, r)
    BY <1>3, BeginsTyped
  <2>2. CASE f # g
    BY <2>1, <2>2 DEF Begin, TypeOK
  <2>3. CASE Login(g)
    BY <2>3 DEF Login, Begin, Idle, TypeOK
  <2>4. CASE ChangePassword(g) \/ AdminResetPassword(g)
    BY <2>4 DEF ChangePassword, AdminResetPassword, Begin, Idle, TypeOK
  <2>. QED
    BY <1>3, <2>2, <2>3, <2>4 DEF Beginning
<1>4. ASSUME NEW f \in Handlers, Create(f)
      PROVE  req'[g] = req[g]
  BY <1>4 DEF Create, TypeOK
<1>5. ASSUME NEW f \in Handlers, Finish(f)
      PROVE  req'[g] = req[g]
  BY <1>1, <1>5 DEF Finish, TypeOK
<1>6. ASSUME NEW f \in Handlers, UpdatePassword(f)
      PROVE  req'[g] = req[g]
  BY <1>5, <1>6 DEF UpdatePassword, Goto, TypeOK, Request
<1>7. ASSUME NEW f \in Handlers, DeleteUserRefreshTokens(f), req'[g] # req[g]
      PROVE  /\ req[g].pc = "tokens" /\ req'[g].pc = "delete"
             /\ req'[g].user = req[g].user /\ req'[g].admin = req[g].admin
  BY <1>7 DEF DeleteUserRefreshTokens, Goto, TypeOK, Request
<1>8. ASSUME NEW f \in Handlers, CountAdmins(f), req'[g] # req[g]
      PROVE  /\ CountAdmins(g) /\ ~LastAdmin /\ req[g].pc = "count"
             /\ req'[g].user = req[g].user /\ req'[g].admin = req[g].admin
  <2>1. f = g /\ req[f].pc = "count" /\ Goto(f, "permissions") /\ ~LastAdmin
    BY <1>5, <1>8 DEF CountAdmins, Goto, TypeOK
  <2>. QED
    BY <1>8, <2>1 DEF Goto, TypeOK, Request
<1>9. ASSUME NEW f \in Handlers,
             LoginSave(f) \/ Revoke(f) \/ DeleteRow(f) \/ WritePermissions(f)
               \/ InsertUser(f)
      PROVE  req'[g] = req[g]
  BY <1>5, <1>9 DEF LoginSave, Revoke, DeleteRow, WritePermissions, InsertUser
<1>10. CASE Exit \/ Crash
  BY <1>1, <1>10 DEF Exit, Crash
<1>11. CASE \/ Boot \/ BootFails \/ Stop \/ CleanExpiredTokens
            \/ (\E u \in Users : Logout(u)) \/ UNCHANGED vars
  BY <1>11 DEF Boot, BootFails, Stop, CleanExpiredTokens, Logout, vars
<1>. QED
  BY <1>2, <1>3, <1>4, <1>6, <1>7, <1>8, <1>9, <1>10, <1>11
     DEF Next, SessionStep, AdminStep, Beginning

\* Who may be deleted or lose a permission is in the hands of one request, so
\* nobody else becomes an administrator or stops being one while it runs.
LEMMA AdminsOnlyChangeSo ==
  ASSUME Base, [Next]_vars, NEW v \in Users
  PROVE  /\ v \in Admins /\ v \notin Admins' =>
              \E h \in Handlers : /\ req[h].user = v
                                  /\ \/ DeleteRow(h)
                                     \/ WritePermissions(h) /\ ~req[h].admin
         /\ v \in Admins' /\ v \notin Admins =>
              \/ Boot
              \/ \E h \in Handlers : /\ req[h].user = v
                                     /\ WritePermissions(h) \/ (InsertUser(h) /\ ~Exists(v))
<1>. USE DEF Base, Admins
<1>1. None \notin Row
  BY NoneAssumption
<1>2. ASSUME NEW h \in Handlers, DeleteRow(h)
      PROVE  /\ v \in Admins /\ v \notin Admins' => req[h].user = v
             /\ v \in Admins' => v \in Admins
  BY <1>2 DEF DeleteRow, TypeOK
<1>3. ASSUME NEW h \in Handlers, UpdatePassword(h), Exists(req[h].user),
             WithPassword(req[h].user, req[h].pass) \in Row,
             rows' = [rows EXCEPT ![req[h].user] =
                        WithPassword(req[h].user, req[h].pass)]
      PROVE  v \in Admins' <=> v \in Admins
  <2>1. req[h].user \in Users
    BY <1>3, RequestsAlive DEF UpdatePassword
  <2>2. WithPassword(req[h].user, req[h].pass).admin = rows[req[h].user].admin
    BY <1>3, <2>1, RowTyped DEF WithPassword, Row
  <2>. QED
    BY <1>1, <1>3, <2>1, <2>2 DEF TypeOK
<1>4. ASSUME NEW h \in Handlers, WritePermissions(h), Exists(req[h].user),
             [rows[req[h].user] EXCEPT !.admin = req[h].admin] \in Row,
             rows' = [rows EXCEPT ![req[h].user] =
                        [rows[req[h].user] EXCEPT !.admin = req[h].admin]]
      PROVE  (v \in Admins' <=> v \in Admins)
               \/ (req[h].user = v /\ (v \in Admins' <=> req[h].admin))
  <2>1. req[h].user \in Users
    BY <1>4, RequestsAlive DEF WritePermissions
  <2>2. [rows[req[h].user] EXCEPT !.admin = req[h].admin].admin = req[h].admin
    BY <2>1, <1>4, RowTyped DEF Row
  <2>. QED
    BY <1>1, <1>4, <2>1, <2>2 DEF TypeOK
<1>5. ASSUME NEW h \in Handlers, InsertUser(h), NEW r \in Row,
             rows' = [rows EXCEPT ![req[h].user] = r]
      PROVE  (v \in Admins' <=> v \in Admins) \/ (req[h].user = v /\ ~Exists(v))
  BY <1>5 DEF InsertUser, IdsInv, TypeOK
<1>6. CASE Boot
  BY <1>6 DEF Boot, CreateDefaultAdmin, TypeOK
<1>. QED
  BY <1>2, <1>3, <1>4, <1>5, <1>6, RowsStep

\* Of more than one administrators there is another than u.
LEMMA AnotherAdmin ==
  ASSUME ~LastAdmin, NEW u
  PROVE  Admins \ {u} # {}
<1>1. IsFiniteSet(Admins)
  BY UsersAssumption, FS_Subset DEF Admins
<1>2. SUFFICES ASSUME Admins \ {u} = {} PROVE FALSE
  OBVIOUS
<1>3. Admins = {} \/ Admins = {u}
  BY <1>2
<1>4. Cardinality({}) = 0 /\ Cardinality({u}) = 1
  BY FS_EmptySet, FS_Singleton
<1>. QED
  BY <1>3, <1>4 DEF LastAdmin

\* One request at a time, and its user stays.
LEMMA OneAtATime ==
  ASSUME SerialAdmin, Base, AdminInv, [Next]_vars
  PROVE  /\ \A g, h \in Handlers : Administering(g)' /\ Administering(h)' => g = h
         /\ \A h \in Handlers : Administering(h)' =>
              req'[h].user \in Users /\ Exists(req[h].user)'
<1>. USE DEF Base
<1>1. ASSUME NEW g \in Handlers, Delete(g) \/ UpdatePermissions(g)
      PROVE  /\ \A h \in Handlers : ~Administering(h)
             /\ \A h \in Handlers \ {g} : req'[h] = req[h]
             /\ req'[g].user \in Users /\ Exists(req[g].user)'
  <2>1. \A h \in Handlers : ~Administering(h)
    BY <1>1 DEF Delete, UpdatePermissions, Alone, Administering
  <2>2. \E u \in Users, r \in Request : Exists(u) /\ Begin(g, r) /\ r.user = u
    <3>1. CASE Delete(g)
      <4>1. PICK u \in Users :
              Exists(u) /\ Begin(g, [Idle EXCEPT !.pc = "tokens", !.user = u])
        BY <3>1 DEF Delete, Deletable
      <4>2. [Idle EXCEPT !.pc = "tokens", !.user = u] \in Request
        BY IdleTyped DEF Request, RequestPcs
      <4>3. [Idle EXCEPT !.pc = "tokens", !.user = u].user = u
        BY DEF Idle
      <4>. QED
        BY <4>1, <4>2, <4>3
    <3>2. CASE UpdatePermissions(g)
      <4>1. PICK u \in Users, a \in BOOLEAN :
              /\ Exists(u)
              /\ Begin(g, [Idle EXCEPT !.user = u, !.admin = a,
                             !.pc = IF rows[u].admin /\ ~a THEN "count"
                                                           ELSE "permissions"])
        BY <3>2 DEF UpdatePermissions
      <4>2. ASSUME NEW pc \in RequestPcs
            PROVE  /\ [Idle EXCEPT !.user = u, !.admin = a, !.pc = pc] \in Request
                   /\ [Idle EXCEPT !.user = u, !.admin = a, !.pc = pc].user = u
        BY IdleTyped DEF Request, Idle
      <4>3. {"count", "permissions"} \subseteq RequestPcs
        BY DEF RequestPcs
      <4>4. CASE rows[u].admin /\ ~a
        BY <4>1, <4>2, <4>3, <4>4
      <4>5. CASE ~(rows[u].admin /\ ~a)
        BY <4>1, <4>2, <4>3, <4>5
      <4>. QED
        BY <4>4, <4>5
    <3>. QED
      BY <1>1, <3>1, <3>2
  <2>3. PICK u \in Users, r \in Request : Exists(u) /\ Begin(g, r) /\ r.user = u
    BY <2>2
  <2>4. req'[g] = r /\ rows' = rows /\ \A h \in Handlers \ {g} : req'[h] = req[h]
    BY <2>3 DEF Begin, TypeOK
  <2>. QED
    BY <2>1, <2>3, <2>4
<1>2. ASSUME NEW g \in Handlers, NEW h \in Handlers, Administering(g)',
             Administering(h)', g # h
      PROVE  FALSE
  <2>1. CASE Delete(g) \/ UpdatePermissions(g)
    BY <1>1, <1>2, <2>1 DEF Administering
  <2>2. CASE Delete(h) \/ UpdatePermissions(h)
    BY <1>1, <1>2, <2>2 DEF Administering
  <2>3. CASE Administering(g) /\ Administering(h)
    BY <1>2, <2>3 DEF AdminInv
  <2>. QED
    BY <1>2, <2>1, <2>2, <2>3, AdministeringStep
<1>3. ASSUME NEW h \in Handlers, Administering(h)', Administering(h),
             req'[h].user = req[h].user
      PROVE  req'[h].user \in Users /\ Exists(req[h].user)'
  <2>1. req[h].user \in Users /\ Exists(req[h].user)
    BY <1>3 DEF AdminInv
  <2>2. ASSUME NEW g \in Handlers, DeleteRow(g)
        PROVE  FALSE
    <3>1. g = h
      BY <1>3, <2>2 DEF DeleteRow, Administering, AdminInv
    <3>2. req' = [req EXCEPT ![h] = Idle]
      BY <2>2, <3>1 DEF DeleteRow, Finish
    <3>. QED
      BY <1>3, <3>2 DEF Administering, Idle, TypeOK
  <2>. QED
    BY <1>3, <2>1, <2>2, ExistsStep
<1>. QED
  BY <1>1, <1>2, <1>3, AdministeringStep

\* Nobody else changes the administrators while a request administers accounts.
LEMMA AdminsStayPut ==
  ASSUME SerialAdmin, Base, AdminInv, [Next]_vars, NEW g \in Handlers,
         Administering(g), Administering(g)'
  PROVE  /\ Admins \subseteq Admins'
         /\ req[g].user \notin Admins => req[g].user \notin Admins'
<1>1. ASSUME NEW h \in Handlers, DeleteRow(h) \/ WritePermissions(h)
      PROVE  FALSE
  <2>1. g = h
    BY <1>1 DEF DeleteRow, WritePermissions, Administering, AdminInv
  <2>2. req' = [req EXCEPT ![h] = Idle]
    BY <1>1 DEF DeleteRow, WritePermissions, Finish
  <2>. QED
    BY <2>1, <2>2 DEF Administering, Idle, Base, TypeOK
<1>2. req[g].user \in Users /\ Exists(req[g].user) /\ Alive
  BY RequestsAlive DEF Administering, AdminInv, Base
<1>3. ~Boot
  BY <1>2 DEF Boot
<1>. QED
  BY <1>1, <1>2, <1>3, AdminsOnlyChangeSo DEF Admins

\* Who is deleted is no administrator, who is demoted not the only one.
LEMMA ChecksStayGood ==
  ASSUME SerialAdmin, Base, AdminInv, [Next]_vars, NEW g \in Handlers
  PROVE  /\ req'[g].pc \in {"tokens", "delete"} => req'[g].user \notin Admins'
         /\ req'[g].pc = "permissions" /\ ~req'[g].admin =>
              req'[g].user \notin Admins' \/ Admins' \ {req'[g].user} # {}
<1>. SUFFICES ASSUME Administering(g)'
              PROVE  /\ req'[g].pc \in {"tokens", "delete"} =>
                          req'[g].user \notin Admins'
                     /\ req'[g].pc = "permissions" /\ ~req'[g].admin =>
                          \/ req'[g].user \notin Admins'
                          \/ Admins' \ {req'[g].user} # {}
  BY DEF Administering
<1>1. CASE Delete(g)
  <2>1. PICK u \in Users : /\ Deletable(u)
                           /\ Begin(g, [Idle EXCEPT !.pc = "tokens", !.user = u])
    BY <1>1 DEF Delete
  <2>2. req'[g].user = u /\ req'[g].pc = "tokens" /\ UNCHANGED rows
    BY <2>1 DEF Begin, Idle, Base, TypeOK
  <2>. QED
    BY <2>1, <2>2 DEF Deletable, Admins
<1>2. CASE UpdatePermissions(g)
  <2>1. PICK u \in Users, a \in BOOLEAN :
          Begin(g, [Idle EXCEPT !.user = u, !.admin = a,
                      !.pc = IF rows[u].admin /\ ~a THEN "count"
                                                    ELSE "permissions"])
    BY <1>2 DEF UpdatePermissions
  <2>2. /\ req'[g].user = u /\ req'[g].admin = a /\ UNCHANGED rows
        /\ req'[g].pc = IF rows[u].admin /\ ~a THEN "count" ELSE "permissions"
    BY <2>1 DEF Begin, Idle, Base, TypeOK
  <2>. QED
    BY <2>2 DEF Admins
<1>3. CASE /\ Administering(g)
           /\ req'[g].user = req[g].user /\ req'[g].admin = req[g].admin
           /\ \/ req'[g].pc = req[g].pc
              \/ req[g].pc = "tokens" /\ req'[g].pc = "delete"
  BY <1>3, AdminsStayPut DEF AdminInv
<1>4. CASE CountAdmins(g) /\ ~LastAdmin /\ Administering(g)
  <2>1. Admins \ {req'[g].user} # {} /\ Admins \subseteq Admins'
    BY <1>4, AnotherAdmin, AdminsStayPut
  <2>2. req'[g].pc = "permissions"
    BY <1>4 DEF CountAdmins, Finish, Goto, Idle, Administering, Base, TypeOK,
       Request
  <2>. QED
    BY <2>1, <2>2
<1>. QED
  BY <1>1, <1>2, <1>3, <1>4, AdministeringStep DEF Base

\* Where there is an administrator there is one after the step.
LEMMA AdminRemains ==
  ASSUME SerialAdmin, Base, AdminInv, [Next]_vars, Admins # {}
  PROVE  Admins' # {}
<1>1. PICK v \in Users : v \in Admins
  BY DEF Admins
<1>2. CASE v \in Admins'
  BY <1>2
<1>3. ASSUME NEW h \in Handlers, req[h].user = v, v \in Admins,
             WritePermissions(h), ~req[h].admin
      PROVE  Admins' # {}
  <2>1. PICK w \in Users : w \in Admins /\ w # v
    BY <1>3 DEF WritePermissions, AdminInv, Admins
  <2>2. ASSUME NEW g \in Handlers, DeleteRow(g) \/ WritePermissions(g)
        PROVE  g = h
    BY <1>3, <2>2 DEF DeleteRow, WritePermissions, Administering, AdminInv
  <2>3. w \in Admins'
    BY <1>3, <2>1, <2>2, AdminsOnlyChangeSo
  <2>. QED
    BY <2>3
<1>4. ASSUME NEW h \in Handlers, req[h].user = v, DeleteRow(h)
      PROVE  FALSE
  BY <1>1, <1>4 DEF DeleteRow, AdminInv
<1>. QED
  BY <1>1, <1>2, <1>3, <1>4, AdminsOnlyChangeSo

\* A server that is up, or has a user, has an administrator.
LEMMA ServerHasAdmin ==
  ASSUME SerialAdmin, Base, AdminInv, [Next]_vars, Alive' \/ \E u \in Users : Exists(u)'
  PROVE  Admins' # {}
<1>1. CASE Admins # {}
  BY <1>1, AdminRemains
<1>2. CASE Boot /\ ~\E u \in Users : Exists(u)
  <2>1. \A c \in Configurations :
          [name |-> c.user, pass |-> c.pass, admin |-> TRUE] \in Row
    BY ConfigurationsAssumption DEF Row
  <2>2. None \notin Row
    BY NoneAssumption
  <2>3. ASSUME NEW c \in Configurations, CreateDefaultAdmin(c.user, c.pass)
        PROVE  AdminID \in Admins'
    BY <1>2, <2>1, <2>2, <2>3, AdminAssumption
       DEF CreateDefaultAdmin, AdminFound, NameTaken, Admins, Base, TypeOK
  <2>4. \/ \E c \in Configurations : CreateDefaultAdmin(c.user, c.pass)
        \/ status' = "refused" /\ UNCHANGED rows
    BY <1>2 DEF Boot
  <2>. QED
    BY <1>2, <2>3, <2>4
<1>3. CASE ~Alive /\ ~Boot /\ ~\E u \in Users : Exists(u)
  <2>1. ~Alive'
    BY <1>3, ProcessStep DEF BootFails, Stop, Exit, Crash, process, Base
  <2>2. UNCHANGED rows
    BY <1>3, RowsStep, RequestsAlive
       DEF Base, DeleteRow, UpdatePassword, WritePermissions, InsertUser
  <2>. QED
    BY <1>3, <2>1, <2>2
<1>. QED
  BY <1>1, <1>2, <1>3 DEF AdminInv

LEMMA AdminInvStep == SerialAdmin /\ Base /\ AdminInv /\ [Next]_vars => AdminInv'
<1>. SUFFICES ASSUME SerialAdmin, Base, AdminInv, [Next]_vars PROVE AdminInv'
  OBVIOUS
<1>1. /\ \A g, h \in Handlers : Administering(g)' /\ Administering(h)' => g = h
      /\ \A h \in Handlers : Administering(h)' =>
           req'[h].user \in Users /\ Exists(req[h].user)'
  BY OneAtATime
<1>2. /\ \A h \in Handlers :
           req'[h].pc \in {"tokens", "delete"} => req'[h].user \notin Admins'
      /\ \A h \in Handlers : req'[h].pc = "permissions" /\ ~req'[h].admin =>
           req'[h].user \notin Admins' \/ Admins' \ {req'[h].user} # {}
  BY ChecksStayGood
<1>3. (Alive' \/ \E u \in Users : Exists(u)') => Admins' # {}
  BY ServerHasAdmin
<1>. QED
  BY <1>1, <1>2, <1>3 DEF AdminInv

LEMMA AdminInvInitial == Init => AdminInv
<1>. SUFFICES ASSUME Init PROVE AdminInv
  OBVIOUS
<1>1. \A h \in Handlers : req[h].pc = "idle"
  BY DEF Init, Idle
<1>2. ~Alive /\ \A u \in Users : ~Exists(u)
  BY DEF Init
<1>. QED
  BY <1>1, <1>2 DEF AdminInv, Administering

LEMMA AdminInvHolds ==
  ASSUME SerialAdmin
  PROVE  Spec => []AdminInv
<1>1. Base /\ AdminInv /\ [Next]_vars => AdminInv'
  BY AdminInvStep
<1>. QED
  BY <1>1, AdminInvInitial, BaseHolds, PTL DEF Spec

\* While accounts are deleted and demoted one request at a time, there is an
\* administrator in every server that is up, whatever its configuration, the
\* failures and the restarts (handlers/user.go:191, 256 and main.go:234).
THEOREM ThereIsAnAdmin == SerialAdmin => (Spec => []SomeAdmin)
<1>. SUFFICES ASSUME SerialAdmin PROVE Spec => []SomeAdmin
  OBVIOUS
<1>1. AdminInv => SomeAdmin
  BY DEF AdminInv, SomeAdmin
<1>. QED
  BY <1>1, AdminInvHolds, PTL

\* Under the same condition an administrator is never deleted (user.go:191).
THEOREM AdminsAreNotDeleted == SerialAdmin => (Spec => AdminsStay)
<1>. SUFFICES ASSUME SerialAdmin PROVE Spec => AdminsStay
  OBVIOUS
<1>1. Base /\ AdminInv /\ [Next]_vars => [\A u \in Admins : rows'[u] # None]_vars
  <2>. SUFFICES ASSUME Base, AdminInv, [Next]_vars, NEW u \in Users, u \in Admins
                PROVE  rows'[u] # None
    BY DEF Admins
  <2>1. None \notin Row
    BY NoneAssumption
  <2>2. ASSUME NEW h \in Handlers, DeleteRow(h)
        PROVE  rows'[u] # None
    BY <2>2 DEF DeleteRow, AdminInv, Admins, Base, TypeOK
  <2>. QED
    BY <2>1, <2>2, RowsStep DEF Admins, Base, TypeOK
<1>. QED
  BY <1>1, BaseHolds, AdminInvHolds, PTL DEF Spec, AdminsStay

\* The row of the default administrator keeps the configured name: nothing changes
\* a name, and his ID is not given out.
LEMMA NameStep ==
  ASSUME OneUser, Base, NameInv, [Next]_vars
  PROVE  NameInv'
<1>. USE DEF Base, NameInv
<1>1. AdminID \in Users
  BY AdminAssumption
<1>2. CASE Boot
  <2>1. \A c \in Configurations :
          [name |-> c.user, pass |-> c.pass, admin |-> TRUE].name = c.user
    OBVIOUS
  <2>2. ASSUME NEW c \in Configurations, CreateDefaultAdmin(c.user, c.pass)
        PROVE  NameInv'
    BY <1>1, <2>1, <2>2 DEF CreateDefaultAdmin, OneUser, TypeOK
  <2>. QED
    BY <1>2, <2>2 DEF Boot
<1>3. ASSUME NEW h \in Handlers, DeleteRow(h)
      PROVE  NameInv'
  BY <1>1, <1>3 DEF DeleteRow, TypeOK
<1>4. ASSUME NEW h \in Handlers, InsertUser(h), NEW r \in Row,
             rows' = [rows EXCEPT ![req[h].user] = r]
      PROVE  NameInv'
  <2>1. req[h].user # AdminID
    BY <1>4 DEF InsertUser, IdsInv
  <2>. QED
    BY <1>1, <1>4, <2>1 DEF TypeOK
<1>5. ASSUME NEW u, NEW r \in Row, Exists(u), u \in Users, r.name = rows[u].name,
             rows' = [rows EXCEPT ![u] = r]
      PROVE  NameInv'
  BY <1>1, <1>5 DEF TypeOK
<1>6. ASSUME NEW h \in Handlers, UpdatePassword(h), Exists(req[h].user),
             WithPassword(req[h].user, req[h].pass) \in Row,
             rows' = [rows EXCEPT ![req[h].user] =
                        WithPassword(req[h].user, req[h].pass)]
      PROVE  NameInv'
  <2>1. req[h].user \in Users
    BY <1>6, RequestsAlive DEF UpdatePassword
  <2>2. WithPassword(req[h].user, req[h].pass).name = rows[req[h].user].name
    BY <1>6, <2>1, RowTyped DEF WithPassword, Row
  <2>. QED
    BY <1>5, <1>6, <2>1, <2>2
<1>7. ASSUME NEW h \in Handlers, WritePermissions(h), Exists(req[h].user),
             [rows[req[h].user] EXCEPT !.admin = req[h].admin] \in Row,
             rows' = [rows EXCEPT ![req[h].user] =
                        [rows[req[h].user] EXCEPT !.admin = req[h].admin]]
      PROVE  NameInv'
  <2>1. req[h].user \in Users
    BY <1>7, RequestsAlive DEF WritePermissions
  <2>2. [rows[req[h].user] EXCEPT !.admin = req[h].admin].name = rows[req[h].user].name
    BY <1>7, <2>1, RowTyped DEF Row
  <2>. QED
    BY <1>5, <1>7, <2>1, <2>2
<1>. QED
  BY <1>2, <1>3, <1>4, <1>6, <1>7, RowsStep

\* The administrator that is missing can be inserted, and nobody inserts one while
\* the server is down.
LEMMA BootStep ==
  ASSUME Base, NameInv, BootSucceeds, [Next]_vars
  PROVE  BootSucceeds'
<1>. USE DEF Base
<1>1. ASSUME NEW c \in Configurations, CreateDefaultAdmin(c.user, c.pass)
      PROVE  /\ status' # "dead"
             /\ status' = "unhashed" =>
                  rows'[AdminID] = None /\ \E d \in Configurations : ~Hashable(d.pass)
  <2>1. ~AdminFound(c.user) => rows[AdminID] = None
    BY AdminAssumption DEF AdminFound, NameTaken, NameInv
  <2>. QED
    BY <1>1, <2>1, AdminAssumption DEF CreateDefaultAdmin, AdminFound
<1>2. CASE Boot
  BY <1>1, <1>2 DEF Boot, BootSucceeds
<1>3. CASE BootFails
  BY <1>3, BoundsAssumption DEF BootFails, Fault, BootSucceeds, TypeOK
<1>4. CASE Stop \/ Exit \/ Crash
  BY <1>4 DEF Stop, Exit, Crash, BootSucceeds
<1>5. CASE UNCHANGED process /\ ~Boot
  <2>1. faults' >= faults /\ faults \in Nat
    BY CountersStep, BoundsAssumption DEF TypeOK
  <2>2. faults' \in Nat
    BY TypeStep, BoundsAssumption DEF TypeOK
  <2>3. status = "unhashed" => UNCHANGED rows
    BY <1>5, RowsStep, RequestsAlive
       DEF DeleteRow, UpdatePassword, WritePermissions, InsertUser
  <2>. QED
    BY <1>5, <2>1, <2>2, <2>3 DEF process, BootSucceeds
<1>. QED
  BY <1>2, <1>3, <1>4, <1>5, ProcessStep

\* While one administrator is configured and the database works, the server
\* starts, whatever requests and restarts did before (main.go:234), unless he is
\* missing and a start finds a password for him that bcrypt rejects (main.go:248).
THEOREM ServerStarts == OneUser => (Spec => []BootSucceeds)
<1>. SUFFICES ASSUME OneUser PROVE Spec => []BootSucceeds
  OBVIOUS
<1>1. Init => NameInv /\ BootSucceeds
  BY AdminAssumption DEF Init, NameInv, BootSucceeds
<1>2. Base /\ NameInv /\ BootSucceeds /\ [Next]_vars => NameInv' /\ BootSucceeds'
  BY NameStep, BootStep
<1>. QED
  BY <1>1, <1>2, BaseHolds, PTL DEF Spec

-----------------------------------------------------------------------------
(* From the environments to the configurations.                             *)

\* Line i of .env is the first that sets key.
IsFirst(lines, key, i) ==
  i \in Sets(lines, key) /\ \A j \in Sets(lines, key) : i <= j

\* What the start e finds for key is value: the environment says it, or does not
\* know the key, and the first line that sets the key does.
Says(e, key, value) ==
  \/ key \in DOMAIN e.env /\ e.env[key] = value
  \/ /\ key \notin DOMAIN e.env
     /\ \E i \in DOMAIN e.dotEnv :
          IsFirst(e.dotEnv, key, i) /\ e.dotEnv[i].value = value

\* Every start finds the same text, which is not empty.
Fixed(key) == \E v \in Texts \ {Empty} : \A e \in Environments : Says(e, key, v)

LEMMA FirstValueIsFirst ==
  ASSUME NEW lines \in Seq(Lines), NEW key, NEW i, IsFirst(lines, key, i)
  PROVE  FirstValue(lines, key) = lines[i].value
<1>1. Sets(lines, key) \subseteq Int
  BY DEF Sets
<1>2. \A j \in Sets(lines, key) : (\A k \in Sets(lines, key) : j <= k) => j = i
  BY <1>1 DEF IsFirst
<1>3. (CHOOSE j \in Sets(lines, key) : \A k \in Sets(lines, key) : j <= k) = i
  BY <1>2 DEF IsFirst
<1>. QED
  BY <1>3 DEF FirstValue

\* What is said is loaded.
LEMMA SaidIsLoaded ==
  ASSUME NEW e \in Environments, NEW key, NEW value, Says(e, key, value)
  PROVE  GetEnv(LoadDotEnv(e.env, e.dotEnv), key, Empty) = value
<1>. DEFINE known == DOMAIN e.env \cup {e.dotEnv[i].key : i \in DOMAIN e.dotEnv}
            loaded == LoadDotEnv(e.env, e.dotEnv)
<1>1. DOMAIN loaded = known
  BY DEF LoadDotEnv
<1>2. key \in known =>
        loaded[key] = IF key \in DOMAIN e.env THEN e.env[key]
                                              ELSE FirstValue(e.dotEnv, key)
  BY DEF LoadDotEnv
<1>3. CASE key \in DOMAIN e.env
  BY <1>1, <1>2, <1>3 DEF Says, GetEnv
<1>4. CASE key \notin DOMAIN e.env
  <2>1. PICK i \in DOMAIN e.dotEnv :
          IsFirst(e.dotEnv, key, i) /\ e.dotEnv[i].value = value
    BY <1>4 DEF Says
  <2>2. FirstValue(e.dotEnv, key) = value
    BY <2>1, EnvironmentsAssumption, FirstValueIsFirst
  <2>3. key \in known
    BY <2>1 DEF IsFirst, Sets
  <2>. QED
    BY <1>1, <1>2, <1>4, <2>2, <2>3 DEF GetEnv
<1>. QED
  BY <1>3, <1>4

\* Nothing is generated for a variable that is set.
LEMMA SaidIsConfigured ==
  ASSUME NEW c \in Configurations
  PROVE  /\ \A v \in Texts \ {Empty} :
              (\A e \in Environments : Says(e, "JWT_SECRET", v)) => c.secret = v
         /\ \A v \in Texts \ {Empty} :
              (\A e \in Environments : Says(e, "ADMIN_USER", v)) => c.user = v
<1>1. PICK e \in Environments : c \in Load(e.env, e.dotEnv)
  BY DEF Configurations
<1>. DEFINE loaded == LoadDotEnv(e.env, e.dotEnv)
<1>2. /\ c.user \in OrGenerated(loaded, "ADMIN_USER", RandomUsername)
      /\ c.secret \in OrGenerated(loaded, "JWT_SECRET", Base64Secret)
  BY <1>1 DEF Load
<1>3. ASSUME NEW key, NEW random, NEW v \in Texts \ {Empty}, Says(e, key, v)
      PROVE  OrGenerated(loaded, key, random) \subseteq {v}
  <2>1. GetEnv(loaded, key, Empty) = v
    BY <1>3, SaidIsLoaded
  <2>2. key \in DOMAIN loaded /\ loaded[key] = v
    BY <2>1, <1>3 DEF GetEnv
  <2>. QED
    BY <2>1, <2>2, <1>3 DEF OrGenerated
<1>. QED
  BY <1>2, <1>3

LEMMA FixedIsOne ==
  /\ Fixed("JWT_SECRET") => OneSecret
  /\ Fixed("ADMIN_USER") => OneUser
BY SaidIsConfigured DEF Fixed, OneSecret, OneUser

\* A JWT_SECRET that every start finds, in its environment or in .env, is enough
\* for the sessions to survive the restarts (config.go:56 and 89, main.go:65).
THEOREM SetSecretSurvives == Fixed("JWT_SECRET") => (Spec => []SessionsSurvive)
BY FixedIsOne, ConfiguredSessionsSurvive

\* With an ADMIN_USER that every start finds the server starts while the database
\* works, whatever the secret is, and whatever the password once the administrator
\* is there; before, one that bcrypt accepts (config.go:79, main.go:234).
THEOREM SetUserStarts == Fixed("ADMIN_USER") => (Spec => []BootSucceeds)
BY FixedIsOne, ServerStarts

=============================================================================
