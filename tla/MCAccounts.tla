----------------------------- MODULE MCAccounts -----------------------------
(* Instances of Accounts for TLC. *)
EXTENDS Accounts, TLC

CONSTANTS admin, u1, u2, n1, n2, p1, p2, s1, s2, short, long, empty, zero

AccountsSymmetry == Permutations(Handlers) \cup Permutations({u1, u2})

\* Names, passwords and secrets as long as generated ones, a short secret and a
\* password that is too long; one text is a number.
MCTexts == {n1, n2, p1, p2, s1, s2, short, long, empty, zero}
MCNumber == [t \in MCTexts |-> IF t = zero THEN 0 ELSE None]
MCLength ==
  [t \in MCTexts |-> CASE t \in {n1, n2} -> 10
                      [] t \in {p1, p2} -> 16
                      [] t \in {s1, s2} -> 44
                      [] t = short -> 15
                      [] t = long -> 73
                      [] t = empty -> 0
                      [] t = zero -> 1]

Line(k, v) == [key |-> k, value |-> v]
NoVariables == [key \in {} |-> empty]

\* The administrator and the secret are configured: in the environment, against
\* a file with other values, or in the file, against a later line.
InEnvironment ==
  [env |-> [key \in {"ADMIN_USER", "ADMIN_PASS", "JWT_SECRET"} |->
              CASE key = "ADMIN_USER" -> n1
                [] key = "ADMIN_PASS" -> p1
                [] key = "JWT_SECRET" -> s1],
   dotEnv |-> <<Line("JWT_SECRET", s2), Line("ADMIN_USER", n2)>>]
InFile ==
  [env |-> NoVariables,
   dotEnv |-> <<Line("ADMIN_USER", n1), Line("JWT_SECRET", s1),
                Line("RATE_LIMIT", zero), Line("JWT_SECRET", short)>>]

\* Refused: the secret is short.
ShortSecret == [env |-> [key \in {"JWT_SECRET"} |-> short], dotEnv |-> <<>>]

\* Accepted, but no administrator can be created with this password.
LongPassword ==
  [env |-> [key \in {"ADMIN_USER", "ADMIN_PASS"} |->
              IF key = "ADMIN_USER" THEN n1 ELSE long],
   dotEnv |-> <<Line("JWT_SECRET", s1)>>]

\* The file is found, and an empty variable hides its administrator.
EmptyVariable ==
  [env |-> [key \in {"ADMIN_USER"} |-> empty],
   dotEnv |-> <<Line("ADMIN_USER", n1), Line("JWT_SECRET", s1)>>]

Configured == {InEnvironment, InFile, ShortSecret, LongPassword}
Generated == {EmptyVariable}
=============================================================================
