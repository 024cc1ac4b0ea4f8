-------------------------------- MODULE Config --------------------------------
(***************************************************************************)
(* The configuration of mdict-server: pure functions of                    *)
(* internal/config/config.go, from the environment of the process and the  *)
(* lines of the file .env to the configurations a start may run with.      *)
(*                                                                         *)
(* A text is opaque but for its length and the number it reads as: an      *)
(* integer, a duration in hours or a size in MB.  What is generated is any *)
(* member of a set.                                                        *)
(***************************************************************************)
EXTENDS Integers, Sequences

CONSTANTS
  Texts,
  Empty,       \* the empty text
  Number,      \* Number[t]: what t reads as, or None
  Length,      \* Length[t]: the number of bytes of t
  Random,      \* texts that may be generated
  None

ASSUME TextsAssumption ==
  /\ Empty \in Texts
  /\ Number \in [Texts -> Int \cup {None}] /\ Number[Empty] = None
  /\ Length \in [Texts -> Nat]
  /\ Random \subseteq Texts \ {Empty}

\* A line "key = value" of .env; other lines set nothing.
Lines == [key : STRING, value : Texts]

-----------------------------------------------------------------------------
Sets(lines, key) == {i \in DOMAIN lines : lines[i].key = key}

FirstValue(lines, key) ==
  lines[CHOOSE i \in Sets(lines, key) : \A j \in Sets(lines, key) : i <= j].value

\* Faulty variant: .env replaces what the environment says.
DotEnvWins(env, lines) ==
  [key \in DOMAIN env \cup {lines[i].key : i \in DOMAIN lines} |->
     IF Sets(lines, key) # {} THEN FirstValue(lines, key) ELSE env[key]]

\* Each line sets its variable if nothing has set it before.
LoadDotEnv(env, lines) ==
  [key \in DOMAIN env \cup {lines[i].key : i \in DOMAIN lines} |->
     IF key \in DOMAIN env THEN env[key] ELSE FirstValue(lines, key)]

GetEnv(env, key, default) == IF key \in DOMAIN env THEN env[key] ELSE default

\* getEnvInt and getEnvDuration: what cannot be read counts as missing.
GetEnvNumber(env, key, default) ==
  IF key \in DOMAIN env /\ Number[env[key]] # None THEN Number[env[key]]
                                                    ELSE default

\* A size that cannot be parsed is replaced.
UploadLimit(env) == GetEnvNumber(env, "MAX_UPLOAD_SIZE", 500)

\* "admin_" and four characters; 16 characters; 32 bytes in Base64.
RandomUsername == {t \in Random : Length[t] = 10}
RandomPassword == {t \in Random : Length[t] = 16}
Base64Secret == {t \in Random : Length[t] = 44}

\* A variable that is missing or empty is generated.
OrGenerated(env, key, random) ==
  IF GetEnv(env, key, Empty) = Empty THEN random ELSE {env[key]}

MinSecret == 32
LogLevels == {"debug", "info", "warn", "error"}
LogFormats == {"json", "text"}

Validate(c) ==
  /\ c.port \in 1..65535
  /\ Length[c.secret] >= MinSecret
  /\ c.accessTTL > 0 /\ c.refreshTTL > 0
  /\ c.rate >= 0
  /\ c.level \in LogLevels /\ c.format \in LogFormats

\* The configurations this start may have; none if it is refused.
Load(env, lines) ==
  LET e == LoadDotEnv(env, lines)
  IN  {c \in [user : OrGenerated(e, "ADMIN_USER", RandomUsername),
              pass : OrGenerated(e, "ADMIN_PASS", RandomPassword),
              secret : OrGenerated(e, "JWT_SECRET", Base64Secret),
              port : {GetEnvNumber(e, "SERVER_PORT", 8080)},
              accessTTL : {GetEnvNumber(e, "JWT_ACCESS_TTL", 2)},
              refreshTTL : {GetEnvNumber(e, "JWT_REFRESH_TTL", 168)},
              maxUpload : {UploadLimit(e)},
              rate : {GetEnvNumber(e, "RATE_LIMIT", 100)},
              level : {GetEnv(e, "LOG_LEVEL", "info")},
              format : {GetEnv(e, "LOG_FORMAT", "json")}] : Validate(c)}
=============================================================================
