---------------------------- MODULE RateLimiter ----------------------------
(***************************************************************************)
(* The rate limiter of mdict-server (internal/middleware/ratelimit.go).     *)
(* It counts the requests of each address and starts again at one when an  *)
(* address was quiet for an interval; a goroutine forgets quiet addresses. *)
(* One instance is modelled: the server has one for the login, and one     *)
(* each for two groups of routes, and they share nothing.  Allow and the   *)
(* sweep run under the mutex and are one step each.                        *)
(*                                                                         *)
(* log and last are history variables.                                     *)
(***************************************************************************)
EXTENDS Integers, Sequences

CONSTANTS
  IPs,       \* client addresses
  Rate,      \* NewRateLimiter's rate: requests allowed without a pause
  Interval,  \* length of the pause
  MaxTime,   \* bound: the clock
  None

ASSUME RateAssumption == Rate \in Nat \ {0} /\ Interval \in Nat
ASSUME TimeAssumption == MaxTime \in Nat
ASSUME NoneAssumption == None \notin [count : Nat, lastSeen : Nat] /\ None \notin IPs

VARIABLES
  visitors,  \* what the limiter knows of each address
  now,       \* the clock
  wake,      \* when the sleep of the cleanup goroutine ends
  log,       \* log[ip]: the times of the requests that were allowed
  last       \* the last request and its answer

vars == <<visitors, now, wake, log, last>>

Visitor == [count : 1..Rate, lastSeen : 0..MaxTime]
Answer == [ip : IPs, at : 0..MaxTime, ok : BOOLEAN]

-----------------------------------------------------------------------------
Init ==
  /\ visitors = [ip \in IPs |-> None]
  /\ now = 0
  /\ wake = Interval
  /\ log = [ip \in IPs |-> <<>>]
  /\ last = None

Known(ip) == visitors[ip] # None

Quiet(ip) == now - visitors[ip].lastSeen > Interval

\* Faulty variant: one request too many.
ExhaustedLate(ip) == visitors[ip].count > Rate

Exhausted(ip) == visitors[ip].count >= Rate

Grant(ip, count) ==
  /\ visitors' = [visitors EXCEPT ![ip] = [count |-> count, lastSeen |-> now]]
  /\ log' = [log EXCEPT ![ip] = Append(@, now)]
  /\ last' = [ip |-> ip, at |-> now, ok |-> TRUE]
  /\ UNCHANGED <<now, wake>>

\* Faulty variant: a rejected request is activity, too.
RejectAndTouch(ip) ==
  /\ visitors' = [visitors EXCEPT ![ip].lastSeen = now]
  /\ last' = [ip |-> ip, at |-> now, ok |-> FALSE]
  /\ UNCHANGED <<now, wake, log>>

Reject(ip) ==
  /\ last' = [ip |-> ip, at |-> now, ok |-> FALSE]
  /\ UNCHANGED <<visitors, now, wake, log>>

Allow(ip) ==
  \/ ~Known(ip) /\ Grant(ip, 1)
  \/ Known(ip) /\ Quiet(ip) /\ Grant(ip, 1)
  \/ Known(ip) /\ ~Quiet(ip) /\ Exhausted(ip) /\ Reject(ip)
  \/ /\ Known(ip) /\ ~Quiet(ip) /\ ~Exhausted(ip)
     /\ Grant(ip, visitors[ip].count + 1)

\* Faulty variant: the sweep starts every count again.
ForgetAll == [ip \in IPs |-> None]

Forgotten == [ip \in IPs |-> IF Known(ip) /\ Quiet(ip) THEN None
                                                       ELSE visitors[ip]]

\* The goroutine sleeps for an interval, or longer, and sweeps.
Cleanup ==
  /\ now >= wake
  /\ visitors' = Forgotten
  /\ wake' = now + Interval
  /\ UNCHANGED <<now, log, last>>

Tick ==
  /\ now < MaxTime
  /\ now' = now + 1
  /\ UNCHANGED <<visitors, wake, log, last>>

Next == Tick \/ Cleanup \/ \E ip \in IPs : Allow(ip)

Spec == Init /\ [][Next]_vars

-----------------------------------------------------------------------------
\* Types of the limiter's state and of the history.
TypeOK ==
  /\ visitors \in [IPs -> Visitor \cup {None}]
  /\ now \in 0..MaxTime
  /\ wake \in 0..MaxTime + Interval
  /\ log \in [IPs -> Seq(0..MaxTime)]
  /\ last \in Answer \cup {None}

\* No interval, wherever it begins, contains more than Rate allowed requests of
\* an address, although the count starts again at pauses and although the
\* cleanup forgets addresses ("rate: maximum requests per interval",
\* middleware/ratelimit.go:25).
WindowBound ==
  \A ip \in IPs : \A i \in 1..Len(log[ip]) :
    i + Rate <= Len(log[ip]) => log[ip][i + Rate] - log[ip][i] > Interval

\* An address is rejected only after Rate allowed requests without a pause of an
\* interval between them or since: being rejected does not prolong the wait, so
\* a client that waits for an interval is served (middleware/ratelimit.go:110).
FairRejection ==
  last # None /\ ~last.ok =>
    LET l == log[last.ip]
        n == Len(l)
    IN  /\ n >= Rate
        /\ last.at - l[n] <= Interval
        /\ \A i \in n - Rate + 1..n - 1 : l[i + 1] - l[i] <= Interval

\* What the documentation promises: Rate requests of an address in an interval, so
\* that one is rejected only when Rate requests were allowed in the interval that
\* ends with it ("5 req/min/IP", middleware/ratelimit.go:40, and docs/api.md:1020).
\* Not so in the code: its count starts again at a pause only.
RejectedAtLimit ==
  last # None /\ ~last.ok =>
    LET l == log[last.ip]
        n == Len(l)
    IN  n >= Rate /\ last.at - l[n - Rate + 1] <= Interval
=============================================================================
