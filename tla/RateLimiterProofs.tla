------------------------- MODULE RateLimiterProofs -------------------------
(***************************************************************************)
(* Proofs about RateLimiter, for every set of addresses, rate, interval    *)
(* and length of the run.                                                  *)
(***************************************************************************)
EXTENDS RateLimiter, SequenceTheorems, TLAPS

-----------------------------------------------------------------------------
(* The inductive invariant: the properties, and what the limiter's entry v  *)
(* for an address says at time t about the times l of its requests.         *)

\* The history is in order and ends before now.
Ordered(l, t) ==
  /\ \A i, j \in 1..Len(l) : i <= j => l[i] <= l[j]
  /\ \A i \in 1..Len(l) : l[i] <= t

\* The count is the number of requests since the last pause, and lastSeen the
\* time of the last one.
CountsBurst(l, v) ==
  LET n == Len(l)
      c == v.count
  IN  /\ c <= n
      /\ l[n] = v.lastSeen
      /\ n > c => l[n - c + 1] - l[n - c] > Interval
      /\ \A i \in n - c + 1..n - 1 : l[i + 1] - l[i] <= Interval

\* Rate requests take more than an interval.
Spread(l) ==
  \A i \in 1..Len(l) : i + Rate <= Len(l) => l[i + Rate] - l[i] > Interval

\* The limiter counts the burst of an address it knows; one it does not know was
\* quiet for an interval.
History(l, v, t) ==
  /\ Ordered(l, t)
  /\ v # None => CountsBurst(l, v)
  /\ v = None /\ Len(l) > 0 => t - l[Len(l)] > Interval
  /\ Spread(l)

Histories == \A ip \in IPs : History(log[ip], visitors[ip], now)

IInv == TypeOK /\ Histories /\ FairRejection

-----------------------------------------------------------------------------
(* Types.                                                                   *)

\* A granted request leaves the state well typed.
LEMMA GrantType ==
  ASSUME TypeOK, NEW ip \in IPs, NEW c \in 1..Rate, Grant(ip, c)
  PROVE  TypeOK'
<1>1. now \in 0..MaxTime
  BY DEF TypeOK
<1>2. visitors' \in [IPs -> Visitor \cup {None}]
  BY <1>1 DEF TypeOK, Grant, Visitor
<1>3. log' \in [IPs -> Seq(0..MaxTime)]
  <2>1. Append(log[ip], now) \in Seq(0..MaxTime)
    BY <1>1 DEF TypeOK
  <2>. QED
    BY <2>1 DEF TypeOK, Grant
<1>4. last' \in Answer
  BY <1>1 DEF Grant, Answer
<1>. QED
  BY <1>2, <1>3, <1>4 DEF TypeOK, Grant

\* Allow grants with a count within the rate, or rejects.
LEMMA AllowCases ==
  ASSUME TypeOK, NEW ip \in IPs, Allow(ip)
  PROVE  \/ (~Known(ip) \/ Quiet(ip)) /\ Grant(ip, 1)
         \/ /\ Known(ip) /\ ~Quiet(ip) /\ visitors[ip].count < Rate
            /\ Grant(ip, visitors[ip].count + 1)
         \/ /\ Known(ip) /\ ~Quiet(ip) /\ visitors[ip].count = Rate
            /\ Reject(ip)
<1>1. Known(ip) => visitors[ip].count \in 1..Rate
  BY DEF TypeOK, Known, Visitor
<1>. QED
  BY <1>1, RateAssumption DEF Allow, Exhausted

\* Every step keeps the types.
LEMMA TypeStep ==
  ASSUME TypeOK, [Next]_vars
  PROVE  TypeOK'
<1>1. CASE Tick
  BY <1>1, TimeAssumption DEF Tick, TypeOK
<1>2. CASE Cleanup
  <2>1. visitors' \in [IPs -> Visitor \cup {None}]
    BY <1>2 DEF Cleanup, Forgotten, TypeOK
  <2>2. wake' \in 0..MaxTime + Interval
    BY <1>2, TimeAssumption, RateAssumption DEF Cleanup, TypeOK
  <2>. QED
    BY <1>2, <2>1, <2>2 DEF Cleanup, TypeOK
<1>3. ASSUME NEW ip \in IPs, Allow(ip)
      PROVE  TypeOK'
  <2>1. CASE (~Known(ip) \/ Quiet(ip)) /\ Grant(ip, 1)
    BY <2>1, GrantType, RateAssumption
  <2>2. CASE Known(ip) /\ visitors[ip].count < Rate
               /\ Grant(ip, visitors[ip].count + 1)
    <3>1. visitors[ip].count + 1 \in 1..Rate
      BY <2>2, RateAssumption DEF TypeOK, Known, Visitor
    <3>. QED
      BY <2>2, <3>1, GrantType
  <2>3. CASE Reject(ip)
    BY <2>3 DEF Reject, TypeOK, Answer
  <2>. QED
    BY <1>3, <2>1, <2>2, <2>3, AllowCases
<1>4. CASE UNCHANGED vars
  BY <1>4 DEF vars, TypeOK
<1>. QED
  BY <1>1, <1>2, <1>3, <1>4 DEF Next

-----------------------------------------------------------------------------
(* The history of one address.                                              *)

\* Time may pass.
LEMMA LaterHistory ==
  ASSUME NEW l \in Seq(Nat), NEW v, NEW t \in Nat, NEW u \in Nat, t <= u,
         History(l, v, t)
  PROVE  History(l, v, u)
<1>1. \A i \in 1..Len(l) : l[i] \in Nat
  OBVIOUS
<1>2. Len(l) \in Nat
  OBVIOUS
<1>3. Ordered(l, u)
  BY <1>1 DEF History, Ordered
<1>4. v = None /\ Len(l) > 0 => u - l[Len(l)] > Interval
  <2>1. Len(l) > 0 => l[Len(l)] \in Nat
    BY <1>1, <1>2
  <2>. QED
    BY <2>1, RateAssumption DEF History
<1>. QED
  BY <1>3, <1>4 DEF History

\* Forgetting an address that is quiet loses nothing.
LEMMA ForgetHistory ==
  ASSUME NEW l \in Seq(Nat), NEW v, v # None, NEW t \in Nat,
         History(l, v, t), t - v.lastSeen > Interval
  PROVE  History(l, None, t)
BY DEF History, CountsBurst

\* The entries of a history that is appended to.
LEMMA Appended ==
  ASSUME NEW l \in Seq(Nat), NEW t \in Nat
  PROVE  /\ Len(l) \in Nat
         /\ Append(l, t) \in Seq(Nat)
         /\ Len(Append(l, t)) = Len(l) + 1
         /\ \A i \in 1..Len(l) : l[i] \in Nat /\ Append(l, t)[i] = l[i]
         /\ Append(l, t)[Len(l) + 1] = t
OBVIOUS

\* It stays in order.
LEMMA GrantOrdered ==
  ASSUME NEW l \in Seq(Nat), NEW t \in Nat, Ordered(l, t)
  PROVE  Ordered(Append(l, t), t)
<1>. DEFINE n == Len(l)
            a == Append(l, t)
<1>1. /\ n \in Nat /\ Len(a) = n + 1
      /\ \A i \in 1..n : l[i] \in Nat /\ a[i] = l[i]
      /\ a[n + 1] = t
  BY Appended
<1>. HIDE DEF a, n
<1>2. \A i \in 1..n : l[i] <= t
  BY DEF Ordered, n
<1>3. \A i \in 1..n + 1 : a[i] <= t
  BY <1>1, <1>2
<1>4. ASSUME NEW i \in 1..n + 1, NEW j \in 1..n + 1, i <= j
      PROVE  a[i] <= a[j]
  <2>1. CASE j = n + 1
    BY <2>1, <1>1, <1>3
  <2>2. CASE j < n + 1
    <3>1. i \in 1..n /\ j \in 1..n
      BY <2>2, <1>1, <1>4
    <3>2. l[i] <= l[j]
      BY <3>1, <1>4 DEF Ordered, n
    <3>. QED
      BY <3>1, <3>2, <1>1
  <2>. QED
    BY <2>1, <2>2, <1>1
<1>. QED
  BY <1>1, <1>3, <1>4 DEF Ordered, a

\* If the request Rate places earlier lies an interval back, the history stays
\* spread.
LEMMA GrantSpread ==
  ASSUME NEW l \in Seq(Nat), NEW t \in Nat, Spread(l),
         ASSUME NEW i \in 1..Len(l), i + Rate = Len(l) + 1
         PROVE  t - l[i] > Interval
  PROVE  Spread(Append(l, t))
<1>. DEFINE n == Len(l)
            a == Append(l, t)
<1>1. /\ n \in Nat /\ Len(a) = n + 1
      /\ \A i \in 1..n : l[i] \in Nat /\ a[i] = l[i]
      /\ a[n + 1] = t
  BY Appended
<1>2. \A i \in 1..n : i + Rate = n + 1 => t - l[i] > Interval
  OBVIOUS
<1>3. \A i \in 1..n : i + Rate <= n => l[i + Rate] - l[i] > Interval
  BY DEF Spread
<1>. HIDE DEF a, n
<1>4. ASSUME NEW i \in 1..n + 1, i + Rate <= n + 1
      PROVE  a[i + Rate] - a[i] > Interval
  <2>1. i \in 1..n /\ i + Rate \in 1..n + 1
    BY <1>4, <1>1, RateAssumption
  <2>2. CASE i + Rate = n + 1
    BY <2>1, <2>2, <1>1, <1>2
  <2>3. CASE i + Rate <= n
    <3>1. i + Rate \in 1..n
      BY <2>1, <2>3, <1>1, RateAssumption
    <3>. QED
      BY <2>1, <2>3, <3>1, <1>1, <1>3
  <2>. QED
    BY <2>2, <2>3, <1>4, <1>1, RateAssumption
<1>. QED
  BY <1>1, <1>4 DEF Spread, a

\* A first request, or one after a pause: an interval separates it from all
\* earlier ones, and the count starts again.
LEMMA GrantFirst ==
  ASSUME NEW l \in Seq(Nat), NEW v, NEW t \in Nat, History(l, v, t),
         v = None \/ t - v.lastSeen > Interval,
         NEW w, w # None, w.count = 1, w.lastSeen = t
  PROVE  History(Append(l, t), w, t)
<1>. DEFINE n == Len(l)
            a == Append(l, t)
<1>1. /\ n \in Nat /\ Len(a) = n + 1
      /\ \A i \in 1..n : l[i] \in Nat /\ a[i] = l[i]
      /\ a[n + 1] = t
  BY Appended
<1>2. n > 0 => t - l[n] > Interval
  BY DEF History, CountsBurst
<1>3. \A i, j \in 1..n : i <= j => l[i] <= l[j]
  BY DEF History, Ordered
<1>4. Spread(a)
  <2>1. ASSUME NEW i \in 1..n, i + Rate = n + 1
        PROVE  t - l[i] > Interval
    <3>1. n \in 1..n /\ i <= n /\ n > 0
      BY <1>1
    <3>2. l[i] <= l[n] /\ l[i] \in Nat /\ l[n] \in Nat
      BY <3>1, <1>1, <1>3
    <3>. QED
      BY <3>1, <3>2, <1>2, RateAssumption
  <2>. QED
    BY <2>1, GrantSpread DEF History
<1>5. CountsBurst(a, w)
  <2>. HIDE DEF a, n
  <2>1. n > 0 => a[n + 1] - a[n] > Interval
    BY <1>1, <1>2
  <2>2. (n + 1) - 1 + 1 = n + 1 /\ (n + 1) - 1 = n
    BY <1>1
  <2>. QED
    BY <1>1, <2>1, <2>2 DEF CountsBurst
<1>. QED
  BY <1>4, <1>5, GrantOrdered DEF History

\* One more request of a burst: Rate requests ago lies before the last pause.
LEMMA GrantNext ==
  ASSUME NEW l \in Seq(Nat), NEW v, v # None, NEW t \in Nat, History(l, v, t),
         v.count \in Nat \ {0}, v.count < Rate,
         v.lastSeen \in Nat, ~(t - v.lastSeen > Interval),
         NEW w, w # None, w.count = v.count + 1, w.lastSeen = t
  PROVE  History(Append(l, t), w, t)
<1>. DEFINE n == Len(l)
            a == Append(l, t)
            c == v.count
<1>1. /\ n \in Nat /\ Len(a) = n + 1
      /\ \A i \in 1..n : l[i] \in Nat /\ a[i] = l[i]
      /\ a[n + 1] = t
  BY Appended
<1>2. /\ c <= n
      /\ l[n] = v.lastSeen
      /\ n > c => l[n - c + 1] - l[n - c] > Interval
      /\ \A i \in n - c + 1..n - 1 : l[i + 1] - l[i] <= Interval
  BY DEF History, CountsBurst
<1>3. c \in Nat /\ c >= 1 /\ c < Rate
  OBVIOUS
<1>4. t - l[n] <= Interval
  BY <1>2, RateAssumption
<1>5. /\ \A i, j \in 1..n : i <= j => l[i] <= l[j]
      /\ \A i \in 1..n : l[i] <= t
  BY DEF History, Ordered
<1>6. Spread(a)
  <2>1. ASSUME NEW i \in 1..n, i + Rate = n + 1
        PROVE  t - l[i] > Interval
    <3>. HIDE DEF n, c
    <3>1. /\ i <= n - c /\ n > c
          /\ n - c \in 1..n /\ n - c + 1 \in 1..n
      BY <2>1, <1>1, <1>2, <1>3, RateAssumption
    <3>2. l[i] <= l[n - c] /\ l[n - c + 1] <= t
      BY <3>1, <1>5
    <3>3. /\ l[i] \in Nat /\ l[n - c] \in Nat /\ l[n - c + 1] \in Nat
          /\ l[n - c + 1] - l[n - c] > Interval
      BY <3>1, <1>1, <1>2
    <3>. QED
      BY <3>2, <3>3, RateAssumption
  <2>. QED
    BY <2>1, GrantSpread DEF History
<1>7. CountsBurst(a, w)
  <2>. HIDE DEF a, n, c
  <2>1. w.count = c + 1
    BY DEF c
  <2>2. n > c => a[n - c + 1] - a[n - c] > Interval
    <3>. SUFFICES ASSUME n > c
                  PROVE  a[n - c + 1] - a[n - c] > Interval
      OBVIOUS
    <3>1. n - c \in 1..n /\ n - c + 1 \in 1..n
      BY <1>1, <1>3
    <3>. QED
      BY <3>1, <1>1, <1>2
  <2>3. ASSUME NEW i \in n - c + 1..n
        PROVE  a[i + 1] - a[i] <= Interval
    <3>1. CASE i = n
      <4>1. n \in 1..n
        BY <1>1, <1>2, <1>3
      <4>. QED
        BY <3>1, <4>1, <1>1, <1>4
    <3>2. CASE i # n
      <4>1. i \in 1..n /\ i + 1 \in 1..n /\ i \in n - c + 1..n - 1
        BY <3>2, <1>1, <1>2, <1>3
      <4>. QED
        BY <4>1, <1>1, <1>2
    <3>. QED
      BY <3>1, <3>2
  <2>4. /\ (n + 1) - (c + 1) + 1 = n - c + 1
        /\ (n + 1) - (c + 1) = n - c
        /\ (n + 1) - 1 = n
        /\ c + 1 <= n + 1
        /\ n + 1 > c + 1 <=> n > c
    BY <1>1, <1>2, <1>3
  <2>. QED
    BY <1>1, <2>1, <2>2, <2>3, <2>4 DEF CountsBurst
<1>. QED
  BY <1>6, <1>7, GrantOrdered DEF History

-----------------------------------------------------------------------------
(* Steps.                                                                   *)

\* What the types say of one address.
LEMMA AddressType ==
  ASSUME TypeOK, NEW ip \in IPs
  PROVE  /\ now \in Nat
         /\ log[ip] \in Seq(0..MaxTime) /\ log[ip] \in Seq(Nat)
         /\ Known(ip) => /\ visitors[ip].count \in Nat \ {0}
                         /\ visitors[ip].count <= Rate
                         /\ visitors[ip].lastSeen \in Nat
<1>1. /\ now \in 0..MaxTime
      /\ log[ip] \in Seq(0..MaxTime)
      /\ visitors[ip] \in Visitor \cup {None}
  BY DEF TypeOK
<1>2. log[ip] \in Seq(Nat)
  <2>1. 0..MaxTime \subseteq Nat
    BY TimeAssumption
  <2>. QED
    BY <1>1, <2>1, SeqMonotonic
<1>. QED
  BY <1>1, <1>2, RateAssumption, TimeAssumption DEF Known, Visitor

\* Granting a request keeps the histories.
LEMMA GrantStep ==
  ASSUME IInv, NEW ip \in IPs, NEW c \in 1..Rate, Grant(ip, c),
         \/ c = 1 /\ (~Known(ip) \/ Quiet(ip))
         \/ /\ Known(ip) /\ ~Quiet(ip)
            /\ c = visitors[ip].count + 1 /\ visitors[ip].count < Rate
  PROVE  Histories'
<1>. SUFFICES ASSUME NEW q \in IPs
              PROVE  History(log'[q], visitors'[q], now)
  BY DEF Histories, Grant
<1>1. History(log[q], visitors[q], now)
  BY DEF IInv, Histories
<1>2. CASE q # ip
  BY <1>1, <1>2 DEF Grant, IInv, TypeOK
<1>3. CASE q = ip
  <2>. DEFINE w == [count |-> c, lastSeen |-> now]
  <2>1. visitors'[ip] = w /\ log'[ip] = Append(log[ip], now)
    BY DEF Grant, IInv, TypeOK
  <2>2. w # None /\ w.count = c /\ w.lastSeen = now
    BY AddressType, RateAssumption, NoneAssumption DEF IInv
  <2>3. History(Append(log[ip], now), w, now)
    <3>. HIDE DEF w
    <3>1. CASE c = 1 /\ (~Known(ip) \/ Quiet(ip))
      BY <3>1, <2>2, <1>1, <1>3, GrantFirst, AddressType DEF IInv, Known, Quiet
    <3>2. CASE /\ Known(ip) /\ ~Quiet(ip)
               /\ c = visitors[ip].count + 1 /\ visitors[ip].count < Rate
      BY <3>2, <2>2, <1>1, <1>3, GrantNext, AddressType DEF IInv, Known, Quiet
    <3>. QED
      BY <3>1, <3>2
  <2>. QED
    BY <1>3, <2>1, <2>3
<1>. QED
  BY <1>2, <1>3

\* A rejected address has just made Rate requests without a pause.
LEMMA RejectIsFair ==
  ASSUME IInv, NEW ip \in IPs, Known(ip), ~Quiet(ip),
         visitors[ip].count = Rate, Reject(ip)
  PROVE  FairRejection'
<1>. DEFINE l == log[ip]
            n == Len(l)
<1>1. last' = [ip |-> ip, at |-> now, ok |-> FALSE] /\ log' = log
  BY DEF Reject
<1>2. CountsBurst(l, visitors[ip])
  BY DEF IInv, Histories, History, Known
<1>3. /\ n >= Rate
      /\ l[n] = visitors[ip].lastSeen
      /\ \A i \in n - Rate + 1..n - 1 : l[i + 1] - l[i] <= Interval
  BY <1>2, RateAssumption DEF CountsBurst
<1>4. now - l[n] <= Interval
  BY <1>3, AddressType, RateAssumption DEF Quiet, IInv
<1>. QED
  BY <1>1, <1>3, <1>4 DEF FairRejection

\* The initial states satisfy the inductive invariant.
THEOREM InitInv == Init => IInv
<1>. SUFFICES ASSUME Init
              PROVE  IInv
  OBVIOUS
<1>1. TypeOK
  BY RateAssumption, TimeAssumption DEF Init, TypeOK
<1>2. Histories
  <2>1. ASSUME NEW l, l = <<>>
        PROVE  Len(l) = 0 /\ 1..Len(l) = {}
    BY <2>1
  <2>2. Ordered(<<>>, 0) /\ Spread(<<>>)
    BY <2>1 DEF Ordered, Spread
  <2>3. History(<<>>, None, 0)
    BY <2>1, <2>2 DEF History
  <2>. QED
    BY <2>3 DEF Init, Histories
<1>. QED
  BY <1>1, <1>2 DEF Init, FairRejection, IInv

\* Every step preserves it.
THEOREM NextInv == IInv /\ [Next]_vars => IInv'
<1>. SUFFICES ASSUME IInv, [Next]_vars
              PROVE  IInv'
  OBVIOUS
<1>0. TypeOK /\ TypeOK'
  BY TypeStep DEF IInv
<1>1. CASE Tick
  <2>1. Histories'
    <3>. SUFFICES ASSUME NEW ip \in IPs
                  PROVE  History(log[ip], visitors[ip], now + 1)
      BY <1>1 DEF Histories, Tick
    <3>1. now \in Nat /\ now + 1 \in Nat /\ now <= now + 1
      BY <1>0 DEF TypeOK
    <3>. QED
      BY <3>1, <1>0, AddressType, LaterHistory DEF IInv, Histories
  <2>2. FairRejection'
    BY <1>1 DEF Tick, IInv, FairRejection
  <2>. QED
    BY <1>0, <2>1, <2>2 DEF IInv
<1>2. CASE Cleanup
  <2>1. Histories'
    <3>. SUFFICES ASSUME NEW ip \in IPs
                  PROVE  History(log[ip], Forgotten[ip], now)
      BY <1>2 DEF Histories, Cleanup
    <3>1. History(log[ip], visitors[ip], now)
      BY DEF IInv, Histories
    <3>2. CASE Known(ip) /\ Quiet(ip)
      BY <3>1, <3>2, <1>0, AddressType, ForgetHistory DEF Known, Quiet, Forgotten
    <3>3. CASE ~(Known(ip) /\ Quiet(ip))
      BY <3>1, <3>3 DEF Forgotten
    <3>. QED
      BY <3>2, <3>3
  <2>2. FairRejection'
    BY <1>2 DEF Cleanup, IInv, FairRejection
  <2>. QED
    BY <1>0, <2>1, <2>2 DEF IInv
<1>3. ASSUME NEW ip \in IPs, Allow(ip)
      PROVE  IInv'
  <2>1. CASE (~Known(ip) \/ Quiet(ip)) /\ Grant(ip, 1)
    <3>1. Histories'
      BY <2>1, GrantStep, RateAssumption
    <3>2. FairRejection'
      BY <2>1 DEF Grant, FairRejection
    <3>. QED
      BY <1>0, <3>1, <3>2 DEF IInv
  <2>2. CASE /\ Known(ip) /\ ~Quiet(ip) /\ visitors[ip].count < Rate
             /\ Grant(ip, visitors[ip].count + 1)
    <3>1. visitors[ip].count + 1 \in 1..Rate
      BY <2>2, <1>0, AddressType, RateAssumption
    <3>2. Histories'
      BY <2>2, <3>1, GrantStep
    <3>3. FairRejection'
      BY <2>2 DEF Grant, FairRejection
    <3>. QED
      BY <1>0, <3>2, <3>3 DEF IInv
  <2>3. CASE /\ Known(ip) /\ ~Quiet(ip) /\ visitors[ip].count = Rate
             /\ Reject(ip)
    <3>1. FairRejection'
      BY <2>3, RejectIsFair
    <3>2. Histories'
      BY <2>3 DEF Reject, IInv, Histories
    <3>. QED
      BY <1>0, <3>1, <3>2 DEF IInv
  <2>. QED
    BY <1>0, <1>3, <2>1, <2>2, <2>3, AllowCases
<1>4. CASE UNCHANGED vars
  BY <1>4, <1>0 DEF vars, IInv, Histories, FairRejection
<1>. QED
  BY <1>1, <1>2, <1>3, <1>4 DEF Next

-----------------------------------------------------------------------------
(* Theorems.                                                                *)

\* The inductive invariant holds throughout.
THEOREM LimiterInvariance == Spec => []IInv
BY InitInv, NextInv, PTL DEF Spec

\* The limiter's state stays well typed; no count exceeds the rate.
THEOREM LimiterTypes == Spec => []TypeOK
<1>1. IInv => TypeOK
  BY DEF IInv
<1>. QED
  BY <1>1, LimiterInvariance, PTL

\* No interval contains more than Rate allowed requests of an address.
THEOREM NeverTooMany == Spec => []WindowBound
<1>1. IInv => WindowBound
  BY DEF IInv, Histories, History, Spread, WindowBound
<1>. QED
  BY <1>1, LimiterInvariance, PTL

\* Only an address that did not pause is rejected.
THEOREM RejectsOnlyBursts == Spec => []FairRejection
<1>1. IInv => FairRejection
  BY DEF IInv
<1>. QED
  BY <1>1, LimiterInvariance, PTL

-----------------------------------------------------------------------------
(* What the documentation promises.                                         *)

\* A limiter that allows one request per interval does what its documentation
\* says: whoever it rejects was served within the last interval.  With more, the
\* count of an address that asks steadily is never started again
\* (RateLimiter.Allow, middleware/ratelimit.go:104; the run RateLimitSteady).
THEOREM OnePerInterval ==
  ASSUME Rate = 1
  PROVE  Spec => []RejectedAtLimit
<1>1. IInv => RejectedAtLimit
  <2> SUFFICES ASSUME IInv, last # None, ~last.ok
               PROVE  LET n == Len(log[last.ip])
                      IN  n >= 1 /\ last.at - log[last.ip][n - 1 + 1] <= Interval
    BY DEF RejectedAtLimit
  <2>1. last.ip \in IPs
    BY DEF IInv, TypeOK, Answer
  <2>2. Len(log[last.ip]) \in Nat
    BY <2>1 DEF IInv, TypeOK
  <2>. QED
    BY <2>2 DEF IInv, FairRejection
<1>. QED
  BY <1>1, LimiterInvariance, PTL
=============================================================================
