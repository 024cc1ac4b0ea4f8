---------------------------- MODULE AtomicUpload ----------------------------
(***************************************************************************)
(* What the chunked upload promises the rest of the server: a destination  *)
(* changes in one step, from one whole upload to another.  An upload that  *)
(* is offered is published at most once, or withdrawn, and never comes     *)
(* back.  There are no parts, no temporary files and no concurrency.       *)
(***************************************************************************)
CONSTANTS Sessions, Dests, Target, None

VARIABLES
  opened,   \* the uploads that were ever offered
  offered,  \* those that may still be published
  content   \* content[d]: the upload that stands at destination d

vars == <<opened, offered, content>>

-----------------------------------------------------------------------------
Init ==
  /\ opened = {} /\ offered = {}
  /\ content = [d \in Dests |-> None]

Offer(s) ==
  /\ s \notin opened
  /\ opened' = opened \cup {s}
  /\ offered' = offered \cup {s}
  /\ UNCHANGED content

Publish(s) ==
  /\ s \in offered
  /\ content' = [content EXCEPT ![Target[s]] = s]
  /\ offered' = offered \ {s}
  /\ UNCHANGED opened

\* Uploads fail, expire, or die with the server.
Withdraw ==
  /\ \E gone \in SUBSET offered : offered' = offered \ gone
  /\ UNCHANGED <<opened, content>>

Next == Withdraw \/ \E s \in Sessions : Offer(s) \/ Publish(s)

Spec == Init /\ [][Next]_vars
=============================================================================
