------------------------ MODULE ChunkedUploadProofs ------------------------
(***************************************************************************)
(* Proofs about ChunkedUpload, for every set of uploads, destinations,     *)
(* parts and concurrent requests, with any number of failures and crashes. *)
(***************************************************************************)
EXTENDS ChunkedUpload, FiniteSetTheorems, TLAPS

-----------------------------------------------------------------------------
(* What holds whatever the clients do.                                      *)

Assembles(h) == req[h].pc \in AssemblyPcs

\* What a request needs later it has; who assembles a session took it away.
LocalsInv ==
  \A h \in Handlers :
    /\ req[h].pc = "idle" => req[h] = Idle
    /\ req[h].pc # "idle" => req[h].sess \in used
    /\ req[h].pc \in ChunkPcs => req[h].part \in Parts
    /\ Assembles(h) => req[h].sess \notin open

Base == TypeOK /\ LocalsInv /\ OneAssembly

-----------------------------------------------------------------------------
(* What holds if clients send the parts of a file one after the other,      *)
(* files of one destination are not assembled at a time, and no upload      *)
(* takes longer than it may.                                                *)

Careful == SerialChunks /\ ~SharedDest /\ ~ActiveExpiry

\* A session is served by one request, a destination assembled by one, and
\* nobody uses the session that the hourly job is about to remove.
SoloInv ==
  /\ \A g, h \in Handlers :
       req[g].pc # "idle" /\ req[g].sess = req[h].sess => g = h
  /\ \A g, h \in Handlers :
       Assembles(g) /\ Assembles(h) /\ Target[req[g].sess] = Target[req[h].sess]
         => g = h
  /\ janitor # None =>
       janitor \in open /\ \A h \in Handlers : req[h].sess # janitor

\* A session stays open while a part of it is received.
BusyInv == \A h \in Handlers : req[h].pc \in ChunkPcs => req[h].sess \in open

\* A file of a part is being written by the request that created it, or could not
\* be removed, or nobody will ever look at it; who assembles finds no torn one.
FileInv ==
  /\ \A s \in Sessions, i \in Parts :
       /\ file[s][i] # "none" => s \in used
       /\ file[s][i] \notin {"none", "full"} =>
            \/ \E h \in Handlers : req[h].pc = "copy" /\ req[h].sess = s
                                   /\ req[h].part = i
            \/ s \notin open /\ \A h \in Handlers : req[h].sess # s
            \/ <<s, i>> \in stuck
  /\ \A h \in Handlers :
       /\ req[h].pc = "copy" => file[req[h].sess][req[h].part] = h
       /\ req[h].pc = "record" => file[req[h].sess][req[h].part] = "full"
       /\ Assembles(h) =>
            \A i \in Parts : file[req[h].sess][i] \in {"none", "full"}

\* The files of a destination were created by uploads for it, and are two.
NamesInv ==
  /\ \A d \in Dests :
       /\ tmp[d] # None => Target[tmp[d]] = d /\ tmp[d] \in used \ open
       /\ dst[d] # None => Target[dst[d]] = d /\ dst[d] \in used \ open
       /\ dst[d] # None => tmp[d] # dst[d]
  /\ \A h \in Handlers : req[h].pc \in {"check", "mktmp"} =>
       \A d \in Dests : tmp[d] # req[h].sess /\ dst[d] # req[h].sess

\* Whoever assembles writes to the temporary file of the destination, and wrote
\* every part that is not left to do in full.
DraftInv ==
  \A h \in Handlers :
    /\ req[h].pc \in {"mktmp", "list", "assemble"} => chunks[req[h].sess] = Parts
    /\ req[h].pc \in {"list", "assemble", "rename"} =>
         req[h].out # None /\ tmp[Target[req[h].sess]] = req[h].out
    /\ req[h].pc \in {"assemble", "rename"} =>
         \A i \in Parts \ req[h].todo :
           data[req[h].out][i] = <<req[h].sess, "full">>
    /\ req[h].pc = "rename" => req[h].todo = {} /\ chunks[req[h].sess] = {}

CarefulInv == SoloInv /\ BusyInv /\ FileInv /\ NamesInv /\ DraftInv /\ WholeFile

\* Without a failure a part that was received is there until it is assembled.
PartsInv ==
  faults = 0 =>
    \A s \in Sessions : \A i \in chunks[s] :
      \/ file[s][i] = "full"
      \/ \E h \in Handlers :
           /\ req[h].sess = s
           /\ \/ req[h].pc = "copy" /\ req[h].part = i
              \/ req[h].pc = "assemble" /\ i \notin req[h].todo

\* Without a crash each file belongs to somebody who will remove it, or it could
\* not be removed.
LeftInv ==
  crashes = 0 =>
    /\ \A s \in Sessions, i \in Parts : file[s][i] # "none" =>
         \/ i \in chunks[s] /\ (s \in open \/ Serving(s) # {})
         \/ \E h \in Handlers : /\ req[h].sess = s /\ req[h].part = i
                                /\ req[h].pc \in {"copy", "record"}
         \/ <<s, i>> \in stuck
    /\ \A d \in Dests : tmp[d] # None =>
         \/ \E h \in Handlers : /\ req[h].pc \in {"list", "assemble", "rename"}
                                /\ Target[req[h].sess] = d
         \/ d \in stuckTmp

-----------------------------------------------------------------------------
(* Types and locals.                                                        *)

LEMMA IdleTyped == Idle \in Request /\ Idle.pc = "idle" /\ Idle.sess = None
BY PartsAssumption, NoneAssumption DEF Idle, Request

LEMMA BusyTyped ==
  ASSUME TypeOK, LocalsInv, NEW h \in Handlers, req[h].pc # "idle"
  PROVE  /\ req[h].sess \in Sessions /\ req[h].sess \in used
         /\ Target[req[h].sess] \in Dests
         /\ req[h].pc \in ChunkPcs => req[h].part \in Parts
BY TargetAssumption DEF TypeOK, LocalsInv

\* Updates of the locals and of two-dimensional tables keep types.
LEMMA NestedTyped ==
  ASSUME NEW A, NEW B, NEW C, NEW f \in [A -> [B -> C]],
         NEW a, NEW b \in B, NEW c \in C
  PROVE  [f EXCEPT ![a][b] = c] \in [A -> [B -> C]]
OBVIOUS

Marks == {"none", "full"} \cup Handlers

LEMMA FileTyped ==
  ASSUME TypeOK, NEW s \in Sessions, NEW i \in Parts, NEW m \in Marks
  PROVE  [file EXCEPT ![s][i] = m] \in [Sessions -> [Parts -> Marks]]
<1>1. file \in [Sessions -> [Parts -> Marks]]
  BY DEF TypeOK, Marks
<1>. QED
  BY <1>1, NestedTyped

LEMMA DataTyped ==
  ASSUME TypeOK, NEW s, NEW i \in Parts, NEW p \in Piece
  PROVE  [data EXCEPT ![s][i] = p] \in [Sessions -> [Parts -> Piece \cup {None}]]
<1>1. data \in [Sessions -> [Parts -> Piece \cup {None}]]
  BY DEF TypeOK
<1>. QED
  BY <1>1, NestedTyped

LEMMA RequestTyped ==
  ASSUME NEW r \in Request
  PROVE  /\ \A pc \in ChunkPcs \cup AssemblyPcs : [r EXCEPT !.pc = pc] \in Request
         /\ \A s \in SUBSET Parts : [r EXCEPT !.todo = s] \in Request
         /\ \A s \in SUBSET Parts :
              [r EXCEPT !.pc = "assemble", !.todo = s] \in Request
         /\ \A s \in Sessions : [r EXCEPT !.pc = "list", !.out = s] \in Request
         /\ \A s \in Sessions : [r EXCEPT !.pc = "check", !.sess = s] \in Request
         /\ \A s \in Sessions, i \in Parts :
              [r EXCEPT !.pc = "mkdir", !.sess = s, !.part = i] \in Request
<1>1. Parts \subseteq 0..NumParts
  BY PartsAssumption DEF Parts
<1>2. {"mkdir", "check", "list", "assemble"} \subseteq ChunkPcs \cup AssemblyPcs
  BY DEF ChunkPcs, AssemblyPcs
<1>. QED
  BY <1>1, <1>2 DEF Request

LEMMA GotoTyped ==
  ASSUME TypeOK, NEW h \in Handlers
  PROVE  /\ Finish(h) => req' \in [Handlers -> Request]
         /\ \A pc \in ChunkPcs \cup AssemblyPcs :
              Goto(h, pc) => req' \in [Handlers -> Request]
<1>1. \A r \in Request : [req EXCEPT ![h] = r] \in [Handlers -> Request]
  BY DEF TypeOK
<1>2. req[h] \in Request
  BY DEF TypeOK
<1>3. Finish(h) => req' \in [Handlers -> Request]
  BY <1>1, IdleTyped DEF Finish
<1>4. ASSUME NEW pc \in ChunkPcs \cup AssemblyPcs, Goto(h, pc)
      PROVE  req' \in [Handlers -> Request]
  <2>1. [req[h] EXCEPT !.pc = pc] \in Request
    BY <1>2, RequestTyped
  <2>2. req' = [req EXCEPT ![h] = [req[h] EXCEPT !.pc = pc]]
    BY <1>4 DEF Goto
  <2>. QED
    BY <1>1, <2>1, <2>2
<1>. QED
  BY <1>3, <1>4

\* cleanupChunks removes files, and keeps types.
LEMMA CleanupTyped ==
  ASSUME TypeOK, NEW s \in Sessions, Cleanup(s)
  PROVE  /\ chunks' \in [Sessions -> SUBSET Parts]
         /\ file' \in [Sessions -> [Parts -> {"none", "full"} \cup Handlers]]
         /\ dir' \in BOOLEAN
         /\ stuck' \subseteq Sessions \X Parts
<1>1. PICK kept \in SUBSET {i \in chunks[s] : file[s][i] # "none"} :
        /\ file' = [file EXCEPT ![s] =
                      [i \in Parts |-> IF i \in chunks[s] \ kept THEN "none" ELSE @[i]]]
        /\ stuck' = (stuck \ ({s} \X chunks[s])) \cup ({s} \X kept)
        /\ chunks' = [chunks EXCEPT ![s] = {}]
        /\ dir' \in {dir /\ \E t \in Sessions, i \in Parts : file'[t][i] # "none",
                     dir /\ Failing}
  BY DEF Cleanup
<1>2. kept \subseteq Parts
  BY DEF TypeOK
<1>3. chunks' \in [Sessions -> SUBSET Parts]
  BY <1>1 DEF TypeOK
<1>4. file' \in [Sessions -> [Parts -> {"none", "full"} \cup Handlers]]
  BY <1>1 DEF TypeOK
<1>5. dir' \in BOOLEAN
  BY <1>1 DEF TypeOK
<1>6. stuck' \subseteq Sessions \X Parts
  BY <1>1, <1>2 DEF TypeOK
<1>. QED
  BY <1>3, <1>4, <1>5, <1>6

LEMMA FaultTyped ==
  ASSUME TypeOK, UNCHANGED faults \/ Fault
  PROVE  faults' \in 0..MaxFaults
BY BoundsAssumption DEF TypeOK, Fault

LEMMA RemoveTmpTyped ==
  ASSUME TypeOK, NEW d \in Dests, RemoveTmp(d)
  PROVE  /\ tmp' \in [Dests -> Sessions \cup {None}]
         /\ stuckTmp' \subseteq Dests
BY DEF TypeOK, RemoveTmp

LEMMA TypeStep ==
  ASSUME TypeOK, LocalsInv, [Next]_vars
  PROVE  TypeOK'
<1>. USE DEF TypeOK
<1>1. ASSUME NEW s \in Sessions, UploadInit(s)
      PROVE  TypeOK'
  <2>. QED
    BY <1>1 DEF UploadInit, leftovers, bounds
<1>2. ASSUME NEW s \in Sessions, FindExpired(s)
      PROVE  TypeOK'
  <2>. QED
    BY <1>2 DEF FindExpired, leftovers, bounds
<1>3. ASSUME NEW h \in Handlers, UploadChunk(h)
      PROVE  TypeOK'
  <2>1. PICK s \in open, i \in 1..NumParts + 1 : InRange(i) /\
          req' = [req EXCEPT ![h] = [Idle EXCEPT !.pc = "mkdir", !.sess = s, !.part = i]]
    BY <1>3 DEF UploadChunk
  <2>2. [Idle EXCEPT !.pc = "mkdir", !.sess = s, !.part = i] \in Request
    <3>1. s \in Sessions /\ i \in Parts
      BY <2>1, PartsAssumption DEF InRange, Parts
    <3>. QED
      BY <3>1, IdleTyped, RequestTyped
  <2>3. req' \in [Handlers -> Request]
    <3>1. \A r \in Request : [req EXCEPT ![h] = r] \in [Handlers -> Request]
      OBVIOUS
    <3>. QED
      BY <2>1, <2>2, <3>1
  <2>. QED
    BY <1>3, <2>3 DEF UploadChunk, leftovers, bounds
<1>4. ASSUME NEW h \in Handlers, MakeDir(h)
      PROVE  TypeOK'
  <2>1. req' \in [Handlers -> Request]
    BY <1>4, GotoTyped DEF MakeDir, ChunkPcs, AssemblyPcs
  <2>2. faults' \in 0..MaxFaults
    BY <1>4, FaultTyped DEF MakeDir, leftovers, bounds
  <2>. QED
    BY <1>4, <2>1, <2>2 DEF MakeDir, leftovers, bounds
<1>5. ASSUME NEW h \in Handlers, CreateChunk(h)
      PROVE  TypeOK'
  <2>1. req[h].sess \in Sessions /\ req[h].part \in Parts /\ h \in Marks
    BY <1>5, BusyTyped DEF CreateChunk, ChunkPcs, Marks
  <2>2. UNCHANGED file \/ file' = [file EXCEPT ![req[h].sess][req[h].part] = h]
    BY <1>5 DEF CreateChunk
  <2>3. file' \in [Sessions -> [Parts -> Marks]]
    <3>1. [file EXCEPT ![req[h].sess][req[h].part] = h] \in [Sessions -> [Parts -> Marks]]
      BY <2>1, FileTyped
    <3>2. file \in [Sessions -> [Parts -> Marks]]
      BY DEF Marks
    <3>. QED
      BY <2>2, <3>1, <3>2
  <2>4. req' \in [Handlers -> Request]
    BY <1>5, GotoTyped DEF CreateChunk, ChunkPcs
  <2>5. faults' \in 0..MaxFaults
    BY <1>5, FaultTyped DEF CreateChunk
  <2>6. stuck' \subseteq Sessions \X Parts
    BY <1>5 DEF CreateChunk
  <2>. QED
    BY <1>5, <2>3, <2>4, <2>5, <2>6 DEF CreateChunk, Marks
<1>6. ASSUME NEW h \in Handlers, CopyChunk(h)
      PROVE  TypeOK'
  <2>1. req[h].sess \in Sessions /\ req[h].part \in Parts
    BY <1>6, BusyTyped DEF CopyChunk, ChunkPcs
  <2>2. PICK m \in Marks : file' = [file EXCEPT ![req[h].sess][req[h].part] = m]
    <3>1. file[req[h].sess][req[h].part] \in Marks /\ {"none", "full"} \subseteq Marks
      BY <2>1 DEF Marks
    <3>2. CASE file' = [file EXCEPT ![req[h].sess][req[h].part] = "none"]
      BY <3>1, <3>2
    <3>3. CASE file' = [file EXCEPT ![req[h].sess][req[h].part] =
                          IF @ = h THEN "full" ELSE @]
      BY <3>1, <3>3
    <3>4. CASE UNCHANGED file
      BY <2>1, <3>1, <3>4
    <3>. QED
      BY <1>6, <3>2, <3>3, <3>4 DEF CopyChunk
  <2>3. file' \in [Sessions -> [Parts -> Marks]]
    <3>1. [file EXCEPT ![req[h].sess][req[h].part] = m] \in [Sessions -> [Parts -> Marks]]
      BY <2>1, FileTyped
    <3>. QED
      BY <2>2, <3>1
  <2>4. req' \in [Handlers -> Request]
    BY <1>6, GotoTyped DEF CopyChunk, ChunkPcs
  <2>5. faults' \in 0..MaxFaults
    BY <1>6, FaultTyped DEF CopyChunk
  <2>6. stuck' \subseteq Sessions \X Parts
    BY <1>6, <2>1 DEF CopyChunk
  <2>. QED
    BY <1>6, <2>3, <2>4, <2>5, <2>6 DEF CopyChunk, Marks
<1>7. ASSUME NEW h \in Handlers, RecordChunk(h)
      PROVE  TypeOK'
  <2>1. req[h].sess \in Sessions /\ req[h].part \in Parts
    BY <1>7, BusyTyped DEF RecordChunk, ChunkPcs
  <2>2. chunks' \in [Sessions -> SUBSET Parts]
    BY <1>7, <2>1 DEF RecordChunk
  <2>3. req' \in [Handlers -> Request]
    BY <1>7, GotoTyped DEF RecordChunk, ChunkPcs, AssemblyPcs
  <2>. QED
    BY <1>7, <2>1, <2>2, <2>3 DEF RecordChunk, leftovers, bounds
<1>8. ASSUME NEW h \in Handlers, UploadComplete(h)
      PROVE  TypeOK'
  <2>1. PICK s \in open :
          req' = [req EXCEPT ![h] = [Idle EXCEPT !.pc = "check", !.sess = s]]
    BY <1>8 DEF UploadComplete
  <2>2. [Idle EXCEPT !.pc = "check", !.sess = s] \in Request
    <3>1. s \in Sessions
      BY <2>1, PartsAssumption DEF InRange, Parts
    <3>. QED
      BY <3>1, IdleTyped, RequestTyped
  <2>3. req' \in [Handlers -> Request]
    <3>1. \A r \in Request : [req EXCEPT ![h] = r] \in [Handlers -> Request]
      OBVIOUS
    <3>. QED
      BY <2>1, <2>2, <3>1
  <2>. QED
    BY <1>8, <2>3 DEF UploadComplete, LoadAndDelete, leftovers, bounds
<1>9. ASSUME NEW h \in Handlers, CheckParts(h)
      PROVE  TypeOK'
  <2>1. req[h].sess \in Sessions /\ Target[req[h].sess] \in Dests
    BY <1>9, BusyTyped DEF CheckParts
  <2>2. /\ chunks' \in [Sessions -> SUBSET Parts]
       /\ file' \in [Sessions -> [Parts -> {"none", "full"} \cup Handlers]]
       /\ dir' \in BOOLEAN
       /\ stuck' \subseteq Sessions \X Parts
    BY <1>9, <2>1, CleanupTyped DEF CheckParts
  <2>3. req' \in [Handlers -> Request]
    BY <1>9, GotoTyped DEF CheckParts, ChunkPcs, AssemblyPcs
  <2>4. faults' \in 0..MaxFaults
    BY <1>9, FaultTyped DEF CheckParts, MayFail
  <2>. QED
    BY <1>9, <2>1, <2>2, <2>3, <2>4 DEF CheckParts
<1>10. ASSUME NEW h \in Handlers, MakeTmp(h)
      PROVE  TypeOK'
  <2>1. req[h].sess \in Sessions /\ Target[req[h].sess] \in Dests
    BY <1>10, BusyTyped DEF MakeTmp
  <2>2. /\ chunks' \in [Sessions -> SUBSET Parts]
       /\ file' \in [Sessions -> [Parts -> {"none", "full"} \cup Handlers]]
       /\ dir' \in BOOLEAN
       /\ stuck' \subseteq Sessions \X Parts
    BY <1>10, <2>1, CleanupTyped DEF MakeTmp
  <2>3. (IF tmp[Target[req[h].sess]] = None
           THEN req[h].sess ELSE tmp[Target[req[h].sess]]) \in Sessions
    BY <2>1
  <2>4. tmp' \in [Dests -> Sessions \cup {None}]
    <3>1. \/ tmp' = tmp
          \/ \E out \in Sessions :
               tmp' = [tmp EXCEPT ![Target[req[h].sess]] = out]
      BY <1>10, <2>3 DEF MakeTmp
    <3>. QED
      BY <2>1, <3>1
  <2>5. data' \in [Sessions -> [Parts -> Piece \cup {None}]]
    BY <1>10, <2>1, <2>3 DEF MakeTmp
  <2>6. \/ Finish(h)
        \/ \E out \in Sessions :
             req' = [req EXCEPT ![h].pc = "list", ![h].out = out]
    BY <1>10, <2>3 DEF MakeTmp
  <2>7. \A s \in Sessions : [req EXCEPT ![h].pc = "list", ![h].out = s]
                           \in [Handlers -> Request]
    BY RequestTyped
  <2>8. req' \in [Handlers -> Request]
    BY <2>6, <2>7, GotoTyped
  <2>9. faults' \in 0..MaxFaults
    BY <1>10, FaultTyped DEF MakeTmp
  <2>10. stuckTmp' \subseteq Dests
    BY <1>10 DEF MakeTmp
  <2>. QED
    BY <1>10, <2>2, <2>4, <2>5, <2>8, <2>9, <2>10 DEF MakeTmp
<1>11. ASSUME NEW h \in Handlers, ListParts(h)
      PROVE  TypeOK'
  <2>1. req[h].sess \in Sessions /\ Target[req[h].sess] \in Dests
    BY <1>11, BusyTyped DEF ListParts
  <2>2. req' \in [Handlers -> Request]
    BY <1>11, <2>1, RequestTyped DEF ListParts
  <2>. QED
    BY <1>11, <2>1, <2>2 DEF ListParts, leftovers, bounds
<1>12. ASSUME NEW h \in Handlers, AppendPart(h)
      PROVE  TypeOK'
  <2>1. PICK i \in req[h].todo :
          LET s == req[h].sess
          IN  /\ NextPart(h, i)
              /\ data' = [data EXCEPT ![req[h].out][i] =
                            <<s, IF file[s][i] = "full" THEN "full" ELSE "partial">>]
              /\ UNCHANGED file \/ file' = [file EXCEPT ![s][i] = "none"]
              /\ req' = [req EXCEPT ![h].todo = @ \ {i}]
              /\ stuck' \subseteq stuck \cup {<<s, i>>}
              /\ UNCHANGED faults \/ Fault
    BY <1>12 DEF AppendPart
  <2>2. /\ req[h].sess \in Sessions /\ req[h].out \in Sessions \cup {None}
        /\ i \in Parts /\ req[h].todo \ {i} \subseteq Parts
    BY <2>1, BusyTyped DEF NextPart, Request
  <2>3. \A x \in {"full", "partial"} : <<req[h].sess, x>> \in Piece
    BY <2>2 DEF Piece
  <2>4. data' \in [Sessions -> [Parts -> Piece \cup {None}]]
    BY <2>1, <2>2, <2>3
  <2>5. file' \in [Sessions -> [Parts -> {"none", "full"} \cup Handlers]]
    <3>1. [file EXCEPT ![req[h].sess][i] = "none"]
            \in [Sessions -> [Parts -> {"none", "full"} \cup Handlers]]
      BY <2>2, NestedTyped
    <3>2. file \in [Sessions -> [Parts -> {"none", "full"} \cup Handlers]]
      BY DEF TypeOK
    <3>. QED
      BY <2>1, <3>1, <3>2
  <2>6. req' \in [Handlers -> Request]
    BY <2>1, <2>2, RequestTyped
  <2>7. faults' \in 0..MaxFaults
    BY <2>1, FaultTyped
  <2>8. stuck' \subseteq Sessions \X Parts
    BY <2>1, <2>2
  <2>. QED
    BY <1>12, <2>4, <2>5, <2>6, <2>7, <2>8 DEF AppendPart
<1>13. ASSUME NEW h \in Handlers, AppendFails(h)
      PROVE  TypeOK'
  <2>1. PICK i \in req[h].todo :
          /\ NextPart(h, i)
          /\ UNCHANGED faults \/ Fault
          /\ \/ UNCHANGED data
             \/ data' = [data EXCEPT ![req[h].out][i] = <<req[h].sess, "partial">>]
    BY <1>13 DEF AppendFails, MayFail
  <2>2. req[h].sess \in Sessions /\ Target[req[h].sess] \in Dests /\ i \in Parts
    BY <2>1, BusyTyped DEF NextPart, Request
  <2>3. <<req[h].sess, "partial">> \in Piece
    BY <2>2 DEF Piece
  <2>4. data' \in [Sessions -> [Parts -> Piece \cup {None}]]
    <3>1. [data EXCEPT ![req[h].out][i] = <<req[h].sess, "partial">>]
            \in [Sessions -> [Parts -> Piece \cup {None}]]
      BY <2>2, <2>3, DataTyped
    <3>2. data' = data \/ data' = [data EXCEPT ![req[h].out][i] =
                                    <<req[h].sess, "partial">>]
      BY <2>1
    <3>. QED
      BY <3>1, <3>2
  <2>5. tmp' \in [Dests -> Sessions \cup {None}] /\ stuckTmp' \subseteq Dests
    BY <1>13, <2>2, RemoveTmpTyped DEF AppendFails
  <2>6. /\ chunks' \in [Sessions -> SUBSET Parts]
        /\ file' \in [Sessions -> [Parts -> {"none", "full"} \cup Handlers]]
        /\ dir' \in BOOLEAN
        /\ stuck' \subseteq Sessions \X Parts
    BY <1>13, <2>2, CleanupTyped DEF AppendFails
  <2>7. req' \in [Handlers -> Request]
    BY <1>13, GotoTyped DEF AppendFails
  <2>8. faults' \in 0..MaxFaults
    BY <2>1, FaultTyped
  <2>. QED
    BY <1>13, <2>4, <2>5, <2>6, <2>7, <2>8 DEF AppendFails
<1>14. ASSUME NEW h \in Handlers, CloseFile(h)
      PROVE  TypeOK'
  <2>1. req[h].sess \in Sessions /\ Target[req[h].sess] \in Dests
    BY <1>14, BusyTyped DEF CloseFile
  <2>2. /\ chunks' \in [Sessions -> SUBSET Parts]
       /\ file' \in [Sessions -> [Parts -> {"none", "full"} \cup Handlers]]
       /\ dir' \in BOOLEAN
       /\ stuck' \subseteq Sessions \X Parts
    BY <1>14, <2>1, CleanupTyped DEF CloseFile
  <2>3. req' \in [Handlers -> Request]
    BY <1>14, GotoTyped DEF CloseFile, ChunkPcs, AssemblyPcs
  <2>4. faults' \in 0..MaxFaults
    BY <1>14, FaultTyped DEF CloseFile, MayFail
  <2>. QED
    BY <1>14, <2>2, <2>3, <2>4 DEF CloseFile
<1>15. ASSUME NEW h \in Handlers, Rename(h)
      PROVE  TypeOK'
  <2>1. req[h].sess \in Sessions /\ Target[req[h].sess] \in Dests
    BY <1>15, BusyTyped DEF Rename
  <2>2. /\ tmp' \in [Dests -> Sessions \cup {None}]
        /\ stuckTmp' \subseteq Dests
    BY <1>15, <2>1, RemoveTmpTyped DEF Rename
  <2>5. dst' \in [Dests -> Sessions \cup {None}]
    BY <1>15, <2>1 DEF Rename
  <2>3. req' \in [Handlers -> Request]
    BY <1>15, GotoTyped DEF Rename, ChunkPcs, AssemblyPcs
  <2>4. faults' \in 0..MaxFaults
    BY <1>15, FaultTyped DEF Rename
  <2>. QED
    BY <1>15, <2>2, <2>3, <2>4, <2>5 DEF Rename
<1>16. CASE RemoveExpired
  <2>1. janitor \in Sessions
    BY <1>16 DEF RemoveExpired
  <2>2. /\ chunks' \in [Sessions -> SUBSET Parts]
       /\ file' \in [Sessions -> [Parts -> {"none", "full"} \cup Handlers]]
       /\ dir' \in BOOLEAN
       /\ stuck' \subseteq Sessions \X Parts
    BY <1>16, <2>1, CleanupTyped DEF RemoveExpired
  <2>3. faults' \in 0..MaxFaults
    BY <1>16, FaultTyped DEF RemoveExpired, MayFail
  <2>. QED
    BY <1>16, <2>2, <2>3 DEF RemoveExpired
<1>17. CASE Crash
  <2>1. req' \in [Handlers -> Request]
    BY <1>17, IdleTyped DEF Crash
  <2>2. crashes' \in 0..MaxCrashes
    BY <1>17, BoundsAssumption DEF Crash
  <2>. QED
    BY <1>17, <2>1, <2>2 DEF Crash, leftovers
<1>18. CASE UNCHANGED vars
  BY <1>18 DEF vars, leftovers, bounds
<1>. QED
  BY <1>1, <1>2, <1>3, <1>4, <1>5, <1>6, <1>7, <1>8, <1>9, <1>10, <1>11, <1>12,
     <1>13, <1>14, <1>15, <1>16, <1>17, <1>18
     DEF Next, ChunkStep, AssemblyStep

-----------------------------------------------------------------------------
(* What a step does to the locals of the requests.                          *)

Flow ==
  {<<"mkdir", "create">>, <<"create", "copy">>, <<"copy", "record">>,
   <<"check", "mktmp">>, <<"mktmp", "list">>, <<"list", "assemble">>,
   <<"assemble", "assemble">>, <<"assemble", "rename">>}

\* The request goes on, serving the same session.
GoesOn(h) ==
  /\ <<req[h].pc, req'[h].pc>> \in Flow
  /\ req'[h].sess = req[h].sess /\ req'[h].part = req[h].part
  /\ \A g \in Handlers \ {h} : req'[g] = req[g]

Ends(h) ==
  /\ req[h].pc # "idle" /\ req'[h] = Idle
  /\ \A g \in Handlers \ {h} : req'[g] = req[g]

Starts(h, s) ==
  /\ s \in open /\ req[h] = Idle /\ req'[h].sess = s
  /\ \A g \in Handlers \ {h} : req'[g] = req[g]

LEMMA FinishEnds ==
  ASSUME TypeOK, NEW h \in Handlers, req[h].pc # "idle", Finish(h)
  PROVE  Ends(h)
BY DEF TypeOK, Finish, Ends

LEMMA GotoFields ==
  ASSUME TypeOK, NEW h \in Handlers, NEW pc, Goto(h, pc)
  PROVE  /\ req'[h].pc = pc /\ req'[h].sess = req[h].sess
         /\ req'[h].part = req[h].part /\ req'[h].todo = req[h].todo
         /\ req'[h].out = req[h].out
         /\ \A g \in Handlers \ {h} : req'[g] = req[g]
BY DEF TypeOK, Goto, Request

LEMMA GotoGoesOn ==
  ASSUME TypeOK, NEW h \in Handlers, NEW pc, Goto(h, pc), <<req[h].pc, pc>> \in Flow
  PROVE  GoesOn(h)
BY GotoFields DEF GoesOn

LEMMA ChunkStarts ==
  ASSUME TypeOK, NEW h \in Handlers, UploadChunk(h)
  PROVE  \E s \in open :
           /\ Starts(h, s) /\ req'[h].pc = "mkdir" /\ req'[h].part \in Parts
           /\ SerialChunks => Serving(s) = {}
           /\ ActiveExpiry \/ janitor # s
<1>1. PICK s \in open, i \in 1..NumParts + 1 :
        /\ InRange(i)
        /\ SerialChunks => Serving(s) = {}
        /\ ActiveExpiry \/ janitor # s
        /\ req' = [req EXCEPT ![h] = [Idle EXCEPT !.pc = "mkdir", !.sess = s,
                                                  !.part = i]]
  BY DEF UploadChunk
<1>2. i \in Parts
  BY <1>1, PartsAssumption DEF InRange, Parts
<1>3. /\ req'[h].sess = s /\ req'[h].pc = "mkdir" /\ req'[h].part = i
      /\ \A g \in Handlers \ {h} : req'[g] = req[g]
  BY <1>1 DEF TypeOK, Idle
<1>. QED
  BY <1>1, <1>2, <1>3 DEF Starts, UploadChunk

LEMMA CompleteStarts ==
  ASSUME TypeOK, NEW h \in Handlers, UploadComplete(h)
  PROVE  \E s \in open :
           /\ Starts(h, s) /\ req'[h].pc = "check" /\ open' = open \ {s}
           /\ SerialChunks => /\ \A g \in Serving(s) : Assembles(g)
                              /\ \A i \in Parts : <<s, i>> \notin stuck
           /\ SharedDest \/ \A g \in Assembling(Target[s]) : req[g].sess = s
           /\ ActiveExpiry \/ janitor # s
<1>1. PICK s \in open :
        /\ SerialChunks => /\ \A g \in Serving(s) : req[g].pc \in AssemblyPcs
                           /\ \A i \in Parts : <<s, i>> \notin stuck
        /\ SharedDest \/ \A g \in Assembling(Target[s]) : req[g].sess = s
        /\ ActiveExpiry \/ janitor # s
        /\ LoadAndDelete(s)
        /\ req' = [req EXCEPT ![h] = [Idle EXCEPT !.pc = "check", !.sess = s]]
  BY DEF UploadComplete
<1>2. /\ req'[h].sess = s /\ req'[h].pc = "check"
      /\ \A g \in Handlers \ {h} : req'[g] = req[g]
  BY <1>1 DEF TypeOK, Idle
<1>. QED
  BY <1>1, <1>2 DEF Starts, UploadComplete, LoadAndDelete, Assembles

\* The other steps of a request.
LEMMA StepsMove ==
  ASSUME TypeOK, NEW h \in Handlers, ChunkStep(h) \/ AssemblyStep(h),
         ~UploadChunk(h), ~UploadComplete(h)
  PROVE  GoesOn(h) \/ Ends(h)
<1>. USE DEF Flow
<1>1. CASE MakeDir(h)
  BY <1>1, FinishEnds, GotoGoesOn DEF MakeDir
<1>2. CASE CreateChunk(h)
  BY <1>2, FinishEnds, GotoGoesOn DEF CreateChunk
<1>3. CASE CopyChunk(h)
  BY <1>3, FinishEnds, GotoGoesOn DEF CopyChunk
<1>4. CASE RecordChunk(h) \/ Rename(h)
  BY <1>4, FinishEnds DEF RecordChunk, Rename
<1>5. CASE CheckParts(h)
  BY <1>5, FinishEnds, GotoGoesOn DEF CheckParts
<1>6. CASE MakeTmp(h)
  <2>1. Finish(h) \/ \E out : req' = [req EXCEPT ![h].pc = "list", ![h].out = out]
    BY <1>6 DEF MakeTmp
  <2>2. CASE \E out : req' = [req EXCEPT ![h].pc = "list", ![h].out = out]
    BY <1>6, <2>2 DEF MakeTmp, GoesOn, TypeOK, Request
  <2>. QED
    BY <1>6, <2>1, <2>2, FinishEnds DEF MakeTmp
<1>7. CASE ListParts(h)
  BY <1>7 DEF ListParts, GoesOn, TypeOK, Request
<1>8. CASE AppendPart(h)
  <2>1. PICK i : req[h].pc = "assemble" /\ req' = [req EXCEPT ![h].todo = @ \ {i}]
    BY <1>8 DEF AppendPart, NextPart
  <2>. QED
    BY <2>1 DEF GoesOn, TypeOK, Request
<1>9. CASE AppendFails(h)
  BY <1>9, FinishEnds DEF AppendFails, NextPart
<1>10. CASE CloseFile(h)
  BY <1>10, GotoGoesOn DEF CloseFile
<1>. QED
  BY <1>1, <1>2, <1>3, <1>4, <1>5, <1>6, <1>7, <1>8, <1>9, <1>10
     DEF ChunkStep, AssemblyStep

\* A step of a request opens no session, only UploadComplete closes one, and
\* nobody takes an ID back.
LEMMA OpenStep ==
  ASSUME TypeOK, [Next]_vars
  PROVE  /\ used \subseteq used'
         /\ \/ open' \subseteq open
            \/ \E s \in Sessions : UploadInit(s)
         /\ \A h \in Handlers : (ChunkStep(h) \/ AssemblyStep(h)) =>
              UploadComplete(h) \/ UNCHANGED open
         /\ \A h \in Handlers : (ChunkStep(h) \/ AssemblyStep(h)) =>
              UNCHANGED <<used, janitor>>
<1>1. ASSUME NEW h \in Handlers, ChunkStep(h) \/ AssemblyStep(h)
      PROVE  /\ UploadComplete(h) \/ UNCHANGED open
             /\ UNCHANGED <<used, janitor>>
  BY <1>1 DEF ChunkStep, AssemblyStep, UploadChunk, MakeDir, CreateChunk, CopyChunk,
     RecordChunk, UploadComplete, CheckParts, MakeTmp, ListParts, AppendPart,
     AppendFails, CloseFile, Rename
<1>2. ASSUME NEW h \in Handlers, UploadComplete(h)
      PROVE  open' \subseteq open
  BY <1>2 DEF UploadComplete, LoadAndDelete
<1>. QED
  BY <1>1, <1>2 DEF Next, UploadInit, FindExpired, RemoveExpired, Crash, vars

\* The steps of the hourly job, of a new session and of nobody.
LEMMA Cases ==
  ASSUME TypeOK, [Next]_vars
  PROVE  \/ \E h \in Handlers : UploadChunk(h)
         \/ \E h \in Handlers : UploadComplete(h)
         \/ \E h \in Handlers :
              /\ ChunkStep(h) \/ AssemblyStep(h)
              /\ GoesOn(h) \/ Ends(h)
              /\ UNCHANGED <<open, used, janitor>>
         \/ UNCHANGED req
         \/ Crash
<1>1. ASSUME NEW h \in Handlers, ChunkStep(h) \/ AssemblyStep(h),
             ~UploadChunk(h), ~UploadComplete(h)
      PROVE  /\ GoesOn(h) \/ Ends(h)
             /\ UNCHANGED <<open, used, janitor>>
  BY <1>1, StepsMove, OpenStep
<1>2. ASSUME NEW s \in Sessions, UploadInit(s) \/ FindExpired(s)
      PROVE  UNCHANGED req
  BY <1>2 DEF UploadInit, FindExpired
<1>3. CASE RemoveExpired \/ UNCHANGED vars
  BY <1>3 DEF RemoveExpired, vars
<1>. QED
  BY <1>1, <1>2, <1>3 DEF Next

LEMMA LocalsStep ==
  ASSUME TypeOK, LocalsInv, [Next]_vars
  PROVE  LocalsInv'
<1>. USE DEF LocalsInv, Assembles
<1>1. used \subseteq used' /\ \A s \in used : s \notin open => s \notin open'
  BY OpenStep DEF UploadInit
<1>2. ASSUME NEW h \in Handlers, UploadChunk(h)
      PROVE  LocalsInv'
  <2>1. UNCHANGED <<open, used>>
    BY <1>2 DEF UploadChunk
  <2>2. /\ req'[h].pc = "mkdir" /\ req'[h].part \in Parts /\ req'[h].sess \in open
        /\ \A g \in Handlers \ {h} : req'[g] = req[g]
    BY <1>2, ChunkStarts DEF Starts
  <2>. QED
    BY <2>1, <2>2 DEF TypeOK, AssemblyPcs
<1>3. ASSUME NEW h \in Handlers, UploadComplete(h)
      PROVE  LocalsInv'
  <2>1. UNCHANGED used
    BY <1>3 DEF UploadComplete
  <2>2. PICK s \in open : Starts(h, s) /\ req'[h].pc = "check" /\ open' = open \ {s}
    BY <1>3, CompleteStarts
  <2>. QED
    BY <2>1, <2>2 DEF TypeOK, Starts, ChunkPcs
<1>4. ASSUME NEW h \in Handlers, GoesOn(h), UNCHANGED <<open, used>>
      PROVE  LocalsInv'
  BY <1>4 DEF GoesOn, Flow, ChunkPcs, AssemblyPcs
<1>5. ASSUME NEW h \in Handlers, Ends(h), UNCHANGED <<open, used>>
      PROVE  LocalsInv'
  BY <1>5, IdleTyped DEF Ends, ChunkPcs, AssemblyPcs
<1>6. CASE UNCHANGED req
  BY <1>1, <1>6 DEF AssemblyPcs
<1>7. CASE Crash
  BY <1>7, IdleTyped DEF Crash, ChunkPcs, AssemblyPcs
<1>. QED
  BY <1>2, <1>3, <1>4, <1>5, <1>6, <1>7, Cases

LEMMA OneAssemblyStep ==
  ASSUME TypeOK, LocalsInv, OneAssembly, [Next]_vars
  PROVE  OneAssembly'
<1>. USE DEF OneAssembly
<1>1. ASSUME NEW h \in Handlers, UploadChunk(h)
      PROVE  OneAssembly'
  <2>1. req'[h].pc = "mkdir" /\ \A g \in Handlers \ {h} : req'[g] = req[g]
    BY <1>1, ChunkStarts DEF Starts
  <2>. QED
    BY <2>1 DEF AssemblyPcs
<1>2. ASSUME NEW h \in Handlers, UploadComplete(h)
      PROVE  OneAssembly'
  <2>1. PICK s \in open : Starts(h, s)
    BY <1>2, CompleteStarts
  <2>. QED
    BY <2>1 DEF Starts, LocalsInv, Assembles
<1>3. ASSUME NEW h \in Handlers, GoesOn(h)
      PROVE  OneAssembly'
  BY <1>3 DEF GoesOn, Flow, AssemblyPcs
<1>4. ASSUME NEW h \in Handlers, Ends(h)
      PROVE  OneAssembly'
  BY <1>4, IdleTyped DEF Ends, AssemblyPcs
<1>5. CASE UNCHANGED req
  BY <1>5
<1>6. CASE Crash
  BY <1>6, IdleTyped DEF Crash, AssemblyPcs
<1>. QED
  BY <1>1, <1>2, <1>3, <1>4, <1>5, <1>6, Cases

LEMMA BaseInitial == Init => Base
<1>. SUFFICES ASSUME Init PROVE Base
  OBVIOUS
<1>1. TypeOK
  <2>1. file \in [Sessions -> [Parts -> {"none", "full"} \cup Handlers]]
    BY DEF Init
  <2>2. data \in [Sessions -> [Parts -> Piece \cup {None}]]
    BY DEF Init
  <2>3. req \in [Handlers -> Request]
    BY IdleTyped DEF Init
  <2>4. /\ open \subseteq used /\ used \subseteq Sessions
        /\ chunks \in [Sessions -> SUBSET Parts]
        /\ dir \in BOOLEAN
        /\ tmp \in [Dests -> Sessions \cup {None}]
        /\ dst \in [Dests -> Sessions \cup {None}]
        /\ janitor \in Sessions \cup {None}
        /\ stuck \subseteq Sessions \X Parts /\ stuckTmp \subseteq Dests
    BY DEF Init
  <2>5. faults \in 0..MaxFaults /\ crashes \in 0..MaxCrashes
    <3>1. faults = 0 /\ crashes = 0
      BY DEF Init
    <3>. QED
      BY <3>1, BoundsAssumption
  <2>. QED
    BY <2>1, <2>2, <2>3, <2>4, <2>5 DEF TypeOK
<1>2. \A h \in Handlers : req[h] = Idle
  BY DEF Init
<1>3. LocalsInv /\ OneAssembly
  BY <1>2, IdleTyped DEF LocalsInv, OneAssembly, Assembles, ChunkPcs, AssemblyPcs
<1>. QED
  BY <1>1, <1>3 DEF Base

LEMMA BaseHolds == Spec => []Base
<1>1. Base /\ [Next]_vars => Base'
  BY TypeStep, LocalsStep, OneAssemblyStep DEF Base
<1>. QED
  BY <1>1, BaseInitial, PTL DEF Spec

\* The sessions, files and requests of the upload keep their types.
THEOREM UploadTypes == Spec => []TypeOK
<1>1. Base => TypeOK
  BY DEF Base
<1>. QED
  BY <1>1, BaseHolds, PTL

\* A session is assembled once, whatever the clients do, how many parts they
\* repeat and how often they ask (LoadAndDelete, handlers/dict.go:566).
THEOREM AssembledOnce == Spec => []OneAssembly
<1>1. Base => OneAssembly
  BY DEF Base
<1>. QED
  BY <1>1, BaseHolds, PTL

-----------------------------------------------------------------------------
(* Careful clients.                                                         *)

\* Nobody else serves the session that a request serves.
LEMMA SoloStep ==
  ASSUME Careful, Base, SoloInv, [Next]_vars
  PROVE  SoloInv'
<1>. USE DEF SoloInv, Base
<1>1. ASSUME NEW h \in Handlers, UploadChunk(h)
      PROVE  SoloInv'
  <2>1. UNCHANGED <<open, janitor>>
    BY <1>1 DEF UploadChunk
  <2>2. PICK s \in open : /\ Starts(h, s) /\ req'[h].pc = "mkdir"
                          /\ Serving(s) = {} /\ janitor # s
    BY <1>1, ChunkStarts DEF Careful
  <2>3. ~Assembles(h)'
    BY <2>2 DEF Assembles, AssemblyPcs
  <2>. QED
    BY <2>1, <2>2, <2>3 DEF Starts, Serving, Assembles
<1>2. ASSUME NEW h \in Handlers, UploadComplete(h)
      PROVE  SoloInv'
  <2>1. UNCHANGED janitor
    BY <1>2 DEF UploadComplete
  <2>2. PICK s \in open : /\ Starts(h, s) /\ open' = open \ {s}
                          /\ \A g \in Serving(s) : Assembles(g)
                          /\ \A g \in Assembling(Target[s]) : req[g].sess = s
                          /\ janitor # s
    BY <1>2, CompleteStarts DEF Careful
  <2>3. \A g \in Handlers : req[g].sess # s
    BY <2>2 DEF Serving, LocalsInv
  <2>4. \A g \in Handlers : Assembles(g) => Target[req[g].sess] # Target[s]
    BY <2>2, <2>3 DEF Assembling, Assembles
  <2>. QED
    BY <2>1, <2>2, <2>3, <2>4 DEF Starts, Assembles
<1>3. ASSUME NEW h \in Handlers, GoesOn(h), UNCHANGED <<open, janitor>>
      PROVE  SoloInv'
  <2>1. Assembles(h)' => Assembles(h)
    BY <1>3 DEF GoesOn, Flow, Assembles, AssemblyPcs
  <2>2. req[h].pc # "idle" /\ \A g \in Handlers : req'[g].sess = req[g].sess
    BY <1>3 DEF GoesOn, Flow
  <2>. QED
    BY <1>3, <2>1, <2>2 DEF GoesOn, Assembles
<1>4. ASSUME NEW h \in Handlers, Ends(h), UNCHANGED <<open, janitor>>
      PROVE  SoloInv'
  <2>1. \A g \in Handlers : req[g].pc # "idle" => req[g].sess # None
    BY NoneAssumption, BusyTyped
  <2>2. ~Assembles(h)'
    BY <1>4, IdleTyped DEF Ends, Assembles, AssemblyPcs
  <2>3. janitor # None => Idle.sess # janitor
    BY IdleTyped
  <2>. QED
    BY <1>4, <2>1, <2>2, <2>3, IdleTyped DEF Ends, Assembles
<1>5. CASE UNCHANGED req
  <2>1. ASSUME NEW s \in Sessions, UploadInit(s)
        PROVE  UNCHANGED janitor /\ open \subseteq open'
    BY <2>1 DEF UploadInit
  <2>2. ASSUME NEW s \in Sessions, FindExpired(s)
        PROVE  SoloInv'
    BY <1>5, <2>2 DEF FindExpired, Careful, Serving, Assembles
  <2>3. ASSUME NEW h \in Handlers, ChunkStep(h) \/ AssemblyStep(h)
        PROVE  UNCHANGED <<open, janitor>>
    <3>1. ~UploadComplete(h)
      BY <1>5, IdleTyped, CompleteStarts, NoneAssumption DEF Starts, TypeOK
    <3>. QED
      BY <2>3, <3>1, OpenStep
  <2>4. CASE RemoveExpired
    BY <1>5, <2>4 DEF RemoveExpired, Assembles
  <2>5. CASE Crash
    BY <1>5, <2>5 DEF Crash, Assembles
  <2>6. CASE UNCHANGED vars
    BY <2>6 DEF vars, Assembles
  <2>7. CASE UNCHANGED janitor /\ open \subseteq open'
    BY <1>5, <2>7 DEF Assembles
  <2>. QED
    BY <2>1, <2>2, <2>3, <2>4, <2>5, <2>6, <2>7 DEF Next
<1>6. CASE Crash
  BY <1>6, IdleTyped DEF Crash, Assembles, AssemblyPcs
<1>. QED
  BY <1>1, <1>2, <1>3, <1>4, <1>5, <1>6, Cases

\* What cleanupChunks does, session by session: a file of a part the session knows
\* is removed, or that is tried and fails.
LEMMA CleanupEffect ==
  ASSUME TypeOK, NEW s \in Sessions, Cleanup(s)
  PROVE  /\ chunks'[s] = {}
         /\ \A i \in Parts :
              \/ file'[s][i] = "none"
              \/ /\ file'[s][i] = file[s][i]
                 /\ i \in chunks[s] \/ <<s, i>> \in stuck => <<s, i>> \in stuck'
         /\ \A t \in Sessions \ {s} :
              /\ file'[t] = file[t] /\ chunks'[t] = chunks[t]
              /\ \A i \in Parts : <<t, i>> \in stuck => <<t, i>> \in stuck'
<1>1. PICK kept \in SUBSET {i \in chunks[s] : file[s][i] # "none"} :
        /\ file' = [file EXCEPT ![s] =
                      [i \in Parts |-> IF i \in chunks[s] \ kept THEN "none" ELSE @[i]]]
        /\ stuck' = (stuck \ ({s} \X chunks[s])) \cup ({s} \X kept)
        /\ chunks' = [chunks EXCEPT ![s] = {}]
  BY DEF Cleanup
<1>2. chunks'[s] = {} /\ \A t \in Sessions \ {s} : chunks'[t] = chunks[t]
  BY <1>1 DEF TypeOK
<1>3. \A t \in Sessions \ {s} : file'[t] = file[t]
  BY <1>1 DEF TypeOK
<1>4. \A t \in Sessions \ {s}, i \in Parts : <<t, i>> \in stuck => <<t, i>> \in stuck'
  BY <1>1
<1>5. ASSUME NEW i \in Parts
      PROVE  file'[s][i] = IF i \in chunks[s] \ kept THEN "none" ELSE file[s][i]
  BY <1>1 DEF TypeOK
<1>6. ASSUME NEW i \in Parts, i \in kept \/ (i \notin chunks[s] /\ <<s, i>> \in stuck)
      PROVE  <<s, i>> \in stuck'
  BY <1>1, <1>6
<1>. QED
  BY <1>2, <1>3, <1>4, <1>5, <1>6

\* A step of a request is a step of the part it is at.
LEMMA StepsAtPc ==
  ASSUME NEW h \in Handlers
  PROVE  /\ MakeDir(h) => req[h].pc = "mkdir"
         /\ CreateChunk(h) => req[h].pc = "create"
         /\ CopyChunk(h) => req[h].pc = "copy"
         /\ RecordChunk(h) => req[h].pc = "record"
         /\ CheckParts(h) => req[h].pc = "check"
         /\ MakeTmp(h) => req[h].pc = "mktmp"
         /\ ListParts(h) => req[h].pc = "list"
         /\ AppendPart(h) \/ AppendFails(h) \/ CloseFile(h) => req[h].pc = "assemble"
         /\ Rename(h) => req[h].pc = "rename"
BY DEF MakeDir, CreateChunk, CopyChunk, RecordChunk, CheckParts, MakeTmp, ListParts,
   AppendPart, AppendFails, NextPart, CloseFile, Rename

\* The file of a part changes by the request that serves the session, or is
\* removed by the hourly job.
LEMMA FileStep ==
  ASSUME Base, [Next]_vars, NEW s \in Sessions, NEW i \in Parts
  PROVE  \/ file'[s][i] = file[s][i]
         \/ RemoveExpired /\ janitor = s /\ file'[s][i] = "none"
         \/ \E h \in Handlers :
              Assembles(h) /\ AssemblyStep(h) /\ req[h].sess = s /\ file'[s][i] = "none"
         \/ \E h \in Handlers :
              /\ req[h].sess = s /\ req[h].part = i
              /\ \/ CreateChunk(h) /\ file'[s][i] = h /\ req'[h].pc = "copy"
                 \/ CopyChunk(h) /\ file'[s][i] = "none" /\ req'[h] = Idle
                 \/ /\ CopyChunk(h) /\ req'[h].pc = "record"
                    /\ file'[s][i] = IF file[s][i] = h THEN "full" ELSE file[s][i]
<1>. USE DEF Base
<1>1. ASSUME NEW h \in Handlers, CreateChunk(h), file'[s][i] # file[s][i]
      PROVE  /\ req[h].sess = s /\ req[h].part = i
             /\ file'[s][i] = h /\ req'[h].pc = "copy"
  <2>1. /\ file' = [file EXCEPT ![req[h].sess][req[h].part] = h]
        /\ Goto(h, "copy")
    BY <1>1 DEF CreateChunk
  <2>2. req[h].sess = s /\ req[h].part = i /\ file'[s][i] = h
    BY <1>1, <2>1, BusyTyped, StepsAtPc DEF TypeOK, ChunkPcs
  <2>. QED
    BY <2>1, <2>2, GotoFields
<1>2. ASSUME NEW h \in Handlers, CopyChunk(h), file'[s][i] # file[s][i]
      PROVE  /\ req[h].sess = s /\ req[h].part = i
             /\ \/ file'[s][i] = "none" /\ req'[h] = Idle
                \/ /\ req'[h].pc = "record"
                   /\ file'[s][i] = IF file[s][i] = h THEN "full" ELSE file[s][i]
  <2>1. req[h].sess \in Sessions /\ req[h].part \in Parts
    BY <1>2, BusyTyped, StepsAtPc DEF ChunkPcs
  <2>2. CASE /\ file' = [file EXCEPT ![req[h].sess][req[h].part] =
                          IF @ = h THEN "full" ELSE @]
             /\ Goto(h, "record")
    BY <1>2, <2>1, <2>2, GotoFields DEF TypeOK
  <2>3. CASE /\ file' = [file EXCEPT ![req[h].sess][req[h].part] = "none"]
             /\ Finish(h)
    BY <1>2, <2>1, <2>3 DEF TypeOK, Finish
  <2>. QED
    BY <1>2, <2>2, <2>3 DEF CopyChunk
<1>3. ASSUME NEW h \in Handlers, AppendPart(h), file'[s][i] # file[s][i]
      PROVE  req[h].sess = s /\ file'[s][i] = "none"
  <2>1. PICK j \in req[h].todo :
          UNCHANGED file \/ file' = [file EXCEPT ![req[h].sess][j] = "none"]
    BY <1>3 DEF AppendPart
  <2>. QED
    BY <1>3, <2>1 DEF TypeOK
<1>4. ASSUME NEW t \in Sessions, Cleanup(t), file'[s][i] # file[s][i]
      PROVE  t = s /\ file'[s][i] = "none"
  BY <1>4, CleanupEffect DEF TypeOK
<1>5. ASSUME NEW h \in Handlers,
             CheckParts(h) \/ MakeTmp(h) \/ AppendFails(h) \/ CloseFile(h),
             file'[s][i] # file[s][i]
      PROVE  req[h].sess = s /\ file'[s][i] = "none"
  <2>1. req[h].sess \in Sessions
    BY <1>5, BusyTyped, StepsAtPc
  <2>2. Cleanup(req[h].sess)
    BY <1>5 DEF CheckParts, MakeTmp, AppendFails, CloseFile
  <2>. QED
    BY <1>4, <1>5, <2>1, <2>2
<1>6. CASE RemoveExpired
  BY <1>4, <1>6 DEF RemoveExpired, TypeOK
<1>7. ASSUME NEW h \in Handlers,
             UploadChunk(h) \/ MakeDir(h) \/ RecordChunk(h) \/ UploadComplete(h)
               \/ ListParts(h) \/ Rename(h)
      PROVE  UNCHANGED file
  BY <1>7 DEF UploadChunk, MakeDir, RecordChunk, UploadComplete, ListParts, Rename
<1>8. CASE Crash \/ UNCHANGED vars \/ \E t \in Sessions : UploadInit(t) \/ FindExpired(t)
  BY <1>8 DEF Crash, vars, UploadInit, FindExpired
<1>9. \A h \in Handlers :
        CheckParts(h) \/ MakeTmp(h) \/ AppendPart(h) \/ AppendFails(h) \/ CloseFile(h)
          => Assembles(h) /\ AssemblyStep(h)
  BY StepsAtPc DEF Assembles, AssemblyPcs, AssemblyStep
<1>. QED
  BY <1>1, <1>2, <1>3, <1>5, <1>6, <1>7, <1>8, <1>9
     DEF Next, ChunkStep, AssemblyStep

\* The locals of a request change by its own steps, or when the server dies.
LEMMA Acts ==
  ASSUME TypeOK, [Next]_vars, NEW h \in Handlers
  PROVE  \/ req'[h] = req[h]
         \/ UploadChunk(h) \/ UploadComplete(h)
         \/ (ChunkStep(h) \/ AssemblyStep(h)) /\ (GoesOn(h) \/ Ends(h))
         \/ Crash /\ req'[h] = Idle
<1>1. ASSUME NEW g \in Handlers, g # h, UploadChunk(g) \/ UploadComplete(g)
      PROVE  req'[h] = req[h]
  BY <1>1, ChunkStarts, CompleteStarts DEF Starts
<1>2. ASSUME NEW g \in Handlers, g # h, GoesOn(g) \/ Ends(g)
      PROVE  req'[h] = req[h]
  BY <1>2 DEF GoesOn, Ends
<1>3. CASE Crash
  BY <1>3 DEF Crash
<1>. QED
  BY <1>1, <1>2, <1>3, Cases

\* Who copies a part has just created its file, or did so before.
LEMMA CopyStep ==
  ASSUME TypeOK, [Next]_vars, NEW h \in Handlers, req'[h].pc = "copy"
  PROVE  \/ req'[h] = req[h]
         \/ CreateChunk(h) /\ req'[h].sess = req[h].sess /\ req'[h].part = req[h].part
<1>1. ~UploadChunk(h) /\ ~UploadComplete(h)
  BY ChunkStarts, CompleteStarts
<1>2. req'[h] # Idle
  BY IdleTyped
<1>3. ASSUME GoesOn(h), ChunkStep(h) \/ AssemblyStep(h)
      PROVE  CreateChunk(h) /\ req'[h].sess = req[h].sess /\ req'[h].part = req[h].part
  <2>1. req[h].pc = "create"
    BY <1>3 DEF GoesOn, Flow
  <2>. QED
    BY <1>1, <1>3, <2>1, StepsAtPc DEF GoesOn, ChunkStep, AssemblyStep
<1>. QED
  BY <1>1, <1>2, <1>3, Acts DEF Ends

\* Who records a part has just written its file, or did so before.
LEMMA RecordStep ==
  ASSUME TypeOK, [Next]_vars, NEW h \in Handlers, req'[h].pc = "record"
  PROVE  \/ req'[h] = req[h]
         \/ CopyChunk(h) /\ req'[h].sess = req[h].sess /\ req'[h].part = req[h].part
<1>1. ~UploadChunk(h) /\ ~UploadComplete(h)
  BY ChunkStarts, CompleteStarts
<1>2. req'[h] # Idle
  BY IdleTyped
<1>3. ASSUME GoesOn(h), ChunkStep(h) \/ AssemblyStep(h)
      PROVE  CopyChunk(h) /\ req'[h].sess = req[h].sess /\ req'[h].part = req[h].part
  <2>1. req[h].pc = "copy"
    BY <1>3 DEF GoesOn, Flow
  <2>. QED
    BY <1>1, <1>3, <2>1, StepsAtPc DEF GoesOn, ChunkStep, AssemblyStep
<1>. QED
  BY <1>1, <1>2, <1>3, Acts DEF Ends

\* The copy is whole if the file is still the one that was created; the file of one
\* that fails is gone or could not be removed.
LEMMA CopyEffect ==
  ASSUME Base, NEW h \in Handlers, CopyChunk(h)
  PROVE  LET s == req[h].sess
             i == req[h].part
         IN  \/ file'[s][i] = "none" /\ req'[h] = Idle
             \/ <<s, i>> \in stuck' /\ req'[h] = Idle
             \/ /\ req'[h].pc = "record"
                /\ file'[s][i] = IF file[s][i] = h THEN "full" ELSE file[s][i]
<1>. USE DEF Base
<1>1. req[h].sess \in Sessions /\ req[h].part \in Parts
  BY BusyTyped, StepsAtPc DEF ChunkPcs
<1>2. CASE /\ file' = [file EXCEPT ![req[h].sess][req[h].part] =
                        IF @ = h THEN "full" ELSE @]
           /\ Goto(h, "record")
  BY <1>1, <1>2, GotoFields DEF TypeOK
<1>3. CASE /\ file' = [file EXCEPT ![req[h].sess][req[h].part] = "none"]
           /\ Finish(h)
  BY <1>1, <1>3 DEF TypeOK, Finish
<1>4. CASE /\ stuck' = stuck \cup {<<req[h].sess, req[h].part>>}
           /\ Finish(h)
  BY <1>4 DEF TypeOK, Finish
<1>. QED
  BY <1>2, <1>3, <1>4 DEF CopyChunk

LEMMA CreateEffect ==
  ASSUME Base, NEW h \in Handlers, CreateChunk(h), req'[h].pc = "copy"
  PROVE  file'[req[h].sess][req[h].part] = h
<1>1. req[h].sess \in Sessions /\ req[h].part \in Parts
  BY BusyTyped, StepsAtPc DEF ChunkPcs, Base
<1>2. ~Finish(h)
  BY IdleTyped DEF Finish, Base, TypeOK
<1>. QED
  BY <1>1, <1>2 DEF CreateChunk, Base, TypeOK

\* A part whose file could not be removed keeps its mark until somebody removes or
\* creates it.
LEMMA StuckStep ==
  ASSUME Base, [Next]_vars, NEW s \in Sessions, NEW i \in Parts,
         <<s, i>> \in stuck, file'[s][i] # "none"
  PROVE  \/ <<s, i>> \in stuck'
         \/ \E h \in Handlers : /\ CreateChunk(h) /\ req'[h].pc = "copy"
                                /\ req[h].sess = s /\ req[h].part = i
<1>. USE DEF Base
<1>1. ASSUME NEW h \in Handlers, CreateChunk(h), <<s, i>> \notin stuck'
      PROVE  /\ req'[h].pc = "copy" /\ req[h].sess = s /\ req[h].part = i
  <2>1. /\ stuck' = stuck \ {<<req[h].sess, req[h].part>>}
        /\ Goto(h, "copy")
    BY <1>1 DEF CreateChunk
  <2>. QED
    BY <1>1, <2>1, GotoFields
<1>2. ASSUME NEW h \in Handlers, AppendPart(h), <<s, i>> \notin stuck'
      PROVE  FALSE
  <2>1. PICK j \in req[h].todo : /\ stuck' = stuck \ {<<req[h].sess, j>>}
                                 /\ file' = [file EXCEPT ![req[h].sess][j] = "none"]
    BY <1>2 DEF AppendPart
  <2>2. req[h].sess = s /\ j = i
    BY <1>2, <2>1
  <2>. QED
    BY <2>1, <2>2 DEF TypeOK
<1>3. ASSUME NEW t \in Sessions, Cleanup(t)
      PROVE  <<s, i>> \in stuck'
  BY <1>3, CleanupEffect
<1>4. ASSUME NEW h \in Handlers,
             CheckParts(h) \/ MakeTmp(h) \/ AppendFails(h) \/ CloseFile(h)
      PROVE  <<s, i>> \in stuck'
  <2>1. req[h].sess \in Sessions
    BY <1>4, BusyTyped, StepsAtPc
  <2>2. Cleanup(req[h].sess) \/ UNCHANGED stuck
    BY <1>4 DEF CheckParts, MakeTmp, AppendFails, CloseFile
  <2>. QED
    BY <1>3, <2>1, <2>2
<1>5. CASE RemoveExpired
  BY <1>3, <1>5 DEF RemoveExpired, TypeOK
<1>6. ASSUME NEW h \in Handlers, CopyChunk(h)
      PROVE  <<s, i>> \in stuck'
  BY <1>6 DEF CopyChunk
<1>7. ASSUME NEW h \in Handlers,
             UploadChunk(h) \/ MakeDir(h) \/ RecordChunk(h) \/ UploadComplete(h)
               \/ ListParts(h) \/ Rename(h)
      PROVE  UNCHANGED stuck
  BY <1>7 DEF UploadChunk, MakeDir, RecordChunk, UploadComplete, ListParts, Rename,
     leftovers
<1>8. CASE Crash \/ UNCHANGED vars \/ \E t \in Sessions : UploadInit(t) \/ FindExpired(t)
  BY <1>8 DEF Crash, vars, UploadInit, FindExpired, leftovers
<1>. QED
  BY <1>1, <1>2, <1>4, <1>5, <1>6, <1>7, <1>8 DEF Next, ChunkStep, AssemblyStep

\* Nobody else touches the file of a part that a request is writing.
LEMMA FileStaysMine ==
  ASSUME Base, SoloInv, [Next]_vars, NEW h \in Handlers,
         req[h].pc \in {"copy", "record"}, req'[h] = req[h]
  PROVE  file'[req[h].sess][req[h].part] = file[req[h].sess][req[h].part]
<1>. DEFINE s == req[h].sess
            i == req[h].part
<1>1. s \in Sessions /\ i \in Parts
  BY BusyTyped DEF ChunkPcs, Base
<1>2. janitor # s
  BY <1>1, NoneAssumption DEF SoloInv
<1>3. \A g \in Handlers : req[g].sess = s => g = h
  BY DEF SoloInv
<1>4. ~Assembles(h) /\ ~CreateChunk(h)
  BY StepsAtPc DEF Assembles, AssemblyPcs
<1>5. ~(CopyChunk(h) /\ (req'[h] = Idle \/ req'[h].pc = "record"))
  BY StepsAtPc, IdleTyped
<1>. HIDE DEF s, i
<1>. QED
  BY <1>1, <1>2, <1>3, <1>4, <1>5, FileStep DEF s, i

\* A session that is closed and served by nobody stays so.
LEMMA ClosedStays ==
  ASSUME Base, [Next]_vars, NEW s \in used, s \notin open,
         \A h \in Handlers : req[h].sess # s
  PROVE  s \notin open' /\ \A h \in Handlers : req'[h].sess # s
<1>1. s \notin open'
  BY OpenStep DEF UploadInit, Base
<1>2. ASSUME NEW h \in Handlers
      PROVE  req'[h].sess # s
  <2>1. s # None
    BY NoneAssumption DEF Base, TypeOK
  <2>. QED
    BY <2>1, Acts, ChunkStarts, CompleteStarts, IdleTyped DEF Base, Starts,
       GoesOn, Ends
<1>. QED
  BY <1>1, <1>2

LEMMA FileInvStep ==
  ASSUME Careful, Base, SoloInv, FileInv, [Next]_vars
  PROVE  FileInv'
<1>1. ASSUME NEW s \in Sessions, NEW i \in Parts, file'[s][i] # "none"
      PROVE  s \in used'
  <2>1. \/ file[s][i] # "none"
        \/ \E h \in Handlers : (CreateChunk(h) \/ CopyChunk(h)) /\ req[h].sess = s
    BY <1>1, FileStep
  <2>2. s \in used
    BY <2>1, BusyTyped, StepsAtPc DEF FileInv, Base
  <2>. QED
    BY <2>2, OpenStep DEF Base
<1>2. ASSUME NEW h \in Handlers, req'[h].pc = "copy"
      PROVE  file'[req'[h].sess][req'[h].part] = h
  <2>1. CASE req'[h] = req[h]
    BY <1>2, <2>1, FileStaysMine DEF FileInv
  <2>. QED
    BY <1>2, <2>1, CopyStep, CreateEffect DEF Base
<1>3. ASSUME NEW h \in Handlers, req'[h].pc = "record"
      PROVE  file'[req'[h].sess][req'[h].part] = "full"
  <2>1. CASE req'[h] = req[h]
    BY <1>3, <2>1, FileStaysMine DEF FileInv
  <2>2. CASE CopyChunk(h) /\ req'[h].sess = req[h].sess /\ req'[h].part = req[h].part
    <3>1. file[req[h].sess][req[h].part] = h
      BY <2>2, StepsAtPc DEF FileInv
    <3>2. req'[h] # Idle
      BY <1>3, IdleTyped
    <3>. QED
      BY <2>2, <3>1, <3>2, CopyEffect
  <2>. QED
    BY <1>3, <2>1, <2>2, RecordStep DEF Base
<1>4. ASSUME NEW s \in Sessions, NEW i \in Parts, file'[s][i] \notin {"none", "full"}
      PROVE  \/ \E h \in Handlers : req'[h].pc = "copy" /\ req'[h].sess = s
                                    /\ req'[h].part = i
             \/ s \notin open' /\ \A h \in Handlers : req'[h].sess # s
             \/ <<s, i>> \in stuck'
  <2>1. ASSUME NEW h \in Handlers, CreateChunk(h), req'[h].pc = "copy",
               req[h].sess = s, req[h].part = i
        PROVE  req'[h].sess = s /\ req'[h].part = i
    <3>1. req'[h] # req[h]
      BY <2>1, StepsAtPc
    <3>. QED
      BY <2>1, <3>1, CopyStep DEF Base
  <2>2. ASSUME NEW h \in Handlers, CopyChunk(h), req[h].sess = s, req[h].part = i
        PROVE  <<s, i>> \in stuck'
    <3>1. file[s][i] = h
      BY <2>2, StepsAtPc DEF FileInv
    <3>. QED
      BY <1>4, <2>2, <3>1, CopyEffect
  <2>3. CASE /\ file'[s][i] = file[s][i]
             /\ s \notin open /\ \A h \in Handlers : req[h].sess # s
    <3>1. s \in used
      BY <1>4, <2>3 DEF FileInv
    <3>. QED
      BY <2>3, <3>1, ClosedStays
  <2>4. ASSUME NEW h \in Handlers, req[h].pc = "copy", req[h].sess = s, req[h].part = i,
               file'[s][i] = file[s][i]
        PROVE  \/ req'[h] = req[h]
               \/ s \notin open' /\ \A g \in Handlers : req'[g].sess # s
               \/ <<s, i>> \in stuck'
    <3>1. ~UploadChunk(h) /\ ~UploadComplete(h)
      BY <2>4, IdleTyped, ChunkStarts, CompleteStarts DEF Starts, Base
    <3>2. ASSUME ChunkStep(h) \/ AssemblyStep(h)
          PROVE  CopyChunk(h)
      BY <2>4, <3>1, <3>2, StepsAtPc DEF ChunkStep, AssemblyStep
    <3>3. CASE Crash
      BY <3>3, IdleTyped, NoneAssumption DEF Crash
    <3>. QED
      BY <2>2, <2>4, <3>1, <3>2, <3>3, Acts DEF Base
  <2>5. CASE <<s, i>> \in stuck
    BY <1>4, <2>1, <2>5, StuckStep
  <2>6. CASE file'[s][i] = file[s][i]
    BY <1>4, <2>3, <2>4, <2>5, <2>6 DEF FileInv
  <2>. QED
    BY <1>4, <2>1, <2>2, <2>6, FileStep
<1>5. ASSUME NEW h \in Handlers, Assembles(h)', NEW i \in Parts
      PROVE  file'[req'[h].sess][i] \in {"none", "full"}
  <2>1. CASE UploadComplete(h)
    <3>1. PICK s \in open : /\ Starts(h, s)
                            /\ \A g \in Serving(s) : Assembles(g)
                            /\ <<s, i>> \notin stuck
      BY <2>1, CompleteStarts DEF Careful, Base
    <3>2. s \in Sessions /\ \A g \in Handlers : req[g].sess # s
      BY <3>1 DEF Serving, Base, LocalsInv, TypeOK
    <3>3. file[s][i] \in {"none", "full"}
      BY <3>1, <3>2 DEF FileInv
    <3>4. req'[h].sess = s /\ UNCHANGED file
      BY <2>1, <3>1 DEF Starts, UploadComplete
    <3>. QED
      BY <3>3, <3>4
  <2>2. CASE Assembles(h) /\ req'[h].sess = req[h].sess
    <3>1. req[h].sess \in Sessions /\ file[req[h].sess][i] \in {"none", "full"}
      BY <2>2, BusyTyped DEF FileInv, Assembles, AssemblyPcs, Base
    <3>2. ASSUME NEW g \in Handlers, req[g].sess = req[h].sess
          PROVE  ~CreateChunk(g) /\ ~CopyChunk(g)
      <4>1. g = h
        BY <2>2, <3>2 DEF SoloInv, Assembles, AssemblyPcs
      <4>. QED
        BY <2>2, <4>1, StepsAtPc DEF Assembles, AssemblyPcs
    <3>. QED
      BY <2>2, <3>1, <3>2, FileStep
  <2>3. CASE GoesOn(h)
    BY <1>5, <2>2, <2>3 DEF GoesOn, Flow, Assembles, AssemblyPcs
  <2>4. ~UploadChunk(h) /\ req'[h] # Idle
    BY <1>5, ChunkStarts, IdleTyped DEF Assembles, AssemblyPcs, Base
  <2>5. CASE req'[h] = req[h]
    BY <1>5, <2>2, <2>5 DEF Assembles
  <2>. QED
    BY <2>1, <2>3, <2>4, <2>5, Acts DEF Ends, Base
<1>. QED
  BY <1>1, <1>2, <1>3, <1>4, <1>5 DEF FileInv

\* A temporary file appears by MakeTmp and goes with the assembly.
LEMMA TmpStep ==
  ASSUME Base, [Next]_vars, NEW d \in Dests
  PROVE  \/ tmp'[d] = tmp[d]
         \/ \E h \in Handlers :
              /\ MakeTmp(h) /\ Target[req[h].sess] = d /\ req[h].sess \in Sessions
              /\ tmp[d] = None /\ tmp'[d] = req[h].sess /\ req'[h].pc = "list"
         \/ \E h \in Handlers :
              /\ AppendFails(h) \/ Rename(h)
              /\ Target[req[h].sess] = d /\ tmp'[d] = None
<1>. USE DEF Base
<1>1. ASSUME NEW h \in Handlers, MakeTmp(h), tmp'[d] # tmp[d]
      PROVE  /\ Target[req[h].sess] = d /\ req[h].sess \in Sessions
             /\ tmp[d] = None /\ tmp'[d] = req[h].sess /\ req'[h].pc = "list"
  <2>1. req[h].sess \in Sessions /\ Target[req[h].sess] \in Dests
    BY <1>1, BusyTyped, StepsAtPc
  <2>2. \E out : req' = [req EXCEPT ![h].pc = "list", ![h].out = out]
    BY <1>1 DEF MakeTmp
  <2>3. req'[h].pc = "list"
    BY <2>2 DEF TypeOK, Request
  <2>. QED
    BY <1>1, <2>1, <2>3 DEF MakeTmp, TypeOK
<1>2. ASSUME NEW h \in Handlers, AppendFails(h) \/ Rename(h), tmp'[d] # tmp[d]
      PROVE  Target[req[h].sess] = d /\ tmp'[d] = None
  <2>1. UNCHANGED tmp \/ tmp' = [tmp EXCEPT ![Target[req[h].sess]] = None]
    BY <1>2 DEF AppendFails, Rename, RemoveTmp
  <2>. QED
    BY <1>2, <2>1 DEF TypeOK
<1>3. CASE \/ \E s \in Sessions : UploadInit(s) \/ FindExpired(s)
           \/ \E h \in Handlers :
                \/ ChunkStep(h) \/ UploadComplete(h) \/ CheckParts(h) \/ ListParts(h)
                \/ AppendPart(h) \/ CloseFile(h)
           \/ RemoveExpired \/ Crash \/ UNCHANGED vars
  BY <1>3 DEF UploadInit, FindExpired, ChunkStep, UploadChunk, MakeDir, CreateChunk,
     CopyChunk, RecordChunk, UploadComplete, CheckParts, ListParts, AppendPart,
     CloseFile, RemoveExpired, Crash, vars
<1>. QED
  BY <1>1, <1>2, <1>3 DEF Next, AssemblyStep

\* A destination gets the temporary file of the request that renames it.
LEMMA DstStep ==
  ASSUME Base, [Next]_vars, NEW d \in Dests
  PROVE  \/ dst'[d] = dst[d]
         \/ \E h \in Handlers :
              /\ Rename(h) /\ Target[req[h].sess] = d
              /\ tmp[d] # None /\ dst'[d] = tmp[d] /\ tmp'[d] = None
<1>. USE DEF Base
<1>1. ASSUME NEW h \in Handlers, Rename(h), dst'[d] # dst[d]
      PROVE  /\ Target[req[h].sess] = d
             /\ tmp[d] # None /\ dst'[d] = tmp[d] /\ tmp'[d] = None
  BY <1>1 DEF Rename, TypeOK
<1>2. CASE \/ \E s \in Sessions : UploadInit(s) \/ FindExpired(s)
           \/ \E h \in Handlers :
                \/ ChunkStep(h) \/ UploadComplete(h) \/ CheckParts(h) \/ MakeTmp(h)
                \/ ListParts(h) \/ AppendPart(h) \/ AppendFails(h) \/ CloseFile(h)
           \/ RemoveExpired \/ Crash \/ UNCHANGED vars
  BY <1>2 DEF UploadInit, FindExpired, ChunkStep, UploadChunk, MakeDir, CreateChunk,
     CopyChunk, RecordChunk, UploadComplete, CheckParts, MakeTmp, ListParts, AppendPart,
     AppendFails, CloseFile, RemoveExpired, Crash, vars
<1>. QED
  BY <1>1, <1>2 DEF Next, AssemblyStep

\* Only the file that a request assembles is written to.
LEMMA DataStep ==
  ASSUME Base, [Next]_vars, NEW f \in Sessions
  PROVE  \/ data'[f] = data[f]
         \/ \E h \in Handlers :
              /\ MakeTmp(h)
              /\ f = IF tmp[Target[req[h].sess]] = None THEN req[h].sess
                                                       ELSE tmp[Target[req[h].sess]]
         \/ \E h \in Handlers : (AppendPart(h) \/ AppendFails(h)) /\ f = req[h].out
<1>. USE DEF Base
<1>1. ASSUME NEW h \in Handlers, MakeTmp(h), data'[f] # data[f]
      PROVE  f = IF tmp[Target[req[h].sess]] = None THEN req[h].sess
                                                    ELSE tmp[Target[req[h].sess]]
  BY <1>1 DEF MakeTmp, TypeOK
<1>2. ASSUME NEW h \in Handlers, AppendPart(h) \/ AppendFails(h), data'[f] # data[f]
      PROVE  f = req[h].out
  <2>1. UNCHANGED data \/ \E i, p : data' = [data EXCEPT ![req[h].out][i] = p]
    BY <1>2 DEF AppendPart, AppendFails
  <2>. QED
    BY <1>2, <2>1 DEF TypeOK
<1>3. CASE \/ \E s \in Sessions : UploadInit(s) \/ FindExpired(s)
           \/ \E h \in Handlers :
                \/ ChunkStep(h) \/ UploadComplete(h) \/ CheckParts(h) \/ ListParts(h)
                \/ CloseFile(h) \/ Rename(h)
           \/ RemoveExpired \/ Crash \/ UNCHANGED vars
  BY <1>3 DEF UploadInit, FindExpired, ChunkStep, UploadChunk, MakeDir, CreateChunk,
     CopyChunk, RecordChunk, UploadComplete, CheckParts, ListParts, CloseFile, Rename,
     RemoveExpired, Crash, vars
<1>. QED
  BY <1>1, <1>2, <1>3 DEF Next, AssemblyStep

\* The parts of a session change by the request that serves it, or are forgotten.
LEMMA ChunksStep ==
  ASSUME Base, [Next]_vars, NEW s \in Sessions
  PROVE  \/ chunks'[s] = chunks[s]
         \/ RemoveExpired /\ janitor = s /\ chunks'[s] = {}
         \/ Crash /\ chunks'[s] = {}
         \/ \E h \in Handlers :
              /\ RecordChunk(h) /\ req[h].sess = s
              /\ chunks'[s] = chunks[s] \cup {req[h].part}
         \/ \E h \in Handlers :
              /\ Assembles(h) /\ req[h].sess = s /\ chunks'[s] = {}
              /\ req'[h] = Idle \/ CloseFile(h)
<1>. USE DEF Base
<1>1. ASSUME NEW h \in Handlers, RecordChunk(h), chunks'[s] # chunks[s]
      PROVE  req[h].sess = s /\ chunks'[s] = chunks[s] \cup {req[h].part}
  BY <1>1 DEF RecordChunk, TypeOK
<1>2. ASSUME NEW h \in Handlers,
             CheckParts(h) \/ MakeTmp(h) \/ AppendFails(h) \/ CloseFile(h),
             chunks'[s] # chunks[s]
      PROVE  /\ Assembles(h) /\ req[h].sess = s /\ chunks'[s] = {}
             /\ req'[h] = Idle \/ CloseFile(h)
  <2>1. Assembles(h) /\ req[h].sess \in Sessions
    BY <1>2, BusyTyped, StepsAtPc DEF Assembles, AssemblyPcs
  <2>2. Cleanup(req[h].sess) /\ (Finish(h) \/ CloseFile(h))
    BY <1>2 DEF CheckParts, MakeTmp, AppendFails, CloseFile
  <2>3. Finish(h) => req'[h] = Idle
    BY DEF Finish, TypeOK
  <2>. QED
    BY <1>2, <2>1, <2>2, <2>3, CleanupEffect
<1>3. CASE RemoveExpired
  BY <1>3, CleanupEffect DEF RemoveExpired, TypeOK
<1>4. CASE Crash
  BY <1>4 DEF Crash
<1>5. CASE \/ \E t \in Sessions : UploadInit(t) \/ FindExpired(t)
           \/ \E h \in Handlers :
                \/ UploadChunk(h) \/ MakeDir(h) \/ CreateChunk(h) \/ CopyChunk(h)
                \/ UploadComplete(h) \/ ListParts(h) \/ AppendPart(h) \/ Rename(h)
           \/ UNCHANGED vars
  BY <1>5 DEF UploadInit, FindExpired, UploadChunk, MakeDir, CreateChunk,
     CopyChunk, UploadComplete, ListParts, AppendPart, Rename, vars
<1>. QED
  BY <1>1, <1>2, <1>3, <1>4, <1>5 DEF Next, ChunkStep, AssemblyStep

\* A session is closed by the request that takes it, the hourly job or a crash.
LEMMA CloseStep ==
  ASSUME Base, [Next]_vars, NEW s \in open, s \notin open'
  PROVE  \/ RemoveExpired /\ janitor = s
         \/ Crash
         \/ \E h \in Handlers :
              /\ UploadComplete(h) /\ req'[h].sess = s
              /\ SerialChunks => \A g \in Handlers : req[g].sess = s => Assembles(g)
<1>. USE DEF Base
<1>1. ASSUME NEW h \in Handlers, UploadComplete(h)
      PROVE  /\ req'[h].sess = s
             /\ SerialChunks => \A g \in Handlers : req[g].sess = s => Assembles(g)
  BY <1>1, CompleteStarts DEF Starts, Serving
<1>2. ASSUME NEW h \in Handlers, ChunkStep(h) \/ AssemblyStep(h)
      PROVE  UploadComplete(h)
  BY <1>2, OpenStep
<1>3. CASE RemoveExpired
  BY <1>3 DEF RemoveExpired
<1>4. CASE UNCHANGED vars \/ \E t \in Sessions : UploadInit(t) \/ FindExpired(t)
  BY <1>4 DEF vars, UploadInit, FindExpired
<1>. QED
  BY <1>1, <1>2, <1>3, <1>4 DEF Next

LEMMA BusyInvStep ==
  ASSUME Careful, Base, SoloInv, BusyInv, [Next]_vars
  PROVE  BusyInv'
<1>. USE DEF Base
<1>1. SUFFICES ASSUME NEW h \in Handlers, req'[h].pc \in ChunkPcs
               PROVE  req'[h].sess \in open'
  BY DEF BusyInv
<1>2. CASE UploadChunk(h)
  BY <1>2, ChunkStarts DEF Starts, UploadChunk
<1>3. ~UploadComplete(h)
  BY <1>1, CompleteStarts DEF ChunkPcs
<1>4. CASE (ChunkStep(h) \/ AssemblyStep(h)) /\ GoesOn(h)
  BY <1>1, <1>3, <1>4, OpenStep DEF GoesOn, Flow, ChunkPcs, BusyInv
<1>5. ~Ends(h) /\ ~(Crash /\ req'[h] = Idle)
  BY <1>1, IdleTyped DEF Ends, ChunkPcs
<1>6. CASE req'[h] = req[h]
  <2>1. req[h].sess \in open /\ ~Assembles(h) /\ req[h].sess # None
    BY <1>1, <1>6, NoneAssumption DEF BusyInv, Assembles, ChunkPcs, AssemblyPcs,
       TypeOK
  <2>2. janitor # req[h].sess
    BY <2>1 DEF SoloInv
  <2>3. ~Crash
    BY <1>5 DEF Crash
  <2>. QED
    BY <1>6, <2>1, <2>2, <2>3, CloseStep DEF Careful
<1>. QED
  BY <1>2, <1>3, <1>4, <1>5, <1>6, Acts

\* An upload ID that was used and closed is never open again.
LEMMA ClosedForGood ==
  ASSUME Base, [Next]_vars, NEW s \in used, s \notin open
  PROVE  s \in used' /\ s \notin open'
BY OpenStep DEF UploadInit, Base

\* Who is about to create the temporary file has just taken the session, or was
\* serving it already.
LEMMA TakenStep ==
  ASSUME Base, [Next]_vars, NEW h \in Handlers, req'[h].pc \in {"check", "mktmp"}
  PROVE  \/ UploadComplete(h) /\ req'[h].sess \in open
         \/ req[h].pc \in {"check", "mktmp"} /\ req'[h].sess = req[h].sess
<1>. USE DEF Base
<1>1. ~UploadChunk(h)
  BY ChunkStarts
<1>2. req'[h] # Idle
  BY IdleTyped
<1>3. CASE GoesOn(h)
  BY <1>3 DEF GoesOn, Flow
<1>. QED
  BY <1>1, <1>2, <1>3, Acts, CompleteStarts DEF Ends, Starts

LEMMA NamesInvStep ==
  ASSUME Base, NamesInv, [Next]_vars
  PROVE  NamesInv'
<1>1. ASSUME NEW d \in Dests, tmp'[d] # None
      PROVE  Target[tmp'[d]] = d /\ tmp'[d] \in used' \ open'
  <2>1. CASE tmp'[d] = tmp[d]
    BY <1>1, <2>1, ClosedForGood DEF NamesInv
  <2>2. ASSUME NEW h \in Handlers, MakeTmp(h), Target[req[h].sess] = d,
               tmp'[d] = req[h].sess
        PROVE  Target[tmp'[d]] = d /\ tmp'[d] \in used' \ open'
    <3>1. req[h].sess \in used /\ req[h].sess \notin open
      BY <2>2, BusyTyped, StepsAtPc DEF Base, LocalsInv, Assembles, AssemblyPcs
    <3>. QED
      BY <2>2, <3>1, ClosedForGood
  <2>. QED
    BY <1>1, <2>1, <2>2, TmpStep
<1>2. ASSUME NEW d \in Dests, dst'[d] # None
      PROVE  Target[dst'[d]] = d /\ dst'[d] \in used' \ open'
  BY <1>2, DstStep, ClosedForGood DEF NamesInv
<1>3. ASSUME NEW d \in Dests, dst'[d] # None
      PROVE  tmp'[d] # dst'[d]
  <2>1. CASE tmp'[d] = None
    BY <1>3, <2>1
  <2>2. CASE dst'[d] = dst[d]
    BY <1>3, <2>1, <2>2, TmpStep, StepsAtPc DEF NamesInv
  <2>. QED
    BY <2>1, <2>2, DstStep
<1>4. ASSUME NEW h \in Handlers, req'[h].pc \in {"check", "mktmp"}, NEW d \in Dests
      PROVE  tmp'[d] # req'[h].sess /\ dst'[d] # req'[h].sess
  <2>1. CASE UploadComplete(h) /\ req'[h].sess \in open
    <3>1. UNCHANGED <<tmp, dst>> /\ req'[h].sess # None
      BY <2>1, NoneAssumption DEF UploadComplete, Base, TypeOK
    <3>. QED
      BY <2>1, <3>1 DEF NamesInv
  <2>2. CASE req[h].pc \in {"check", "mktmp"} /\ req'[h].sess = req[h].sess
    <3>1. req[h].sess # None
      BY <2>2, BusyTyped, NoneAssumption DEF Base
    <3>2. ASSUME NEW g \in Handlers, MakeTmp(g), req'[g].pc = "list"
          PROVE  req[g].sess # req[h].sess
      <4>1. g # h
        BY <1>4, <3>2
      <4>. QED
        BY <2>2, <3>2, <4>1, StepsAtPc DEF Base, OneAssembly, AssemblyPcs
    <3>3. tmp'[d] # req[h].sess
      BY <2>2, <3>1, <3>2, TmpStep DEF NamesInv
    <3>4. dst'[d] # req[h].sess
      BY <2>2, DstStep DEF NamesInv
    <3>. QED
      BY <2>2, <3>3, <3>4
  <2>. QED
    BY <1>4, <2>1, <2>2, TakenStep
<1>. QED
  BY <1>1, <1>2, <1>3, <1>4 DEF NamesInv

\* A session that has as many parts as the file has has them all.
LEMMA AllParts ==
  ASSUME Base, NEW s \in Sessions, HasAllParts(s)
  PROVE  chunks[s] = Parts
<1>1. chunks[s] \subseteq Parts
  BY DEF Base, TypeOK
<1>2. IsFiniteSet(Parts) /\ Cardinality(Parts) = NumParts
  BY PartsAssumption, FS_Interval DEF Parts
<1>. QED
  BY <1>1, <1>2, FS_Subset DEF HasAllParts

\* How an assembly gets to the temporary file, part by part.
LEMMA DraftStep ==
  ASSUME Base, [Next]_vars, NEW h \in Handlers,
         req'[h].pc \in {"mktmp", "list", "assemble", "rename"}
  PROVE  \/ req'[h] = req[h]
         \/ /\ req'[h].sess = req[h].sess
            /\ \/ CheckParts(h) /\ req'[h].pc = "mktmp"
               \/ MakeTmp(h) /\ req'[h].pc = "list"
               \/ ListParts(h) /\ req'[h].pc = "assemble"
               \/ AppendPart(h) /\ req'[h].pc = "assemble"
               \/ CloseFile(h) /\ req'[h].pc = "rename"
<1>. USE DEF Base
<1>1. ~UploadChunk(h) /\ ~UploadComplete(h)
  BY ChunkStarts, CompleteStarts
<1>2. req'[h] # Idle
  BY IdleTyped
<1>3. ~AppendFails(h) /\ ~Rename(h)
  BY <1>2 DEF AppendFails, Rename, Finish, TypeOK
<1>4. AppendPart(h) => req'[h].pc = "assemble"
  <2>1. ASSUME AppendPart(h)
        PROVE  \E i : req' = [req EXCEPT ![h].todo = @ \ {i}]
    BY <2>1 DEF AppendPart
  <2>. QED
    BY <2>1, StepsAtPc DEF TypeOK, Request
<1>5. CloseFile(h) => req'[h].pc = "rename"
  BY GotoFields DEF CloseFile
<1>6. ASSUME GoesOn(h), ChunkStep(h) \/ AssemblyStep(h)
      PROVE  /\ req'[h].sess = req[h].sess
             /\ \/ CheckParts(h) /\ req'[h].pc = "mktmp"
                \/ MakeTmp(h) /\ req'[h].pc = "list"
                \/ ListParts(h) /\ req'[h].pc = "assemble"
                \/ AppendPart(h) /\ req'[h].pc = "assemble"
                \/ CloseFile(h) /\ req'[h].pc = "rename"
  <2>1. /\ req'[h].sess = req[h].sess
        /\ <<req[h].pc, req'[h].pc>> \in
             {<<"check", "mktmp">>, <<"mktmp", "list">>, <<"list", "assemble">>,
              <<"assemble", "assemble">>, <<"assemble", "rename">>}
    BY <1>6 DEF GoesOn, Flow
  <2>. QED
    BY <1>1, <1>3, <1>4, <1>5, <1>6, <2>1, StepsAtPc DEF ChunkStep, AssemblyStep
<1>. QED
  BY <1>1, <1>2, <1>6, Acts DEF Ends

\* The fields that the steps of an assembly set.
LEMMA MakeTmpFields ==
  ASSUME Base, NEW h \in Handlers, MakeTmp(h), req'[h].pc = "list"
  PROVE  /\ req'[h].out \in Sessions
         /\ tmp'[Target[req[h].sess]] = req'[h].out
         /\ UNCHANGED chunks
<1>. USE DEF Base
<1>1. req[h].sess \in Sessions /\ Target[req[h].sess] \in Dests
  BY BusyTyped, StepsAtPc
<1>2. ~Finish(h)
  BY IdleTyped DEF Finish, TypeOK
<1>3. PICK out \in Sessions :
        /\ tmp' = [tmp EXCEPT ![Target[req[h].sess]] = out]
        /\ req' = [req EXCEPT ![h].pc = "list", ![h].out = out]
        /\ UNCHANGED chunks
  BY <1>1, <1>2 DEF MakeTmp, TypeOK
<1>4. req'[h].out = out
  BY <1>3 DEF TypeOK, Request
<1>. QED
  BY <1>1, <1>3, <1>4 DEF TypeOK

LEMMA ListFields ==
  ASSUME Base, NEW h \in Handlers, ListParts(h)
  PROVE  req'[h].todo = chunks[req[h].sess] /\ req'[h].out = req[h].out
BY DEF ListParts, Base, TypeOK, Request

LEMMA AppendFields ==
  ASSUME Base, NEW h \in Handlers, AppendPart(h)
  PROVE  \E i \in req[h].todo :
           LET s == req[h].sess
           IN  /\ i \in Parts /\ i \in chunks[s] /\ file[s][i] # "none"
               /\ data' = [data EXCEPT ![req[h].out][i] =
                             <<s, IF file[s][i] = "full" THEN "full" ELSE "partial">>]
               /\ req'[h].todo = req[h].todo \ {i} /\ req'[h].out = req[h].out
               /\ req'[h].sess = s
<1>1. PICK i \in req[h].todo :
        LET s == req[h].sess
        IN  /\ CanRead(s, i)
            /\ data' = [data EXCEPT ![req[h].out][i] =
                          <<s, IF file[s][i] = "full" THEN "full" ELSE "partial">>]
            /\ req' = [req EXCEPT ![h].todo = @ \ {i}]
  BY DEF AppendPart
<1>2. i \in Parts
  BY DEF Base, TypeOK, Request
<1>3. /\ req'[h].todo = req[h].todo \ {i} /\ req'[h].out = req[h].out
      /\ req'[h].sess = req[h].sess
  BY <1>1 DEF Base, TypeOK, Request
<1>. QED
  BY <1>1, <1>2, <1>3 DEF CanRead

\* Nobody else changes what a session has received, its temporary file or its
\* contents while it is assembled.
LEMMA MineWhileAssembling ==
  ASSUME Base, SoloInv, NamesInv, DraftInv, [Next]_vars,
         NEW h \in Handlers, req'[h] = req[h]
  PROVE  /\ req[h].pc \in {"mktmp", "list", "assemble", "rename"} =>
              chunks'[req[h].sess] = chunks[req[h].sess]
         /\ req[h].pc \in {"list", "assemble", "rename"} =>
              /\ tmp'[Target[req[h].sess]] = tmp[Target[req[h].sess]]
              /\ data'[req[h].out] = data[req[h].out]
<1>. USE DEF Base
<1>. DEFINE s == req[h].sess
            d == Target[req[h].sess]
<1>1. req[h].pc # "idle" => s \in Sessions /\ d \in Dests /\ janitor # s
  BY BusyTyped, NoneAssumption DEF SoloInv
<1>2. \A g \in Handlers : req[h].pc # "idle" /\ req[g].sess = s => g = h
  BY DEF SoloInv
<1>3. \A g \in Handlers :
        Assembles(h) /\ Assembles(g) /\ Target[req[g].sess] = d => g = h
  BY DEF SoloInv
<1>4. req[h].pc # "idle" => req'[h] # Idle
  BY IdleTyped
<1>5. ~Crash \/ req'[h] = Idle
  BY DEF Crash
<1>6. ASSUME req[h].pc \in {"mktmp", "list", "assemble", "rename"}
      PROVE  chunks'[s] = chunks[s]
  <2>1. ~RecordChunk(h)
    BY <1>6, StepsAtPc
  <2>2. ~CloseFile(h)
    BY StepsAtPc, GotoFields DEF CloseFile
  <2>3. s \in Sessions /\ janitor # s /\ req'[h] # Idle /\ ~Crash
    BY <1>1, <1>4, <1>5, <1>6
  <2>. QED
    BY <1>1, <1>2, <1>4, <1>5, <1>6, <2>1, <2>2, <2>3, ChunksStep
<1>7. (~Rename(h) /\ ~AppendFails(h)) \/ req'[h] = Idle
  BY DEF Rename, AppendFails, Finish, TypeOK
<1>8. ASSUME req[h].pc \in {"list", "assemble", "rename"}
      PROVE  tmp'[d] = tmp[d]
  <2>1. Assembles(h) /\ ~MakeTmp(h)
    BY <1>8, StepsAtPc DEF Assembles, AssemblyPcs
  <2>2. \A g \in Handlers : MakeTmp(g) \/ AppendFails(g) \/ Rename(g) => Assembles(g)
    BY StepsAtPc DEF Assembles, AssemblyPcs
  <2>. QED
    BY <1>1, <1>3, <1>4, <1>7, <1>8, <2>1, <2>2, TmpStep
<1>9. ASSUME req[h].pc \in {"list", "assemble", "rename"}
      PROVE  data'[req[h].out] = data[req[h].out]
  <2>1. Assembles(h) /\ ~MakeTmp(h)
    BY <1>9, StepsAtPc DEF Assembles, AssemblyPcs
  <2>2. req[h].out # None /\ tmp[d] = req[h].out /\ req[h].out \in Sessions
    BY <1>9 DEF DraftInv, TypeOK, Request
  <2>3. Target[req[h].out] = d
    BY <1>1, <1>9, <2>2 DEF NamesInv
  <2>4. ASSUME NEW g \in Handlers, MakeTmp(g),
               req[h].out = IF tmp[Target[req[g].sess]] = None
                              THEN req[g].sess ELSE tmp[Target[req[g].sess]]
        PROVE  FALSE
    <3>1. req[g].pc = "mktmp" /\ Assembles(g) /\ Target[req[g].sess] \in Dests
      BY <2>4, BusyTyped, StepsAtPc DEF Assembles, AssemblyPcs
    <3>2. tmp[d] # req[g].sess
      BY <1>1, <1>9, <3>1 DEF NamesInv
    <3>3. tmp[Target[req[g].sess]] = req[h].out
      BY <2>2, <2>4, <3>2
    <3>4. Target[req[g].sess] = d
      BY <2>2, <2>3, <3>1, <3>3 DEF NamesInv
    <3>. QED
      BY <1>3, <2>1, <2>4, <3>1, <3>4
  <2>5. ASSUME NEW g \in Handlers, AppendPart(g) \/ AppendFails(g), req[h].out = req[g].out
        PROVE  FALSE
    <3>1. req[g].pc = "assemble" /\ Assembles(g) /\ Target[req[g].sess] \in Dests
      BY <2>5, BusyTyped, StepsAtPc DEF Assembles, AssemblyPcs
    <3>2. tmp[Target[req[g].sess]] = req[h].out
      BY <2>5, <3>1 DEF DraftInv
    <3>3. Target[req[g].sess] = d
      BY <2>2, <2>3, <3>1, <3>2 DEF NamesInv
    <3>4. g = h
      BY <1>3, <2>1, <3>1, <3>3
    <3>5. CASE AppendPart(h)
      <4>1. PICK i \in req[h].todo : req'[h].todo = req[h].todo \ {i}
        BY <3>5, AppendFields
      <4>. QED
        BY <4>1
    <3>. QED
      BY <1>4, <1>7, <1>9, <2>5, <3>4, <3>5
  <2>. QED
    BY <2>2, <2>4, <2>5, DataStep
<1>. QED
  BY <1>6, <1>8, <1>9

\* A part that is appended is whole.
LEMMA AppendedWhole ==
  ASSUME FileInv, NEW h \in Handlers, req[h].pc = "assemble",
         NEW i \in Parts, file[req[h].sess][i] # "none"
  PROVE  file[req[h].sess][i] = "full"
BY DEF FileInv, Assembles, AssemblyPcs

LEMMA DraftInvStep ==
  ASSUME Base, SoloInv, FileInv, NamesInv, DraftInv, [Next]_vars
  PROVE  DraftInv'
<1>. USE DEF Base
<1>1. ASSUME NEW h \in Handlers, req'[h].pc \in {"mktmp", "list", "assemble"}
      PROVE  chunks'[req'[h].sess] = Parts
  <2>1. CASE req'[h] = req[h]
    BY <1>1, <2>1, MineWhileAssembling DEF DraftInv
  <2>2. CASE CheckParts(h) /\ req'[h].sess = req[h].sess
    <3>1. ~Finish(h) /\ req[h].sess \in Sessions
      BY <1>1, <2>2, IdleTyped, BusyTyped, StepsAtPc DEF Finish, TypeOK
    <3>2. HasAllParts(req[h].sess) /\ UNCHANGED chunks
      BY <2>2, <3>1 DEF CheckParts
    <3>. QED
      BY <2>2, <3>1, <3>2, AllParts
  <2>3. CASE MakeTmp(h) /\ req'[h].sess = req[h].sess /\ req'[h].pc = "list"
    BY <2>3, MakeTmpFields, StepsAtPc DEF DraftInv
  <2>4. CASE (ListParts(h) \/ AppendPart(h)) /\ req'[h].sess = req[h].sess
    <3>1. UNCHANGED chunks
      BY <2>4 DEF ListParts, AppendPart
    <3>. QED
      BY <2>4, <3>1, StepsAtPc DEF DraftInv
  <2>. QED
    BY <1>1, <2>1, <2>2, <2>3, <2>4, DraftStep
<1>2. ASSUME NEW h \in Handlers, req'[h].pc \in {"list", "assemble", "rename"}
      PROVE  req'[h].out # None /\ tmp'[Target[req'[h].sess]] = req'[h].out
  <2>1. CASE req'[h] = req[h]
    BY <1>2, <2>1, MineWhileAssembling DEF DraftInv
  <2>2. CASE MakeTmp(h) /\ req'[h].sess = req[h].sess /\ req'[h].pc = "list"
    BY <2>2, MakeTmpFields, NoneAssumption
  <2>3. CASE /\ ListParts(h) \/ AppendPart(h) \/ CloseFile(h)
             /\ req'[h].sess = req[h].sess
    <3>1. UNCHANGED tmp
      BY <2>3 DEF ListParts, AppendPart, CloseFile
    <3>2. req'[h].out = req[h].out
      BY <2>3, ListFields, AppendFields, GotoFields DEF CloseFile
    <3>. QED
      BY <2>3, <3>1, <3>2, StepsAtPc DEF DraftInv
  <2>. QED
    BY <1>2, <2>1, <2>2, <2>3, DraftStep
<1>3. ASSUME NEW h \in Handlers, req'[h].pc \in {"assemble", "rename"},
             NEW i \in Parts \ req'[h].todo
      PROVE  data'[req'[h].out][i] = <<req'[h].sess, "full">>
  <2>1. CASE req'[h] = req[h]
    <3>1. data[req[h].out][i] = <<req[h].sess, "full">>
      BY <1>3, <2>1 DEF DraftInv
    <3>2. data'[req[h].out] = data[req[h].out]
      BY <1>3, <2>1, MineWhileAssembling
    <3>. QED
      BY <2>1, <3>1, <3>2
  <2>2. CASE ListParts(h)
    BY <1>3, <2>2, ListFields, StepsAtPc DEF DraftInv
  <2>3. CASE AppendPart(h)
    <3>1. PICK j \in req[h].todo :
            LET s == req[h].sess
            IN  /\ j \in Parts /\ file[s][j] # "none"
                /\ data' = [data EXCEPT ![req[h].out][j] =
                              <<s, IF file[s][j] = "full" THEN "full" ELSE "partial">>]
                /\ req'[h].todo = req[h].todo \ {j} /\ req'[h].out = req[h].out
                /\ req'[h].sess = s
      BY <2>3, AppendFields
    <3>2. file[req[h].sess][j] = "full"
      BY <2>3, <3>1, AppendedWhole, StepsAtPc
    <3>3. req[h].out \in Sessions
      BY <2>3, StepsAtPc DEF DraftInv, TypeOK, Request
    <3>4. i = j \/ data[req[h].out][i] = <<req[h].sess, "full">>
      BY <1>3, <2>3, <3>1, StepsAtPc DEF DraftInv
    <3>. QED
      BY <1>3, <3>1, <3>2, <3>3, <3>4 DEF TypeOK
  <2>4. CASE CloseFile(h)
    <3>1. UNCHANGED data /\ req[h].todo = {}
      BY <2>4 DEF CloseFile
    <3>2. req'[h].out = req[h].out /\ req'[h].sess = req[h].sess
      BY <2>4, GotoFields DEF CloseFile
    <3>. QED
      BY <1>3, <2>4, <3>1, <3>2, StepsAtPc DEF DraftInv
  <2>. QED
    BY <1>3, <2>1, <2>2, <2>3, <2>4, DraftStep
<1>4. ASSUME NEW h \in Handlers, req'[h].pc = "rename"
      PROVE  req'[h].todo = {} /\ chunks'[req'[h].sess] = {}
  <2>1. CASE CloseFile(h)
    <3>1. Cleanup(req[h].sess) /\ req[h].sess \in Sessions
      BY <2>1, BusyTyped, StepsAtPc DEF CloseFile
    <3>. QED
      BY <2>1, <3>1, GotoFields, CleanupEffect DEF CloseFile
  <2>2. CASE req'[h] = req[h]
    BY <1>4, <2>2, MineWhileAssembling DEF DraftInv
  <2>. QED
    BY <1>4, <2>1, <2>2, DraftStep
<1>. QED
  BY <1>1, <1>2, <1>3, <1>4 DEF DraftInv

\* What a rename puts in place is the whole file of one session, and nobody
\* writes to a file that is in place.
LEMMA PlacedIsRead ==
  ASSUME Base, NamesInv, DraftInv, [Next]_vars, NEW d \in Dests, dst[d] # None
  PROVE  data'[dst[d]] = data[dst[d]]
<1>. USE DEF Base
<1>1. dst[d] \in Sessions /\ Target[dst[d]] = d /\ tmp[d] # dst[d]
  BY DEF TypeOK, NamesInv
<1>2. ASSUME NEW h \in Handlers, MakeTmp(h),
             dst[d] = IF tmp[Target[req[h].sess]] = None
                        THEN req[h].sess ELSE tmp[Target[req[h].sess]]
      PROVE  FALSE
  <2>1. req[h].pc = "mktmp" /\ Target[req[h].sess] \in Dests
    BY <1>2, BusyTyped, StepsAtPc
  <2>2. dst[d] # req[h].sess
    BY <2>1 DEF NamesInv
  <2>3. tmp[Target[req[h].sess]] = dst[d]
    BY <1>2, <2>2
  <2>. QED
    BY <1>1, <2>1, <2>3 DEF NamesInv
<1>3. ASSUME NEW h \in Handlers, AppendPart(h) \/ AppendFails(h), dst[d] = req[h].out
      PROVE  FALSE
  <2>1. req[h].pc = "assemble" /\ Target[req[h].sess] \in Dests
    BY <1>3, BusyTyped, StepsAtPc
  <2>2. tmp[Target[req[h].sess]] = dst[d]
    BY <1>3, <2>1 DEF DraftInv
  <2>. QED
    BY <1>1, <2>1, <2>2 DEF NamesInv
<1>. QED
  BY <1>1, <1>2, <1>3, DataStep

LEMMA RenamedIsWhole ==
  ASSUME Base, DraftInv, NEW h \in Handlers, Rename(h)
  PROVE  /\ req[h].sess \in Sessions /\ UNCHANGED data
         /\ LET f == tmp[Target[req[h].sess]]
            IN  f # None /\ \A i \in Parts : data[f][i] = <<req[h].sess, "full">>
BY BusyTyped, StepsAtPc DEF DraftInv, Base, Rename

LEMMA WholeFileStep ==
  ASSUME Base, NamesInv, DraftInv, WholeFile, [Next]_vars
  PROVE  WholeFile'
<1>1. SUFFICES ASSUME NEW d \in Dests, dst'[d] # None
               PROVE  \E s \in Sessions :
                        /\ Target[s] = d
                        /\ \A i \in Parts : data'[dst'[d]][i] = <<s, "full">>
  BY DEF WholeFile
<1>2. CASE dst'[d] = dst[d]
  <2>1. dst[d] # None /\ data'[dst[d]] = data[dst[d]]
    BY <1>1, <1>2, PlacedIsRead
  <2>2. PICK s \in Sessions :
          Target[s] = d /\ \A i \in Parts : data[dst[d]][i] = <<s, "full">>
    BY <2>1 DEF WholeFile
  <2>. QED
    BY <1>2, <2>1, <2>2
<1>3. ASSUME NEW h \in Handlers, Rename(h), Target[req[h].sess] = d, dst'[d] = tmp[d]
      PROVE  \E s \in Sessions :
               /\ Target[s] = d
               /\ \A i \in Parts : data'[dst'[d]][i] = <<s, "full">>
  BY <1>3, RenamedIsWhole
<1>. QED
  BY <1>2, <1>3, DstStep

LEMMA CarefulInitial == Init => CarefulInv
<1>. SUFFICES ASSUME Init PROVE CarefulInv
  OBVIOUS
<1>1. \A h \in Handlers : req[h] = Idle
  BY DEF Init
<1>2. SoloInv
  BY <1>1, IdleTyped DEF Init, SoloInv, Assembles, AssemblyPcs
<1>3. FileInv
  BY <1>1, IdleTyped DEF Init, FileInv, Assembles, AssemblyPcs
<1>4. NamesInv
  BY <1>1, IdleTyped DEF Init, NamesInv
<1>5. DraftInv
  BY <1>1, IdleTyped DEF DraftInv
<1>6. WholeFile
  BY DEF Init, WholeFile
<1>7. BusyInv
  BY <1>1, IdleTyped DEF BusyInv, ChunkPcs
<1>. QED
  BY <1>2, <1>3, <1>4, <1>5, <1>6, <1>7 DEF CarefulInv

LEMMA CarefulHolds == Careful => (Spec => [](Base /\ CarefulInv))
<1>. SUFFICES ASSUME Careful PROVE Spec => [](Base /\ CarefulInv)
  OBVIOUS
<1>1. Init => Base /\ CarefulInv
  BY BaseInitial, CarefulInitial
<1>2. Base /\ CarefulInv /\ [Next]_vars => Base' /\ CarefulInv'
  <2>. SUFFICES ASSUME Base, CarefulInv, [Next]_vars PROVE Base' /\ CarefulInv'
    OBVIOUS
  <2>1. Base'
    BY TypeStep, LocalsStep, OneAssemblyStep DEF Base
  <2>2. SoloInv' /\ BusyInv' /\ FileInv' /\ NamesInv' /\ DraftInv' /\ WholeFile'
    BY SoloStep, BusyInvStep, FileInvStep, NamesInvStep, DraftInvStep,
       WholeFileStep DEF CarefulInv
  <2>. QED
    BY <2>1, <2>2 DEF CarefulInv
<1>. QED
  BY <1>1, <1>2, PTL DEF Spec

\* If files of a destination are not assembled at a time and each client waits
\* for a part before it goes on, as the admin page does, what is put in place is
\* always one whole file, whatever fails ("assembling all chunks",
\* handlers/dict.go:554).
THEOREM FilesAreWhole == Careful => (Spec => []WholeFile)
<1>1. CarefulInv => WholeFile
  BY DEF CarefulInv
<1>. QED
  BY <1>1, CarefulHolds, PTL

-----------------------------------------------------------------------------
(* The files of the parts.                                                  *)

\* Who assembles or receives went on, or it is over.
LEMMA ServesOn ==
  ASSUME Base, [Next]_vars, NEW h \in Handlers, req[h].pc # "idle", req'[h] # req[h]
  PROVE  \/ Crash
         \/ (ChunkStep(h) \/ AssemblyStep(h)) /\ (GoesOn(h) \/ Ends(h))
BY Acts, IdleTyped, ChunkStarts, CompleteStarts DEF Starts, Base

\* A step without a failure does not count one.
LEMMA NoFault ==
  ASSUME Base, [Next]_vars, faults' = 0
  PROVE  faults = 0 /\ ~Fault
<1>1. faults \in Nat
  BY BoundsAssumption DEF Base, TypeOK
<1>2. faults' = faults \/ Fault
  BY DEF Next, ChunkStep, AssemblyStep, UploadInit, FindExpired, UploadChunk,
     MakeDir,
     CreateChunk, CopyChunk, RecordChunk, UploadComplete, CheckParts, MakeTmp, ListParts,
     AppendPart, AppendFails, CloseFile, Rename, RemoveExpired, Crash, MayFail, vars,
     bounds
<1>. QED
  BY <1>1, <1>2 DEF Fault

\* Cleaning up forgets the parts of the session.
LEMMA CleansUp ==
  ASSUME Base, NEW h \in Handlers,
         \/ (CheckParts(h) \/ MakeTmp(h)) /\ Finish(h)
         \/ AppendFails(h) \/ CloseFile(h)
  PROVE  Cleanup(req[h].sess) /\ chunks'[req[h].sess] = {}
<1>. USE DEF Base
<1>1. req[h].sess \in Sessions /\ req[h].pc \in AssemblyPcs
  BY BusyTyped, StepsAtPc DEF AssemblyPcs
<1>2. ASSUME Finish(h)
      PROVE  req'[h].pc = "idle"
  BY <1>2, IdleTyped DEF Finish, TypeOK
<1>3. CASE CheckParts(h) /\ Finish(h)
  <2>1. ~Goto(h, "mktmp")
    BY <1>2, <1>3, GotoFields
  <2>. QED
    BY <1>1, <1>3, <2>1, CleanupEffect DEF CheckParts
<1>4. CASE MakeTmp(h) /\ Finish(h)
  <2>1. ~\E out : req' = [req EXCEPT ![h].pc = "list", ![h].out = out]
    BY <1>2, <1>4 DEF TypeOK, Request
  <2>. QED
    BY <1>1, <1>4, <2>1, CleanupEffect DEF MakeTmp
<1>5. CASE AppendFails(h) \/ CloseFile(h)
  BY <1>1, <1>5, CleanupEffect DEF AppendFails, CloseFile
<1>. QED
  BY <1>3, <1>4, <1>5

\* An assembly that removes a file of a part either appended the part or
\* forgets them all.
LEMMA AssemblyRemoves ==
  ASSUME Base, NEW h \in Handlers, Assembles(h), AssemblyStep(h),
         NEW i \in Parts, file'[req[h].sess][i] # file[req[h].sess][i]
  PROVE  \/ chunks'[req[h].sess] = {}
         \/ /\ req'[h].pc = "assemble" /\ req'[h].sess = req[h].sess
            /\ i \notin req'[h].todo
<1>. USE DEF Base
<1>1. ~UploadComplete(h)
  BY IdleTyped DEF UploadComplete, Assembles, AssemblyPcs
<1>2. ASSUME CheckParts(h) \/ MakeTmp(h) \/ AppendFails(h) \/ CloseFile(h)
      PROVE  chunks'[req[h].sess] = {}
  <2>1. req[h].sess \in Sessions
    BY BusyTyped DEF Assembles, AssemblyPcs
  <2>2. Cleanup(req[h].sess)
    BY <1>2 DEF CheckParts, MakeTmp, AppendFails, CloseFile
  <2>. QED
    BY <2>1, <2>2, CleanupEffect
<1>3. CASE AppendPart(h)
  <2>1. PICK j \in req[h].todo :
          /\ UNCHANGED file \/ file' = [file EXCEPT ![req[h].sess][j] = "none"]
          /\ req' = [req EXCEPT ![h].todo = @ \ {j}]
    BY <1>3 DEF AppendPart
  <2>2. i = j
    BY <2>1 DEF TypeOK
  <2>3. /\ req'[h].pc = req[h].pc /\ req'[h].sess = req[h].sess
        /\ req'[h].todo = req[h].todo \ {j}
    BY <2>1 DEF TypeOK, Request
  <2>. QED
    BY <1>3, <2>2, <2>3, StepsAtPc
<1>4. CASE ListParts(h) \/ Rename(h)
  BY <1>4 DEF ListParts, Rename
<1>. QED
  BY <1>1, <1>2, <1>3, <1>4 DEF AssemblyStep

\* The hourly job forgets the parts of the session it removes.
LEMMA ExpiryForgets ==
  ASSUME Base, RemoveExpired
  PROVE  chunks'[janitor] = {}
BY CleanupEffect DEF RemoveExpired, Base, TypeOK

LEMMA PartsInvStep ==
  ASSUME Base, SoloInv, FileInv, PartsInv, [Next]_vars
  PROVE  PartsInv'
<1>. USE DEF Base
<1>1. SUFFICES ASSUME faults' = 0, NEW s \in Sessions, NEW i \in Parts, i \in chunks'[s]
               PROVE  \/ file'[s][i] = "full"
                      \/ \E h \in Handlers :
                           /\ req'[h].sess = s
                           /\ \/ req'[h].pc = "copy" /\ req'[h].part = i
                              \/ req'[h].pc = "assemble" /\ i \notin req'[h].todo
  <2>1. \A s \in Sessions : chunks'[s] \subseteq Parts
    BY TypeStep DEF TypeOK
  <2>. QED
    BY <2>1 DEF PartsInv
<1>2. faults = 0 /\ ~Fault
  BY <1>1, NoFault
<1>3. ~Crash /\ chunks'[s] # {} /\ ~(RemoveExpired /\ janitor = s)
  BY <1>1, ExpiryForgets DEF Crash
<1>4. ASSUME NEW h \in Handlers, RecordChunk(h), req[h].sess = s, req[h].part = i
      PROVE  file'[s][i] = "full"
  BY <1>4, StepsAtPc DEF RecordChunk, FileInv
<1>5. CASE file[s][i] = "full"
  <2>1. ASSUME NEW h \in Handlers, CopyChunk(h), req'[h] = Idle
        PROVE  FALSE
    <3>1. ~Goto(h, "record")
      BY <2>1, GotoFields, IdleTyped
    <3>. QED
      BY <1>2, <2>1, <3>1 DEF CopyChunk
  <2>2. ASSUME NEW h \in Handlers, Assembles(h), AssemblyStep(h), req[h].sess = s,
               file'[s][i] # file[s][i]
        PROVE  /\ req'[h].pc = "assemble" /\ req'[h].sess = s
               /\ i \notin req'[h].todo
    BY <1>3, <2>2, AssemblyRemoves
  <2>3. ASSUME NEW h \in Handlers, CreateChunk(h), req'[h].pc = "copy",
               req[h].sess = s, req[h].part = i
        PROVE  req'[h].sess = s /\ req'[h].part = i
    BY <2>3, CopyStep, StepsAtPc
  <2>4. ASSUME NEW h \in Handlers, CopyChunk(h),
               file'[s][i] = IF file[s][i] = h THEN "full" ELSE file[s][i]
        PROVE  file'[s][i] = "full"
    BY <1>5, <2>4
  <2>5. CASE file'[s][i] = file[s][i]
    BY <1>5, <2>5
  <2>. QED
    BY <1>3, <2>1, <2>2, <2>3, <2>4, <2>5, FileStep
<1>6. ASSUME NEW h \in Handlers, req[h].sess = s, req[h].pc = "copy", req[h].part = i
      PROVE  \/ file'[s][i] = "full"
             \/ /\ req'[h].sess = s /\ req'[h].pc = "copy" /\ req'[h].part = i
  <2>1. CASE req'[h] = req[h]
    BY <1>6, <2>1
  <2>2. CASE ChunkStep(h) \/ AssemblyStep(h)
    <3>1. CopyChunk(h)
      BY <1>6, <2>2, StepsAtPc, IdleTyped
         DEF ChunkStep, AssemblyStep, UploadChunk, UploadComplete
    <3>2. file[s][i] = h
      BY <1>6 DEF FileInv
    <3>3. Goto(h, "record")
      BY <1>2, <3>1 DEF CopyChunk
    <3>4. req'[h].pc = "record"
      BY <3>3, GotoFields
    <3>. QED
      BY <1>6, <3>1, <3>2, <3>4, CopyEffect, IdleTyped
  <2>. QED
    BY <1>3, <1>6, <2>1, <2>2, ServesOn
<1>7. ASSUME NEW h \in Handlers, req[h].sess = s, req[h].pc = "assemble",
             i \notin req[h].todo
      PROVE  /\ req'[h].sess = s /\ req'[h].pc = "assemble"
             /\ i \notin req'[h].todo
  <2>1. CASE req'[h] = req[h]
    BY <1>7, <2>1
  <2>2. CASE ChunkStep(h) \/ AssemblyStep(h)
    <3>1. AppendPart(h)
      BY <1>3, <1>7, <2>2, StepsAtPc, IdleTyped, CleansUp
         DEF ChunkStep, AssemblyStep, UploadChunk, UploadComplete
    <3>2. PICK j : req' = [req EXCEPT ![h].todo = @ \ {j}]
      BY <3>1 DEF AppendPart
    <3>. QED
      BY <1>7, <3>2 DEF TypeOK, Request
  <2>. QED
    BY <1>3, <1>7, <2>1, <2>2, ServesOn
<1>8. CASE i \in chunks[s]
  BY <1>2, <1>5, <1>6, <1>7, <1>8 DEF PartsInv
<1>9. CASE i \notin chunks[s]
  BY <1>1, <1>3, <1>4, <1>9, ChunksStep
<1>. QED
  BY <1>8, <1>9

\* Of careful clients nobody loses a part while the file is assembled, whatever
\* the others remove from the directory they share.
THEOREM PartsAreThere == Careful => (Spec => []PartsStay)
<1>. SUFFICES ASSUME Careful PROVE Spec => []PartsStay
  OBVIOUS
<1>1. Init => PartsInv
  BY DEF Init, PartsInv
<1>2. Base /\ CarefulInv /\ PartsInv /\ [Next]_vars => PartsInv'
  BY PartsInvStep DEF CarefulInv
<1>3. Base /\ CarefulInv /\ PartsInv => PartsStay
  <2>. SUFFICES ASSUME Base, CarefulInv, PartsInv, faults = 0,
                       NEW h \in Handlers, req[h].pc = "assemble",
                       NEW i \in req[h].todo
                PROVE  file[req[h].sess][i] = "full"
    BY DEF PartsStay
  <2>1. i \in chunks[req[h].sess]
    BY DEF Base, TypeOK, Request, CarefulInv, DraftInv
  <2>2. req[h].sess \in Sessions
    BY BusyTyped DEF Base
  <2>3. \A g \in Handlers : req[g].sess = req[h].sess => g = h
    BY DEF CarefulInv, SoloInv
  <2>. QED
    BY <2>1, <2>2, <2>3 DEF PartsInv
<1>. QED
  BY <1>1, <1>2, <1>3, CarefulHolds, PTL DEF Spec

\* A step without a crash does not count one.
LEMMA NoCrash ==
  ASSUME Base, [Next]_vars, crashes' = 0
  PROVE  crashes = 0 /\ ~Crash
<1>1. crashes' = crashes \/ Crash
  BY DEF Next, ChunkStep, AssemblyStep, UploadInit, FindExpired, UploadChunk,
     MakeDir,
     CreateChunk, CopyChunk, RecordChunk, UploadComplete, CheckParts, MakeTmp,
     ListParts, AppendPart, AppendFails, CloseFile, Rename, RemoveExpired, vars, bounds
<1>2. crashes \in Nat
  BY BoundsAssumption DEF Base, TypeOK
<1>. QED
  BY <1>1, <1>2 DEF Crash

\* A session with parts is open or served, until its parts are removed.
LEMMA HeldStep ==
  ASSUME Careful, Base, SoloInv, BusyInv, DraftInv, [Next]_vars, ~Crash,
         NEW s \in Sessions, chunks[s] # {}, chunks'[s] # {},
         s \in open \/ Serving(s) # {}
  PROVE  s \in open' \/ Serving(s)' # {}
<1>. USE DEF Base
<1>1. ~(RemoveExpired /\ janitor = s)
  BY ExpiryForgets
<1>2. CASE s \in open /\ s \notin open'
  BY <1>1, <1>2, CloseStep DEF Serving
<1>3. ASSUME NEW h \in Handlers, req[h].sess = s, s \notin open
      PROVE  req'[h].sess = s
  <2>1. req[h].pc \in AssemblyPcs
    BY <1>3, IdleTyped, NoneAssumption DEF BusyInv, LocalsInv, TypeOK, Request
  <2>2. CASE req'[h] = req[h]
    BY <1>3, <2>2
  <2>3. ~UploadComplete(h)
    BY <2>1, IdleTyped DEF UploadComplete, AssemblyPcs
  <2>4. ~Rename(h)
    BY <1>3, StepsAtPc DEF DraftInv
  <2>5. ASSUME AssemblyStep(h), ~GoesOn(h)
        PROVE  FALSE
    <3>1. Ends(h)
      BY <2>1, <2>3, <2>5, StepsMove, IdleTyped DEF AssemblyPcs, UploadChunk
    <3>2. \/ Finish(h) \/ ListParts(h) \/ AppendPart(h) \/ CloseFile(h)
          \/ CheckParts(h) /\ Goto(h, "mktmp")
          \/ /\ MakeTmp(h)
             /\ \E out : req' = [req EXCEPT ![h].pc = "list", ![h].out = out]
      BY <2>3, <2>4, <2>5 DEF AssemblyStep, CheckParts, MakeTmp, AppendFails
    <3>3. req'[h].pc = "idle"
      BY <3>1, IdleTyped DEF Ends
    <3>4. ~ListParts(h) /\ ~AppendPart(h)
      <4>1. ListParts(h) => req'[h].pc = "assemble"
        BY DEF ListParts, TypeOK, Request
      <4>2. AppendPart(h) => req'[h].pc = req[h].pc
        <5>1. AppendPart(h) => \E j : req' = [req EXCEPT ![h].todo = @ \ {j}]
          BY DEF AppendPart
        <5>. QED
          BY <5>1 DEF TypeOK, Request
      <4>. QED
        BY <2>1, <3>3, <4>1, <4>2 DEF AssemblyPcs
    <3>5. ~CloseFile(h)
      BY <1>3, CleansUp
    <3>6. ~Goto(h, "mktmp")
      BY <3>3, GotoFields
    <3>7. ~\E out : req' = [req EXCEPT ![h].pc = "list", ![h].out = out]
      BY <3>3 DEF TypeOK, Request
    <3>8. CASE Finish(h)
      BY <1>3, <2>3, <2>4, <2>5, <3>4, <3>5, <3>8, CleansUp DEF AssemblyStep
    <3>. QED
      BY <3>2, <3>4, <3>5, <3>6, <3>7, <3>8
  <2>6. ~ChunkStep(h)
    BY <2>1, StepsAtPc, IdleTyped DEF ChunkStep, UploadChunk, AssemblyPcs
  <2>. QED
    BY <1>3, <2>1, <2>2, <2>5, <2>6, IdleTyped, ServesOn DEF GoesOn, AssemblyPcs
<1>. QED
  BY <1>2, <1>3 DEF Serving

\* A part whose file is there is still received, or known, or could not be removed.
LEMMA FileHeldStep ==
  ASSUME Careful, Base, CarefulInv, LeftInv, [Next]_vars, crashes' = 0,
         NEW s \in Sessions, NEW i \in Parts, file'[s][i] # "none"
  PROVE  \/ i \in chunks'[s] /\ (s \in open' \/ Serving(s)' # {})
         \/ \E h \in Handlers : /\ req'[h].sess = s /\ req'[h].part = i
                                /\ req'[h].pc \in {"copy", "record"}
         \/ <<s, i>> \in stuck'
<1>. USE DEF Base, CarefulInv
<1>1. crashes = 0 /\ ~Crash
  BY NoCrash
<1>2. ASSUME NEW h \in Handlers, CreateChunk(h), req'[h].pc = "copy",
             req[h].sess = s, req[h].part = i
      PROVE  req'[h].sess = s /\ req'[h].part = i
  BY <1>2, CopyStep, StepsAtPc
<1>3. ASSUME NEW h \in Handlers, CopyChunk(h), req'[h].pc = "record",
             req[h].sess = s, req[h].part = i
      PROVE  req'[h].sess = s /\ req'[h].part = i
  BY <1>3, RecordStep, StepsAtPc
<1>4. CASE /\ file'[s][i] = file[s][i] /\ i \in chunks[s] /\ <<s, i>> \notin stuck'
           /\ s \in open \/ Serving(s) # {}
  <2>1. i \in chunks'[s]
    <3>1. ~Cleanup(s)
      BY <1>4, CleanupEffect
    <3>2. ~(RemoveExpired /\ janitor = s)
      BY <3>1 DEF RemoveExpired
    <3>3. ASSUME NEW h \in Handlers, Assembles(h), req[h].sess = s,
                 req'[h] = Idle \/ CloseFile(h), chunks'[s] = {}
          PROVE  FALSE
      <4>1. UNCHANGED chunks \/ Cleanup(s) \/ ~AssemblyStep(h)
        BY <3>3, IdleTyped DEF AssemblyStep, UploadComplete, CheckParts,
           MakeTmp, ListParts,
           AppendPart, AppendFails, CloseFile, Rename, Assembles, AssemblyPcs
      <4>2. ~ChunkStep(h)
        BY <3>3, StepsAtPc, IdleTyped DEF ChunkStep, UploadChunk, Assembles,
           AssemblyPcs
      <4>3. req'[h] # req[h]
        <5>1. CloseFile(h) => req'[h].pc = "rename" /\ req[h].pc = "assemble"
          BY GotoFields DEF CloseFile
        <5>. QED
          BY <3>3, <5>1, IdleTyped DEF Assembles, AssemblyPcs
      <4>4. AssemblyStep(h)
        BY <1>1, <3>3, <4>2, <4>3, ServesOn DEF Assembles, AssemblyPcs
      <4>. QED
        BY <1>4, <3>1, <3>3, <4>1, <4>4
    <3>. QED
      BY <1>1, <1>4, <3>2, <3>3, ChunksStep
  <2>. QED
    BY <1>1, <1>4, <2>1, HeldStep
<1>5. ASSUME NEW h \in Handlers, req[h].sess = s, req[h].part = i,
             req[h].pc \in {"copy", "record"}
      PROVE  \/ i \in chunks'[s] /\ s \in open'
             \/ /\ req'[h].sess = s /\ req'[h].part = i
                /\ req'[h].pc \in {"copy", "record"}
             \/ <<s, i>> \in stuck'
  <2>1. CASE req'[h] = req[h]
    BY <1>5, <2>1
  <2>2. CASE ChunkStep(h) \/ AssemblyStep(h)
    <3>1. CopyChunk(h) \/ RecordChunk(h)
      BY <1>5, <2>2, StepsAtPc, IdleTyped
         DEF ChunkStep, AssemblyStep, UploadChunk, UploadComplete
    <3>2. CASE CopyChunk(h)
      BY <1>3, <1>5, <3>2, CopyEffect
    <3>3. CASE RecordChunk(h)
      BY <1>5, <3>3 DEF RecordChunk, BusyInv, ChunkPcs, TypeOK
    <3>. QED
      BY <3>1, <3>2, <3>3
  <2>. QED
    BY <1>1, <1>5, <2>1, <2>2, ServesOn
<1>6. CASE <<s, i>> \in stuck
  BY <1>2, <1>6, StuckStep
<1>7. CASE file'[s][i] = file[s][i]
  BY <1>1, <1>4, <1>5, <1>6, <1>7 DEF LeftInv
<1>. QED
  BY <1>2, <1>3, <1>7, FileStep

\* A temporary file that could not be removed keeps its mark until it is truncated,
\* and an assembly that ends and leaves its own gets one.
LEMMA StuckTmpStep ==
  ASSUME Base, [Next]_vars, NEW d \in Dests, tmp'[d] # None
  PROVE  /\ d \in stuckTmp =>
              \/ d \in stuckTmp'
              \/ \E h \in Handlers : /\ MakeTmp(h) /\ Target[req[h].sess] = d
                                     /\ req'[h].pc = "list"
         /\ \A h \in Handlers :
              (AppendFails(h) \/ Rename(h)) /\ Target[req[h].sess] = d => d \in stuckTmp'
<1>. USE DEF Base
<1>1. ASSUME NEW h \in Handlers, MakeTmp(h), d \in stuckTmp, d \notin stuckTmp'
      PROVE  Target[req[h].sess] = d /\ req'[h].pc = "list"
  <2>1. /\ stuckTmp' = stuckTmp \ {Target[req[h].sess]}
        /\ \E out : req' = [req EXCEPT ![h].pc = "list", ![h].out = out]
    BY <1>1 DEF MakeTmp
  <2>. QED
    BY <1>1, <2>1 DEF TypeOK, Request
<1>2. ASSUME NEW h \in Handlers, AppendFails(h) \/ Rename(h)
      PROVE  /\ d \in stuckTmp => d \in stuckTmp'
             /\ Target[req[h].sess] = d => d \in stuckTmp'
  <2>1. \/ RemoveTmp(Target[req[h].sess])
        \/ /\ tmp' = [tmp EXCEPT ![Target[req[h].sess]] = None]
           /\ UNCHANGED stuckTmp
    BY <1>2 DEF AppendFails, Rename
  <2>. QED
    BY <2>1 DEF RemoveTmp, TypeOK
<1>3. ASSUME \/ \E s \in Sessions : UploadInit(s) \/ FindExpired(s)
             \/ \E h \in Handlers :
                  \/ ChunkStep(h) \/ UploadComplete(h) \/ CheckParts(h) \/ ListParts(h)
                  \/ AppendPart(h) \/ CloseFile(h)
             \/ RemoveExpired \/ Crash \/ UNCHANGED vars
      PROVE  UNCHANGED stuckTmp
  BY <1>3 DEF UploadInit, FindExpired, ChunkStep, UploadChunk, MakeDir, CreateChunk,
     CopyChunk, RecordChunk, UploadComplete, CheckParts, ListParts, AppendPart,
     CloseFile, RemoveExpired, Crash, leftovers, vars
<1>. QED
  BY <1>1, <1>2, <1>3 DEF Next, AssemblyStep

\* A temporary file is still assembled, or gone, or could not be removed.
LEMMA TmpHeldStep ==
  ASSUME Base, [Next]_vars, ~Crash, NEW d \in Dests, tmp'[d] # None,
         tmp[d] # None =>
           \/ \E h \in Handlers : /\ req[h].pc \in {"list", "assemble", "rename"}
                                  /\ Target[req[h].sess] = d
           \/ d \in stuckTmp
  PROVE  \/ \E h \in Handlers : /\ req'[h].pc \in {"list", "assemble", "rename"}
                                /\ Target[req'[h].sess] = d
         \/ d \in stuckTmp'
<1>. USE DEF Base
<1>1. ASSUME NEW h \in Handlers, MakeTmp(h), req'[h].pc = "list", Target[req[h].sess] = d
      PROVE  Target[req'[h].sess] = d
  BY <1>1, DraftStep, StepsAtPc
<1>2. ASSUME NEW h \in Handlers, req[h].pc \in {"list", "assemble", "rename"},
             Target[req[h].sess] = d, d \notin stuckTmp'
      PROVE  /\ req'[h].pc \in {"list", "assemble", "rename"}
             /\ Target[req'[h].sess] = d
  <2>1. CASE req'[h] = req[h]
    BY <1>2, <2>1
  <2>2. CASE ChunkStep(h) \/ AssemblyStep(h)
    <3>1. ~AppendFails(h) /\ ~Rename(h)
      BY <1>2, StuckTmpStep
    <3>2. ListParts(h) \/ AppendPart(h) \/ CloseFile(h)
      BY <1>2, <2>2, <3>1, StepsAtPc, IdleTyped
         DEF ChunkStep, AssemblyStep, UploadChunk, UploadComplete
    <3>3. req'[h].pc \in {"assemble", "rename"} /\ req'[h].sess = req[h].sess
      <4>1. CASE ListParts(h)
        BY <4>1 DEF ListParts, TypeOK, Request
      <4>2. CASE AppendPart(h)
        <5>1. PICK j : req' = [req EXCEPT ![h].todo = @ \ {j}]
          BY <4>2 DEF AppendPart
        <5>. QED
          BY <4>2, <5>1, StepsAtPc DEF TypeOK, Request
      <4>3. CASE CloseFile(h)
        BY <4>3, GotoFields DEF CloseFile
      <4>. QED
        BY <3>2, <4>1, <4>2, <4>3
    <3>. QED
      BY <1>2, <3>3
  <2>. QED
    BY <1>2, <2>1, <2>2, ServesOn
<1>3. CASE d \in stuckTmp
  BY <1>1, <1>3, StuckTmpStep
<1>. QED
  BY <1>1, <1>2, <1>3, TmpStep

LEMMA LeftInvStep ==
  ASSUME Careful, Base, CarefulInv, LeftInv, [Next]_vars
  PROVE  LeftInv'
<1>1. ASSUME crashes' = 0
      PROVE  crashes = 0 /\ ~Crash
  BY <1>1, NoCrash
<1>2. ASSUME crashes' = 0, NEW d \in Dests, tmp'[d] # None
      PROVE  \/ \E h \in Handlers : /\ req'[h].pc \in {"list", "assemble", "rename"}
                                    /\ Target[req'[h].sess] = d
             \/ d \in stuckTmp'
  BY <1>1, <1>2, TmpHeldStep DEF LeftInv
<1>. QED
  BY <1>2, FileHeldStep DEF LeftInv

\* Of careful clients no part and no temporary file stays behind that nobody tried
\* to remove, whatever fails, unless the server dies.
THEOREM NothingIsLeft == Careful => (Spec => []NoLeftovers)
<1>. SUFFICES ASSUME Careful PROVE Spec => []NoLeftovers
  OBVIOUS
<1>1. Init => LeftInv
  BY DEF Init, LeftInv
<1>2. Base /\ CarefulInv /\ LeftInv /\ [Next]_vars => LeftInv'
  BY LeftInvStep
<1>3. LeftInv => NoLeftovers
  BY DEF LeftInv, NoLeftovers, Serving, Assembling, AssemblyPcs
<1>. QED
  BY <1>1, <1>2, <1>3, CarefulHolds, PTL DEF Spec

-----------------------------------------------------------------------------
(* The abstract upload.                                                     *)

\* What the abstract upload sees: the uploads that may still be published and
\* those that stand at the destinations.
Offered ==
  open \cup {req[h].sess : h \in {g \in Handlers : req[g].pc \in AssemblyPcs}}
Content == [d \in Dests |-> IF dst[d] = None THEN None ELSE Uploaded(dst[d])]

\* The parts of a file tell which upload it is.
LEMMA ContentIs ==
  ASSUME NEW d \in Dests, NEW s \in Sessions, dst[d] # None,
         \A i \in Parts : data[dst[d]][i] = <<s, "full">>
  PROVE  Content[d] = s
<1>1. 1 \in Parts
  BY PartsAssumption DEF Parts
<1>2. \A t \in Sessions : (\A i \in Parts : data[dst[d]][i] = <<t, "full">>) => t = s
  BY <1>1
<1>3. Uploaded(dst[d]) = s
  BY <1>2 DEF Uploaded
<1>. QED
  BY <1>3 DEF Content

LEMMA ContentWillBe ==
  ASSUME NEW d \in Dests, NEW s \in Sessions, dst'[d] # None,
         \A i \in Parts : data'[dst'[d]][i] = <<s, "full">>
  PROVE  Content'[d] = s
<1>1. 1 \in Parts
  BY PartsAssumption DEF Parts
<1>2. \A t \in Sessions : (\A i \in Parts : data'[dst'[d]][i] = <<t, "full">>) => t = s
  BY <1>1
<1>3. Uploaded(dst[d])' = s
  BY <1>2 DEF Uploaded
<1>. QED
  BY <1>3 DEF Content

\* Nothing is offered again.
LEMMA OfferedStep ==
  ASSUME Base, [Next]_vars, \A s \in Sessions : ~UploadInit(s)
  PROVE  Offered' \subseteq Offered
<1>. USE DEF Base
<1>1. open' \subseteq open
  BY OpenStep
<1>2. ASSUME NEW h \in Handlers, req'[h].pc \in AssemblyPcs
      PROVE  req'[h].sess \in Offered
  <2>1. CASE UploadComplete(h)
    BY <2>1, CompleteStarts DEF Starts, Offered
  <2>2. CASE GoesOn(h)
    <3>1. req[h].pc \in AssemblyPcs /\ req'[h].sess = req[h].sess
      BY <1>2, <2>2 DEF GoesOn, Flow, AssemblyPcs
    <3>. QED
      BY <3>1 DEF Offered
  <2>3. CASE req'[h] = req[h]
    BY <1>2, <2>3 DEF Offered
  <2>4. ~UploadChunk(h) /\ req'[h] # Idle
    BY <1>2, ChunkStarts, IdleTyped DEF AssemblyPcs
  <2>. QED
    BY <2>1, <2>2, <2>3, <2>4, Acts DEF Ends
<1>. QED
  BY <1>1, <1>2 DEF Offered

\* Nothing but a rename changes what stands at a destination.
LEMMA ContentStep ==
  ASSUME Base, CarefulInv, [Next]_vars, UNCHANGED dst
  PROVE  UNCHANGED Content
<1>1. ASSUME NEW d \in Dests
      PROVE  Content'[d] = Content[d]
  <2>1. CASE dst[d] = None
    BY <2>1 DEF Content
  <2>2. CASE dst[d] # None
    <3>1. PICK s \in Sessions : \A i \in Parts : data[dst[d]][i] = <<s, "full">>
      BY <2>2 DEF CarefulInv, WholeFile
    <3>2. data'[dst[d]] = data[dst[d]]
      BY <2>2, PlacedIsRead DEF CarefulInv
    <3>3. Content[d] = s
      BY <2>2, <3>1, ContentIs
    <3>4. dst'[d] # None /\ \A i \in Parts : data'[dst'[d]][i] = <<s, "full">>
      BY <2>2, <3>1, <3>2
    <3>5. Content'[d] = s
      BY <3>4, ContentWillBe
    <3>. QED
      BY <3>3, <3>5
  <2>. QED
    BY <2>1, <2>2
<1>2. /\ Content = [d \in Dests |-> Content[d]]
      /\ Content' = [d \in Dests |-> Content'[d]]
  BY DEF Content
<1>. QED
  BY <1>1, <1>2

\* A rename publishes the upload that was assembled.
LEMMA RenamePublishes ==
  ASSUME Base, CarefulInv, [Next]_vars, NEW h \in Handlers, Rename(h), dst' # dst
  PROVE  /\ req[h].sess \in Sessions
         /\ req[h].sess \in Offered
         /\ Content' = [Content EXCEPT ![Target[req[h].sess]] = req[h].sess]
         /\ Offered' = Offered \ {req[h].sess}
         /\ UNCHANGED used
<1>. USE DEF Base, CarefulInv
<1>. DEFINE s == req[h].sess
            e == Target[req[h].sess]
<1>1. s \in Sessions /\ e \in Dests /\ req[h].pc = "rename" /\ s \notin open
  BY BusyTyped, StepsAtPc DEF LocalsInv, Assembles, AssemblyPcs
<1>2. /\ tmp[e] # None /\ dst' = [dst EXCEPT ![e] = tmp[e]]
      /\ UNCHANGED <<open, used, data>> /\ Finish(h)
  BY DEF Rename
<1>3. \A i \in Parts : data[tmp[e]][i] = <<s, "full">>
  BY RenamedIsWhole
<1>4. dst'[e] # None /\ \A i \in Parts : data'[dst'[e]][i] = <<s, "full">>
  BY <1>1, <1>2, <1>3 DEF TypeOK
<1>5. Content'[e] = s
  BY <1>1, <1>4, ContentWillBe
<1>6. ASSUME NEW d \in Dests, d # e
      PROVE  Content'[d] = Content[d]
  <2>1. dst'[d] = dst[d] /\ data' = data
    BY <1>2, <1>6 DEF TypeOK
  <2>2. CASE dst[d] = None
    BY <2>1, <2>2 DEF Content
  <2>3. CASE dst[d] # None
    <3>1. PICK t \in Sessions : \A i \in Parts : data[dst[d]][i] = <<t, "full">>
      BY <2>3 DEF WholeFile
    <3>2. Content[d] = t
      BY <2>3, <3>1, ContentIs
    <3>3. Content'[d] = t
      BY <2>1, <2>3, <3>1, ContentWillBe
    <3>. QED
      BY <3>2, <3>3
  <2>. QED
    BY <2>2, <2>3
<1>7. Content' = [Content EXCEPT ![e] = s]
  <2>1. /\ Content = [d \in Dests |-> Content[d]]
        /\ Content' = [d \in Dests |-> Content'[d]]
    BY DEF Content
  <2>. QED
    BY <1>1, <1>5, <1>6, <2>1
<1>8. s \in Offered
  BY <1>1 DEF Offered, AssemblyPcs
<1>9. Offered' = Offered \ {s}
  <2>1. \A g \in Handlers : g # h => req'[g] = req[g] /\ req[g].sess # s
    BY <1>1, <1>2 DEF Finish, SoloInv, TypeOK
  <2>2. req'[h].pc \notin AssemblyPcs
    BY <1>2, IdleTyped DEF Finish, TypeOK, AssemblyPcs
  <2>3. ASSUME NEW x \in Offered'
        PROVE  x \in Offered \ {s}
    <3>1. CASE x \in open'
      BY <1>1, <1>2, <3>1 DEF Offered
    <3>2. ASSUME NEW g \in Handlers, req'[g].pc \in AssemblyPcs, x = req'[g].sess
          PROVE  x \in Offered \ {s}
      BY <2>1, <2>2, <3>2 DEF Offered
    <3>. QED
      BY <2>3, <3>1, <3>2 DEF Offered
  <2>4. ASSUME NEW x \in Offered, x # s
        PROVE  x \in Offered'
    <3>1. CASE x \in open
      BY <1>2, <3>1 DEF Offered
    <3>2. ASSUME NEW g \in Handlers, req[g].pc \in AssemblyPcs, x = req[g].sess
          PROVE  x \in Offered'
      <4>1. g # h
        BY <2>4, <3>2
      <4>. QED
        BY <2>1, <3>2, <4>1 DEF Offered
    <3>. QED
      BY <2>4, <3>1, <3>2 DEF Offered
  <2>. QED
    BY <2>3, <2>4
<1>. QED
  BY <1>1, <1>2, <1>7, <1>8, <1>9

\* Every step is an offer, a publication, a withdrawal or invisible.
LEMMA PromiseStep ==
  ASSUME Base, CarefulInv, [Next]_vars
  PROVE  \/ \E s \in Sessions :
              /\ s \notin used /\ used' = used \cup {s}
              /\ Offered' = Offered \cup {s} /\ UNCHANGED Content
         \/ \E s \in Sessions :
              /\ s \in Offered
              /\ Content' = [Content EXCEPT ![Target[s]] = s]
              /\ Offered' = Offered \ {s}
              /\ UNCHANGED used
         \/ /\ \E gone \in SUBSET Offered : Offered' = Offered \ gone
            /\ UNCHANGED <<used, Content>>
<1>. USE DEF Base
<1>1. ASSUME NEW s \in Sessions, UploadInit(s)
      PROVE  /\ s \notin used /\ used' = used \cup {s}
             /\ Offered' = Offered \cup {s} /\ UNCHANGED Content
  <2>1. s \notin used /\ used' = used \cup {s} /\ open' = open \cup {s}
        /\ UNCHANGED <<req, dst, data>>
    BY <1>1 DEF UploadInit
  <2>2. UNCHANGED Content
    BY <2>1, ContentStep
  <2>3. Offered' = Offered \cup {s}
    BY <2>1 DEF Offered
  <2>. QED
    BY <2>1, <2>2, <2>3
<1>2. ASSUME \A s \in Sessions : ~UploadInit(s), UNCHANGED dst
      PROVE  /\ \E gone \in SUBSET Offered : Offered' = Offered \ gone
             /\ UNCHANGED <<used, Content>>
  <2>1. Offered' \subseteq Offered
    BY <1>2, OfferedStep
  <2>2. Offered' = Offered \ (Offered \ Offered')
    BY <2>1
  <2>3. UNCHANGED used
    BY <1>2, OpenStep DEF Next, FindExpired, RemoveExpired, Crash, vars
  <2>4. UNCHANGED Content
    BY <1>2, ContentStep
  <2>. QED
    BY <2>2, <2>3, <2>4
<1>3. CASE dst' # dst
  <2>1. \E h \in Handlers : Rename(h)
    BY <1>3 DEF Next, ChunkStep, AssemblyStep, UploadInit, FindExpired, UploadChunk,
       MakeDir, CreateChunk, CopyChunk, RecordChunk, UploadComplete, CheckParts, MakeTmp,
       ListParts, AppendPart, AppendFails, CloseFile, RemoveExpired, Crash, vars
  <2>. QED
    BY <1>3, <2>1, RenamePublishes
<1>. QED
  BY <1>1, <1>2, <1>3

LEMMA PromiseInitial == Init => Promise!Init
<1>. SUFFICES ASSUME Init PROVE Promise!Init
  OBVIOUS
<1>1. \A h \in Handlers : req[h].pc \notin AssemblyPcs
  BY IdleTyped DEF Init, AssemblyPcs
<1>. QED
  BY <1>1 DEF Init, Promise!Init

\* Of careful clients the chunked upload is an atomic one: a destination changes
\* in one step from one whole upload to another, each upload is published at most
\* once, and parts, failures, expiry and crashes are invisible there.
THEOREM UploadsAreAtomic == Careful => (Spec => ImplementsAtomicUpload)
<1>. SUFFICES ASSUME Careful PROVE Spec => ImplementsAtomicUpload
  OBVIOUS
<1>1. Base /\ CarefulInv /\ [Next]_vars => [Promise!Next]_Promise!vars
  <2>. SUFFICES ASSUME Base, CarefulInv, [Next]_vars PROVE [Promise!Next]_Promise!vars
    OBVIOUS
  <2>. USE DEF Offered, Content
  <2>1. ASSUME NEW s \in Sessions, s \notin used, used' = used \cup {s},
               Offered' = Offered \cup {s}, UNCHANGED Content
        PROVE  Promise!Offer(s)
    BY <2>1 DEF Promise!Offer
  <2>2. ASSUME NEW s \in Sessions, s \in Offered,
               Content' = [Content EXCEPT ![Target[s]] = s],
               Offered' = Offered \ {s}, UNCHANGED used
        PROVE  Promise!Publish(s)
    BY <2>2 DEF Promise!Publish
  <2>3. ASSUME \E gone \in SUBSET Offered : Offered' = Offered \ gone,
               UNCHANGED <<used, Content>>
        PROVE  Promise!Withdraw
    BY <2>3 DEF Promise!Withdraw
  <2>. QED
    BY <2>1, <2>2, <2>3, PromiseStep DEF Promise!Next
<1>. QED
  BY <1>1, PromiseInitial, CarefulHolds, PTL DEF Spec, ImplementsAtomicUpload,
     Promise!Spec

=============================================================================
