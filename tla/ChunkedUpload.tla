--------------------------- MODULE ChunkedUpload ---------------------------
(***************************************************************************)
(* The chunked upload of mdict-server (internal/handlers/dict.go): a client *)
(* opens a session, sends the parts of its file one request each, and asks *)
(* for them to be assembled.  Sessions live in a sync.Map, parts in files  *)
(* under .uploads, and an hourly job removes sessions that are too old.    *)
(*                                                                         *)
(* An assembled file is written to <destination>.tmp and renamed.  A file  *)
(* has the name of the session that created it, so that a writer that holds *)
(* it open keeps writing to it after somebody renamed it.  What the engine *)
(* does with a new file is the business of DictEngine.                     *)
(***************************************************************************)
EXTENDS Naturals, FiniteSets

CONSTANTS
  Sessions,      \* upload IDs
  Dests,         \* destinations in the dictionary directory
  Target,        \* Target[s]: the destination of session s
  NumParts,      \* parts of a file
  Handlers,      \* concurrent requests
  SerialChunks,  \* does a client wait for a part, and repeat one that fails,
                 \* before it goes on?
  SharedDest,    \* are two files for one destination assembled at a time?
  ActiveExpiry,  \* may a session that is in use be old enough to expire?
  MaxFaults,     \* bound: failing file operations
  MaxCrashes,    \* bound: crashes
  None

Parts == 1..NumParts
Piece == Sessions \X {"full", "partial"}
ChunkPcs == {"mkdir", "create", "copy", "record"}
AssemblyPcs == {"check", "mktmp", "list", "assemble", "rename"}
Request == [pc : {"idle"} \cup ChunkPcs \cup AssemblyPcs,
            sess : Sessions \cup {None}, part : 0..NumParts,
            todo : SUBSET Parts, out : Sessions \cup {None}]

ASSUME PartsAssumption == NumParts \in Nat \ {0}
ASSUME BoundsAssumption == MaxFaults \in Nat /\ MaxCrashes \in Nat
ASSUME TargetAssumption == Target \in [Sessions -> Dests]
ASSUME NoneAssumption == /\ None \notin Sessions
                         /\ None \notin Piece
                         /\ {"none", "full"} \cap Handlers = {}

VARIABLES
  open,    \* the sessions in DictHandler.uploads
  used,    \* the upload IDs given out
  chunks,  \* chunkedUpload.chunks: the parts a session has received
  file,    \* file[s][i]: the file of a part: "none", "full", or the handler
           \* that last created it and has not finished writing
  dir,     \* the directory .uploads exists
  tmp,     \* the file at <destination>.tmp
  dst,     \* the file at the destination
  data,    \* data[s][i]: what was written for part i to the file s created
  req,     \* locals of each request
  janitor, \* the session CleanupExpiredUploads has found too old
  stuck,    \* history: the parts, as <<s, i>>, whose file could not be removed
  stuckTmp, \* history: the destinations whose .tmp file could not be removed
  faults, crashes

bounds == <<faults, crashes>>
leftovers == <<stuck, stuckTmp>>
vars == <<open, used, chunks, file, dir, tmp, dst, data, req, janitor, leftovers,
          bounds>>

-----------------------------------------------------------------------------
Idle == [pc |-> "idle", sess |-> None, part |-> 0, todo |-> {}, out |-> None]

Init ==
  /\ open = {} /\ used = {}
  /\ chunks = [s \in Sessions |-> {}]
  /\ file = [s \in Sessions |-> [i \in Parts |-> "none"]]
  /\ dir = FALSE
  /\ tmp = [d \in Dests |-> None]
  /\ dst = [d \in Dests |-> None]
  /\ data = [s \in Sessions |-> [i \in Parts |-> None]]
  /\ req = [h \in Handlers |-> Idle]
  /\ janitor = None
  /\ stuck = {} /\ stuckTmp = {}
  /\ faults = 0 /\ crashes = 0

Serving(s) == {h \in Handlers : req[h].sess = s}
Assembling(d) == {h \in Handlers : req[h].pc \in AssemblyPcs
                                   /\ Target[req[h].sess] = d}
Goto(h, pc) == req' = [req EXCEPT ![h].pc = pc]
Finish(h) == req' = [req EXCEPT ![h] = Idle]
\* The file operations of one step that fail count as one fault.
Fault == faults < MaxFaults /\ faults' = faults + 1
MayFail == UNCHANGED faults \/ Fault
Failing == faults' # faults

\* Faulty variant: every part in the directory is removed.
CleanupAll(s) ==
  /\ file' = [t \in Sessions |-> [i \in Parts |-> "none"]]
  /\ chunks' = [chunks EXCEPT ![s] = {}]
  /\ dir' = FALSE
  /\ stuck' = {}

\* cleanupChunks: the files of the parts the session knows of, and the
\* directory if nothing is left in it.  A file that cannot be removed is ignored;
\* the session forgets it all the same.
Cleanup(s) ==
  \E kept \in SUBSET {i \in chunks[s] : file[s][i] # "none"} :
    /\ kept # {} => Failing
    /\ file' = [file EXCEPT ![s] =
                  [i \in Parts |-> IF i \in chunks[s] \ kept THEN "none" ELSE @[i]]]
    /\ stuck' = (stuck \ ({s} \X chunks[s])) \cup ({s} \X kept)
    /\ chunks' = [chunks EXCEPT ![s] = {}]
    /\ dir' \in {dir /\ \E t \in Sessions, i \in Parts : file'[t][i] # "none",
                 dir /\ Failing}

-----------------------------------------------------------------------------
(* POST /dicts/upload/init                                                  *)

UploadInit(s) ==
  /\ s \notin used
  /\ used' = used \cup {s}
  /\ open' = open \cup {s}
  /\ UNCHANGED <<chunks, file, dir, tmp, dst, data, req, janitor, leftovers,
                 bounds>>

-----------------------------------------------------------------------------
(* PUT /dicts/upload/chunk                                                  *)

\* Faulty variant: one part too many is accepted.
InRangeOrNext(i) == i <= NumParts + 1

InRange(i) == i <= NumParts

\* A serial client has no other request under way when it sends a part.
UploadChunk(h) ==
  /\ req[h] = Idle
  /\ \E s \in open, i \in 1..NumParts + 1 :
       /\ InRange(i)
       /\ SerialChunks => Serving(s) = {}
       /\ ActiveExpiry \/ janitor # s
       /\ req' = [req EXCEPT ![h] = [Idle EXCEPT !.pc = "mkdir", !.sess = s,
                                                 !.part = i]]
  /\ UNCHANGED <<open, used, chunks, file, dir, tmp, dst, data, janitor,
                 leftovers, bounds>>

MakeDir(h) ==
  /\ req[h].pc = "mkdir"
  /\ \/ dir' = TRUE /\ Goto(h, "create") /\ UNCHANGED faults
     \/ Fault /\ Finish(h) /\ UNCHANGED dir
  /\ UNCHANGED <<open, used, chunks, file, tmp, dst, data, janitor, leftovers,
                 crashes>>

\* The file of the part is created, or truncated if an earlier request left it;
\* the directory may be gone again by now.
CreateChunk(h) ==
  /\ req[h].pc = "create"
  /\ \/ /\ dir
        /\ file' = [file EXCEPT ![req[h].sess][req[h].part] = h]
        /\ stuck' = stuck \ {<<req[h].sess, req[h].part>>}
        /\ Goto(h, "copy")
        /\ UNCHANGED faults
     \/ /\ \/ ~dir /\ UNCHANGED faults
           \/ Fault
        /\ Finish(h)
        /\ UNCHANGED <<file, stuck>>
  /\ UNCHANGED <<open, used, chunks, dir, tmp, dst, data, janitor, stuckTmp,
                 crashes>>

\* The part is whole once the request that last created its file has written it.
\* If that fails the file is removed, unless this fails as well.
CopyChunk(h) ==
  /\ req[h].pc = "copy"
  /\ \/ /\ file' = [file EXCEPT ![req[h].sess][req[h].part] =
                      IF @ = h THEN "full" ELSE @]
        /\ Goto(h, "record")
        /\ UNCHANGED <<stuck, faults>>
     \/ /\ Fault
        /\ \/ /\ file' = [file EXCEPT ![req[h].sess][req[h].part] = "none"]
              /\ UNCHANGED stuck
           \/ /\ stuck' = stuck \cup {<<req[h].sess, req[h].part>>}
              /\ UNCHANGED file
        /\ Finish(h)
  /\ UNCHANGED <<open, used, chunks, dir, tmp, dst, data, janitor, stuckTmp,
                 crashes>>

\* The session may have been completed or have expired since it was looked up.
RecordChunk(h) ==
  /\ req[h].pc = "record"
  /\ chunks' = [chunks EXCEPT ![req[h].sess] = @ \cup {req[h].part}]
  /\ Finish(h)
  /\ UNCHANGED <<open, used, file, dir, tmp, dst, data, janitor, leftovers,
                 bounds>>

-----------------------------------------------------------------------------
(* POST /dicts/upload/complete                                              *)

\* Faulty variant: the session is looked up and stays in the map.
LoadsOnly(s) == UNCHANGED open

\* LoadAndDelete: of several requests only one gets the session.
LoadAndDelete(s) == open' = open \ {s}

\* A serial client has no part under way, and repeated those that failed.
UploadComplete(h) ==
  /\ req[h] = Idle
  /\ \E s \in open :
       /\ SerialChunks => /\ \A g \in Serving(s) : req[g].pc \in AssemblyPcs
                          /\ \A i \in Parts : <<s, i>> \notin stuck
       /\ SharedDest \/ \A g \in Assembling(Target[s]) : req[g].sess = s
       /\ ActiveExpiry \/ janitor # s
       /\ LoadAndDelete(s)
       /\ req' = [req EXCEPT ![h] = [Idle EXCEPT !.pc = "check", !.sess = s]]
  /\ UNCHANGED <<used, chunks, file, dir, tmp, dst, data, janitor, leftovers,
                 bounds>>

\* Faulty variant: some parts are enough.
HasSomeParts(s) == chunks[s] # {}

HasAllParts(s) == Cardinality(chunks[s]) = NumParts

CheckParts(h) ==
  /\ req[h].pc = "check"
  /\ IF HasAllParts(req[h].sess)
       THEN Goto(h, "mktmp") /\ UNCHANGED <<chunks, file, dir, stuck, faults>>
       ELSE MayFail /\ Cleanup(req[h].sess) /\ Finish(h)
  /\ UNCHANGED <<open, used, tmp, dst, data, janitor, stuckTmp, crashes>>

\* os.Create(dst + ".tmp"): a file that is there already is truncated and
\* shared with whoever has it open.
MakeTmp(h) ==
  /\ req[h].pc = "mktmp"
  /\ LET s == req[h].sess
         d == Target[s]
         out == IF tmp[d] = None THEN s ELSE tmp[d]
     IN  \/ /\ tmp' = [tmp EXCEPT ![d] = out]
            /\ data' = [data EXCEPT ![out] = [i \in Parts |-> None]]
            /\ req' = [req EXCEPT ![h].pc = "list", ![h].out = out]
            /\ stuckTmp' = stuckTmp \ {d}
            /\ UNCHANGED <<chunks, file, dir, stuck, faults>>
         \/ /\ Fault
            /\ Cleanup(s)
            /\ Finish(h)
            /\ UNCHANGED <<tmp, data, stuckTmp>>
  /\ UNCHANGED <<open, used, dst, janitor, crashes>>

\* The indices of the parts, sorted.
ListParts(h) ==
  /\ req[h].pc = "list"
  /\ req' = [req EXCEPT ![h].pc = "assemble", ![h].todo = chunks[req[h].sess]]
  /\ UNCHANGED <<open, used, chunks, file, dir, tmp, dst, data, janitor,
                 leftovers, bounds>>

\* The part with the smallest index is appended next.
NextPart(h, i) ==
  /\ req[h].pc = "assemble"
  /\ i \in req[h].todo /\ \A j \in req[h].todo : i <= j

CanRead(s, i) == i \in chunks[s] /\ file[s][i] # "none"

\* The file of the part is removed once it is appended; if that fails, cleanupChunks
\* tries again.
AppendPart(h) ==
  /\ \E i \in req[h].todo :
       LET s == req[h].sess
       IN  /\ NextPart(h, i) /\ CanRead(s, i)
           /\ data' = [data EXCEPT ![req[h].out][i] =
                         <<s, IF file[s][i] = "full" THEN "full" ELSE "partial">>]
           /\ \/ /\ file' = [file EXCEPT ![s][i] = "none"]
                 /\ stuck' = stuck \ {<<s, i>>}
                 /\ UNCHANGED faults
              \/ /\ Fault
                 /\ stuck' = stuck \cup {<<s, i>>}
                 /\ UNCHANGED file
           /\ req' = [req EXCEPT ![h].todo = @ \ {i}]
  /\ UNCHANGED <<open, used, chunks, dir, tmp, dst, janitor, stuckTmp, crashes>>

\* os.Remove(tmpDst), which may fail.
RemoveTmp(d) ==
  \/ tmp' = [tmp EXCEPT ![d] = None] /\ UNCHANGED stuckTmp
  \/ Failing /\ stuckTmp' = stuckTmp \cup {d} /\ UNCHANGED tmp

\* Faulty variant: the temporary file is not removed.
AppendFailsKeepsTmp(h) ==
  /\ \E i \in req[h].todo :
       /\ NextPart(h, i)
       /\ \/ ~CanRead(req[h].sess, i) /\ MayFail
          \/ Fault
  /\ Cleanup(req[h].sess)
  /\ Finish(h)
  /\ UNCHANGED <<open, used, tmp, dst, data, janitor, stuckTmp, crashes>>

\* A part cannot be opened or copied: everything of the session is removed.
AppendFails(h) ==
  /\ \E i \in req[h].todo :
       /\ NextPart(h, i)
       /\ \/ ~CanRead(req[h].sess, i) /\ MayFail /\ UNCHANGED data
          \/ Fault /\ data' = [data EXCEPT ![req[h].out][i] =
                                 <<req[h].sess, "partial">>]
  /\ RemoveTmp(Target[req[h].sess])
  /\ Cleanup(req[h].sess)
  /\ Finish(h)
  /\ UNCHANGED <<open, used, dst, janitor, crashes>>

CloseFile(h) ==
  /\ req[h].pc = "assemble" /\ req[h].todo = {}
  /\ MayFail
  /\ Cleanup(req[h].sess)
  /\ Goto(h, "rename")
  /\ UNCHANGED <<open, used, tmp, dst, data, janitor, stuckTmp, crashes>>

\* The rename fails when somebody else renamed the temporary file.
Rename(h) ==
  /\ req[h].pc = "rename"
  /\ LET d == Target[req[h].sess]
     IN  \/ /\ tmp[d] # None
            /\ dst' = [dst EXCEPT ![d] = tmp[d]]
            /\ tmp' = [tmp EXCEPT ![d] = None]
            /\ UNCHANGED <<stuckTmp, faults>>
         \/ /\ IF tmp[d] = None THEN UNCHANGED faults ELSE Fault
            /\ RemoveTmp(d)
            /\ UNCHANGED dst
  /\ Finish(h)
  /\ UNCHANGED <<open, used, chunks, file, dir, data, janitor, stuck, crashes>>

-----------------------------------------------------------------------------
(* CleanupExpiredUploads, called every hour.                                *)

\* Range comes to a session that is too old.
FindExpired(s) ==
  /\ janitor = None /\ s \in open
  /\ ActiveExpiry \/ Serving(s) = {}
  /\ janitor' = s
  /\ UNCHANGED <<open, used, chunks, file, dir, tmp, dst, data, req, leftovers,
                 bounds>>

RemoveExpired ==
  /\ janitor # None
  /\ open' = open \ {janitor}
  /\ MayFail
  /\ Cleanup(janitor)
  /\ janitor' = None
  /\ UNCHANGED <<used, tmp, dst, data, req, stuckTmp, crashes>>

\* The process dies: the sessions are gone, the files stay.
Crash ==
  /\ crashes < MaxCrashes
  /\ crashes' = crashes + 1
  /\ open' = {}
  /\ chunks' = [s \in Sessions |-> {}]
  /\ req' = [h \in Handlers |-> Idle]
  /\ janitor' = None
  /\ UNCHANGED <<used, file, dir, tmp, dst, data, leftovers, faults>>

-----------------------------------------------------------------------------
ChunkStep(h) ==
  UploadChunk(h) \/ MakeDir(h) \/ CreateChunk(h) \/ CopyChunk(h)
    \/ RecordChunk(h)

AssemblyStep(h) ==
  \/ UploadComplete(h) \/ CheckParts(h) \/ MakeTmp(h) \/ ListParts(h)
  \/ AppendPart(h) \/ AppendFails(h) \/ CloseFile(h) \/ Rename(h)

Next ==
  \/ \E s \in Sessions : UploadInit(s) \/ FindExpired(s)
  \/ \E h \in Handlers : ChunkStep(h) \/ AssemblyStep(h)
  \/ RemoveExpired \/ Crash

Spec == Init /\ [][Next]_vars

-----------------------------------------------------------------------------
\* Types of the sessions, the files and the requests.
TypeOK ==
  /\ open \subseteq used /\ used \subseteq Sessions
  /\ chunks \in [Sessions -> SUBSET Parts]
  /\ file \in [Sessions -> [Parts -> {"none", "full"} \cup Handlers]]
  /\ dir \in BOOLEAN
  /\ tmp \in [Dests -> Sessions \cup {None}]
  /\ dst \in [Dests -> Sessions \cup {None}]
  /\ data \in [Sessions -> [Parts -> Piece \cup {None}]]
  /\ req \in [Handlers -> Request]
  /\ janitor \in Sessions \cup {None}
  /\ stuck \subseteq Sessions \X Parts /\ stuckTmp \subseteq Dests
  /\ faults \in 0..MaxFaults /\ crashes \in 0..MaxCrashes

\* A file that was put in place holds every part of one upload, whole, and
\* nothing of another ("assembling all chunks", handlers/dict.go:554).
WholeFile ==
  \A d \in Dests : dst[d] # None =>
    \E s \in Sessions : /\ Target[s] = d
                        /\ \A i \in Parts : data[dst[d]][i] = <<s, "full">>

\* However often a client asks, a session is assembled by one request only:
\* two would consume each other's parts (LoadAndDelete, handlers/dict.go:566).
OneAssembly ==
  \A g, h \in Handlers :
    /\ req[g].pc \in AssemblyPcs
    /\ req[h].pc \in AssemblyPcs
    /\ req[g].sess = req[h].sess
    => g = h

\* While a file is assembled the parts it still needs are there, whatever other
\* sessions and the hourly job remove from the shared directory.
PartsStay ==
  \A h \in Handlers : faults = 0 /\ req[h].pc = "assemble" =>
    \A i \in req[h].todo : file[req[h].sess][i] = "full"

\* No request leaves temporary files behind: a part belongs to a session or to
\* a request that will remove it, a .tmp file to the request that assembles it.
\* Short of a crash only a file whose removal was tried and failed stays, since
\* the code ignores that (handlers/dict.go:532, 621, 628, 644, 690): every path on
\* which an upload ends tries to remove each of its files.
NoLeftovers ==
  crashes = 0 =>
    /\ \A s \in Sessions, i \in Parts : file[s][i] # "none" =>
         s \in open \/ Serving(s) # {} \/ <<s, i>> \in stuck
    /\ \A d \in Dests : tmp[d] # None =>
         Assembling(d) # {} \/ d \in stuckTmp

-----------------------------------------------------------------------------
(* The abstract upload.                                                     *)

\* The upload whose parts make up the file f, in full.
Uploaded(f) ==
  IF \E s \in Sessions : \A i \in Parts : data[f][i] = <<s, "full">>
    THEN CHOOSE s \in Sessions : \A i \in Parts : data[f][i] = <<s, "full">>
    ELSE "torn"

Promise == INSTANCE AtomicUpload WITH
  opened <- used,
  offered <- open \cup {req[h].sess : h \in {g \in Handlers :
                                             req[g].pc \in AssemblyPcs}},
  content <- [d \in Dests |-> IF dst[d] = None THEN None ELSE Uploaded(dst[d])]

\* Parts, temporary files, repeated requests, the hourly job, failures and
\* crashes are invisible at the destination: it changes from one whole upload to
\* another in one step, and an upload that was published or given up never
\* comes back (UploadComplete, handlers/dict.go:554).
ImplementsAtomicUpload == Promise!Spec
=============================================================================
