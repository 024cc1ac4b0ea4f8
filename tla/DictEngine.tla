---------------------------- MODULE DictEngine ----------------------------
(***************************************************************************)
(* The dictionary engine of mdict-server (internal/dict/engine.go), the    *)
(* dicts table it keeps in step with (internal/store/dict_store.go), the   *)
(* dictionary directory both describe, and the admin handlers that change  *)
(* all three (internal/handlers/dict.go).                                  *)
(*                                                                         *)
(* A dictionary is known by its .mdx file: its ID is a hash of the         *)
(* filename, so a file stands for its row and its entry in Engine.dicts.   *)
(* A file's content is a version number; every write of the directory      *)
(* makes a new one.  A version also stands for the (size, mtime) pair the  *)
(* engine compares, which the code takes to tell contents apart.           *)
(***************************************************************************)
EXTENDS Naturals, FiniteSets

CONSTANTS
  Files,         \* the .mdx files (relative paths) the directory may hold
  Handlers,      \* concurrent admin requests
  Main,          \* the goroutine of main(), which loads before it listens
  Titles,        \* the titles an administrator may give
  DefaultTitle,  \* the title derived from the filename
  Vocabulary,    \* Vocabulary[<<f, v>>]: the headwords of version v of file f
  Corrupt,       \* the <<file, version>> pairs the MDX parser rejects
  Requests,      \* which requests this instance makes
  Batches,       \* the sets of <<file, part>> one upload form may carry
  MddKinds,      \* the .mdd files uploaded: "good", or "bad" (unreadable)
  OperatorEdits, \* may the operator edit the directory behind the server?
  MaxVersion,    \* bound: writes of .mdx files
  MaxFaults,     \* bound: failing database calls and file removals
  MaxCrashes,    \* bound: crashes
  NoRow, NotLoaded, Free

Versions == 1..MaxVersion
Procs == Handlers \cup {Main}
Parts == Files \X {"mdx", "mdd"}
Row == [enabled : BOOLEAN, title : Titles, mdd : BOOLEAN]
Steps == {"idle", "scan", "stat", "parse", "mdd", "exists", "get", "update",
          "create", "orphans", "disable", "status"}
Calls == {"none", "LoadAll", "Reload", "SetEnabled"}
Pcs == {"idle", "set", "engine", "title", "settitle", "unload", "rmmdx",
        "rmmdd", "rmrow", "recv", "save", "reload"}
LoadedDict == [enabled : BOOLEAN, title : Titles, mdd : BOOLEAN,
               content : Versions, stamp : Versions]
Locals == [step : Steps, call : Calls, todo : SUBSET Files,
           seen : SUBSET Files, file : Files, stamp : 0..MaxVersion,
           content : 0..MaxVersion, mdd : BOOLEAN, row : Row \cup {NoRow}]
Request == [pc : Pcs, file : Files, part : {"mdx", "mdd"}, on : BOOLEAN,
            title : Titles, hasMdd : BOOLEAN, left : SUBSET Parts,
            saved : SUBSET Parts]

ASSUME BoundsAssumption == /\ MaxVersion \in Nat \ {0}
                           /\ MaxFaults \in Nat
                           /\ MaxCrashes \in Nat
ASSUME ProcsAssumption == Main \notin Handlers /\ Free \notin Procs
ASSUME FilesAssumption == Files # {} /\ IsFiniteSet(Files)
ASSUME TitlesAssumption == DefaultTitle \in Titles
\* What is not there is neither a row nor an entry, nor what a search reads of one.
ASSUME NullsAssumption ==
  /\ NoRow \notin Row
  /\ NotLoaded \notin LoadedDict \cup [enabled : BOOLEAN, content : Versions]
ASSUME InputsAssumption == /\ Batches \subseteq SUBSET Parts
                           /\ MddKinds \subseteq {"good", "bad"}
                           /\ Requests \subseteq
                                {"status", "title", "delete", "upload"}

VARIABLES
  disk,    \* version of each .mdx in the directory, 0 if there is no file
  mdd,     \* "none", "good" or "bad": the .mdd beside each .mdx
  db,      \* the dicts table
  dicts,   \* Engine.dicts
  index,   \* Engine.wordIndex, as a set
  lock,    \* who holds Engine.mu for writing
  ld,      \* locals of the engine method that holds the lock
  req,     \* locals of each request handler
  up,      \* main() has finished LoadAll and listens
  writes, faults, crashes  \* how much of each bound is spent

history == <<writes, faults, crashes>>
vars == <<disk, mdd, db, dicts, index, lock, ld, req, up, history>>

-----------------------------------------------------------------------------
(* What readers see.  Search and FuzzySearch hold the lock for reading, so  *)
(* they see the state of the memory only when no method holds it.           *)

IsLoaded(f) == dicts[f] # NotLoaded

\* Headwords of the enabled dictionaries in memory, what an index built now
\* would hold.
LiveWords(d) ==
  UNION {Vocabulary[<<f, d[f].content>>] :
           f \in {g \in Files : d[g] # NotLoaded /\ d[g].enabled}}

\* Dictionaries an exact search for word answers from.
SearchHits(word) ==
  {f \in Files : /\ IsLoaded(f)
                 /\ dicts[f].enabled
                 /\ word \in Vocabulary[<<f, dicts[f].content>>]}

-----------------------------------------------------------------------------
NoLoad == [step |-> "idle", call |-> "none", todo |-> {}, seen |-> {},
           file |-> CHOOSE f \in Files : TRUE, stamp |-> 0, content |-> 0,
           mdd |-> FALSE, row |-> NoRow]

Idle == [pc |-> "idle", file |-> CHOOSE f \in Files : TRUE, part |-> "mdx",
         on |-> FALSE, title |-> DefaultTitle, hasMdd |-> FALSE,
         left |-> {}, saved |-> {}]

Init ==
  /\ disk \in [Files -> {0, 1}]
  /\ mdd = [f \in Files |-> "none"]
  /\ db = [f \in Files |-> NoRow]
  /\ dicts = [f \in Files |-> NotLoaded]
  /\ index = {}
  /\ lock = Free
  /\ ld = NoLoad
  /\ req = [p \in Handlers |-> Idle]
  /\ up = FALSE
  /\ writes = 1 /\ faults = 0 /\ crashes = 0

\* A database call or a file removal fails.
Fault == faults < MaxFaults /\ faults' = faults + 1

-----------------------------------------------------------------------------
(* The engine's methods.  Each holds the lock from its first shared access  *)
(* to its return.                                                           *)

\* The method of process p returns; a handler goes on as r says.
Return(p, r) ==
  /\ lock' = Free
  /\ ld' = NoLoad
  /\ IF p = Main THEN up' = TRUE /\ UNCHANGED req
                 ELSE req' = [req EXCEPT ![p] = r] /\ UNCHANGED up

\* What the handler of process p does when its engine call is over.
Resume(p) == IF ld.call = "SetEnabled" THEN Idle
                                       ELSE [req[p] EXCEPT !.pc = "recv"]

Begin(call, step, f) ==
  ld' = [NoLoad EXCEPT !.call = call, !.step = step, !.file = f]

\* LoadAll is done with one file.
NextFile == ld' = [NoLoad EXCEPT !.call = "LoadAll", !.step = "scan",
                                 !.todo = ld.todo, !.seen = ld.seen]

EnterLoadAll(p) ==
  /\ lock = Free
  /\ lock' = p
  /\ LET found == {f \in Files : disk[f] # 0}
     IN  ld' = [NoLoad EXCEPT !.call = "LoadAll", !.step = "scan",
                              !.todo = found, !.seen = found]

\* The memory still matches the file: nothing to read.
UpToDate(f) == IsLoaded(f) /\ disk[f] # 0 /\ dicts[f].stamp = disk[f]

ScanSkip(f) ==
  /\ ld.step = "scan" /\ f \in ld.todo /\ UpToDate(f)
  /\ ld' = [ld EXCEPT !.todo = @ \ {f}]
  /\ UNCHANGED <<disk, mdd, db, dicts, index, lock, req, up, history>>

ScanLoad(f) ==
  /\ ld.step = "scan" /\ f \in ld.todo /\ ~UpToDate(f)
  /\ ld' = [ld EXCEPT !.todo = @ \ {f}, !.step = "stat", !.file = f]
  /\ UNCHANGED <<disk, mdd, db, dicts, index, lock, req, up, history>>

-----------------------------------------------------------------------------
(* loadDict, one step per access to the directory or to the database.       *)

LoadStat ==
  /\ ld.step = "stat" /\ disk[ld.file] # 0
  /\ ld' = [ld EXCEPT !.step = "parse", !.stamp = disk[ld.file]]
  /\ UNCHANGED <<disk, mdd, db, dicts, index, lock, req, up, history>>

\* Faulty variant: a file that vanished parses as an empty dictionary.
ParsesMissing(f) == <<f, disk[f]>> \notin Corrupt

Parses(f) == disk[f] # 0 /\ <<f, disk[f]>> \notin Corrupt

LoadParse ==
  /\ ld.step = "parse" /\ Parses(ld.file)
  /\ ld' = [ld EXCEPT !.step = "mdd", !.content = disk[ld.file]]
  /\ UNCHANGED <<disk, mdd, db, dicts, index, lock, req, up, history>>

\* Faulty variant: the file is looked at again after it was parsed.
LoadMddStatsLate ==
  /\ ld.step = "mdd"
  /\ ld' = [ld EXCEPT !.step = "exists", !.mdd = (mdd[ld.file] = "good"),
                      !.stamp = IF disk[ld.file] = 0 THEN @ ELSE disk[ld.file]]
  /\ UNCHANGED <<disk, mdd, db, dicts, index, lock, req, up, history>>

LoadMdd ==
  /\ ld.step = "mdd"
  /\ ld' = [ld EXCEPT !.step = "exists", !.mdd = (mdd[ld.file] = "good")]
  /\ UNCHANGED <<disk, mdd, db, dicts, index, lock, req, up, history>>

\* Faulty variant: the memory, not the table, is asked for the dictionary.
LoadExistsInMemory ==
  /\ ld.step = "exists"
  /\ ld' = [ld EXCEPT !.step = IF IsLoaded(ld.file) THEN "get" ELSE "create"]
  /\ UNCHANGED <<disk, mdd, db, dicts, index, lock, req, up, history>>

LoadExists ==
  /\ ld.step = "exists"
  /\ ld' = [ld EXCEPT !.step = IF db[ld.file] = NoRow THEN "create" ELSE "get"]
  /\ UNCHANGED <<disk, mdd, db, dicts, index, lock, req, up, history>>

LoadGet ==
  /\ ld.step = "get" /\ db[ld.file] # NoRow
  /\ ld' = [ld EXCEPT !.step = "update", !.row = db[ld.file]]
  /\ UNCHANGED <<disk, mdd, db, dicts, index, lock, req, up, history>>

\* Faulty variant: the index is rebuilt from the memory as it was before.
InstallIndexesFirst(info) ==
  /\ dicts' = [dicts EXCEPT ![ld.file] =
       [enabled |-> info.enabled, title |-> info.title, mdd |-> info.mdd,
        content |-> ld.content, stamp |-> ld.stamp]]
  /\ \/ /\ ld.call = "LoadAll"
        /\ NextFile
        /\ UNCHANGED <<index, lock, req, up>>
     \/ /\ ld.call = "Reload"
        /\ index' = LiveWords(dicts)
        /\ Return(lock, Resume(lock))
     \/ /\ ld.call = "SetEnabled"
        /\ ld' = [ld EXCEPT !.step = "status"]
        /\ UNCHANGED <<index, lock, req, up>>

\* loadDict stores its result in memory, and its caller takes over.
Install(info) ==
  /\ dicts' = [dicts EXCEPT ![ld.file] =
       [enabled |-> info.enabled, title |-> info.title, mdd |-> info.mdd,
        content |-> ld.content, stamp |-> ld.stamp]]
  /\ \/ /\ ld.call = "LoadAll"
        /\ NextFile
        /\ UNCHANGED <<index, lock, req, up>>
     \/ /\ ld.call = "Reload"
        /\ index' = LiveWords(dicts')
        /\ Return(lock, Resume(lock))
     \/ /\ ld.call = "SetEnabled"
        /\ ld' = [ld EXCEPT !.step = "status"]
        /\ UNCHANGED <<index, lock, req, up>>

\* Faulty variant: a load enables the dictionary, as for a new one.
LoadUpdateEnables ==
  /\ ld.step = "update"
  /\ LET info == [ld.row EXCEPT !.mdd = ld.mdd, !.enabled = TRUE]
     IN  /\ db' = [db EXCEPT ![ld.file] = IF @ = NoRow THEN NoRow ELSE info]
         /\ Install(info)
  /\ UNCHANGED <<disk, mdd, history>>

\* Faulty variant: the memory keeps the title derived from the filename.
LoadUpdateDropsTitle ==
  /\ ld.step = "update"
  /\ LET info == [ld.row EXCEPT !.mdd = ld.mdd]
     IN  /\ db' = [db EXCEPT ![ld.file] = IF @ = NoRow THEN NoRow ELSE info]
         /\ Install([info EXCEPT !.title = DefaultTitle])
  /\ UNCHANGED <<disk, mdd, history>>

\* The row read before is written back; a row deleted meanwhile stays deleted.
LoadUpdate ==
  /\ ld.step = "update"
  /\ LET info == [ld.row EXCEPT !.mdd = ld.mdd]
     IN  /\ db' = [db EXCEPT ![ld.file] = IF @ = NoRow THEN NoRow ELSE info]
         /\ Install(info)
  /\ UNCHANGED <<disk, mdd, history>>

\* Only the holder of the lock inserts rows: the filename is still free here
\* (CreateNeverConflicts), and the UNIQUE constraint never makes this fail.
LoadCreate ==
  /\ ld.step = "create" /\ db[ld.file] = NoRow
  /\ LET info == [enabled |-> TRUE, title |-> DefaultTitle, mdd |-> ld.mdd]
     IN  /\ db' = [db EXCEPT ![ld.file] = info]
         /\ Install(info)
  /\ UNCHANGED <<disk, mdd, history>>

LoadError ==
  \/ ld.step = "stat" /\ disk[ld.file] = 0 /\ UNCHANGED faults
  \/ ld.step = "parse" /\ ~Parses(ld.file) /\ UNCHANGED faults
  \/ ld.step = "get" /\ db[ld.file] = NoRow /\ UNCHANGED faults
  \/ ld.step \in {"exists", "get", "update", "create"} /\ Fault

\* Faulty variant: the old dictionary is dropped before the new one is read.
LoadFailsDrops ==
  /\ LoadError
  /\ IF ld.call = "LoadAll"
       THEN NextFile /\ UNCHANGED <<lock, req, up>>
       ELSE Return(lock, Resume(lock))
  /\ dicts' = [dicts EXCEPT ![ld.file] = NotLoaded]
  /\ UNCHANGED <<disk, mdd, db, index, writes, crashes>>

\* Faulty variant: the error path forgets to unlock.
LoadFailsKeepsLock ==
  /\ LoadError
  /\ IF ld.call = "LoadAll"
       THEN NextFile /\ UNCHANGED <<req, up>>
       ELSE ld' = NoLoad /\ req' = [req EXCEPT ![lock] = Resume(lock)]
              /\ UNCHANGED up
  /\ UNCHANGED <<disk, mdd, db, dicts, index, lock, writes, crashes>>

\* Faulty variant: LoadAll tries a file that fails again.
LoadFailsRetries ==
  /\ LoadError
  /\ IF ld.call = "LoadAll"
       THEN ld' = [ld EXCEPT !.step = "stat"] /\ UNCHANGED <<lock, req, up>>
       ELSE Return(lock, Resume(lock))
  /\ UNCHANGED <<disk, mdd, db, dicts, index, writes, crashes>>

\* loadDict returns an error: LoadAll goes on with the next file, the other
\* callers return at once and leave the memory as it is.
LoadFails ==
  /\ LoadError
  /\ IF ld.call = "LoadAll"
       THEN NextFile /\ UNCHANGED <<lock, req, up>>
       ELSE Return(lock, Resume(lock))
  /\ UNCHANGED <<disk, mdd, db, dicts, index, writes, crashes>>

-----------------------------------------------------------------------------
(* The tail of LoadAll: disableOrphans, then the index.                     *)

\* Faulty variant: the loaded dictionaries are not left alone.
ListRowsAll ==
  /\ ld.step = "scan" /\ ld.todo = {}
  /\ ld' = [ld EXCEPT !.step = "orphans",
                      !.todo = {f \in Files : db[f] # NoRow /\ db[f].enabled}]
  /\ UNCHANGED <<disk, mdd, db, dicts, index, lock, req, up, history>>

\* disableOrphans lists the rows and leaves the loaded dictionaries alone.
ListRows ==
  /\ ld.step = "scan" /\ ld.todo = {}
  /\ ld' = [ld EXCEPT !.step = "orphans", !.todo =
              {f \in Files : db[f] # NoRow /\ db[f].enabled /\ ~IsLoaded(f)}]
  /\ UNCHANGED <<disk, mdd, db, dicts, index, lock, req, up, history>>

\* The list fails: LoadAll logs it and goes on to the index.
ListFails ==
  /\ ld.step = "scan" /\ ld.todo = {} /\ Fault
  /\ ld' = [ld EXCEPT !.step = "orphans"]
  /\ UNCHANGED <<disk, mdd, db, dicts, index, lock, req, up, writes, crashes>>

OrphanStat(f) ==
  /\ ld.step = "orphans" /\ f \in ld.todo
  /\ ld' = [ld EXCEPT !.todo = @ \ {f}, !.file = f,
                      !.step = IF disk[f] = 0 THEN "disable" ELSE "orphans"]
  /\ UNCHANGED <<disk, mdd, db, dicts, index, lock, req, up, history>>

SetRowEnabled(f, on) ==
  db' = [db EXCEPT ![f] = IF @ = NoRow THEN NoRow
                                       ELSE [@ EXCEPT !.enabled = on]]

OrphanDisable ==
  /\ ld.step = "disable"
  /\ \/ SetRowEnabled(ld.file, FALSE) /\ UNCHANGED faults
     \/ Fault /\ UNCHANGED db
  /\ ld' = [ld EXCEPT !.step = "orphans"]
  /\ UNCHANGED <<disk, mdd, dicts, index, lock, req, up, writes, crashes>>

\* Faulty variant: the index is not rebuilt.
LeaveLoadAllNoIndex ==
  /\ ld.step = "orphans" /\ ld.todo = {}
  /\ Return(lock, Resume(lock))
  /\ UNCHANGED <<disk, mdd, db, dicts, index, history>>

LeaveLoadAll ==
  /\ ld.step = "orphans" /\ ld.todo = {}
  /\ index' = LiveWords(dicts)
  /\ Return(lock, Resume(lock))
  /\ UNCHANGED <<disk, mdd, db, dicts, history>>

Boot ==
  /\ ~up /\ EnterLoadAll(Main)
  /\ UNCHANGED <<disk, mdd, db, dicts, index, req, up, history>>

-----------------------------------------------------------------------------
(* PATCH /dicts/:id/status                                                  *)

UpdateStatus(p) ==
  /\ "status" \in Requests /\ up /\ req[p] = Idle
  /\ \E f \in Files, on \in BOOLEAN :
       /\ db[f] # NoRow
       /\ req' = [req EXCEPT ![p] = [Idle EXCEPT !.pc = "set", !.file = f,
                                                 !.on = on]]
  /\ UNCHANGED <<disk, mdd, db, dicts, index, lock, ld, up, history>>

\* SetEnabled takes the lock; it loads a dictionary that is to be enabled and
\* is not in memory.
EnterSetEnabled(p) ==
  /\ req[p].pc = "set" /\ lock = Free
  /\ LET f == req[p].file
         load == ~IsLoaded(f) /\ req[p].on
     IN  \/ /\ ~load \/ db[f] # NoRow
            /\ lock' = p
            /\ Begin("SetEnabled", IF load THEN "stat" ELSE "status", f)
            /\ req' = [req EXCEPT ![p].pc = "engine"]
            /\ UNCHANGED faults
         \/ /\ load /\ \/ db[f] = NoRow /\ UNCHANGED faults
                       \/ Fault
            /\ req' = [req EXCEPT ![p] = Idle]
            /\ UNCHANGED <<lock, ld>>
  /\ UNCHANGED <<disk, mdd, db, dicts, index, up, writes, crashes>>

\* Faulty variant: the index is not rebuilt.
WriteStatusNoIndex ==
  /\ ld.step = "status"
  /\ LET f == ld.file
         on == req[lock].on
     IN  /\ SetRowEnabled(f, on)
         /\ dicts' = [dicts EXCEPT ![f] =
              IF @ = NotLoaded THEN @ ELSE [@ EXCEPT !.enabled = on]]
  /\ Return(lock, Idle)
  /\ UNCHANGED <<disk, mdd, index, history>>

\* The row, the memory, the index.
WriteStatus ==
  /\ ld.step = "status"
  /\ LET f == ld.file
         on == req[lock].on
     IN  /\ SetRowEnabled(f, on)
         /\ dicts' = [dicts EXCEPT ![f] =
              IF @ = NotLoaded THEN @ ELSE [@ EXCEPT !.enabled = on]]
  /\ index' = LiveWords(dicts')
  /\ Return(lock, Idle)
  /\ UNCHANGED <<disk, mdd, history>>

\* The row cannot be written: SetEnabled returns the error at once.
WriteStatusFails ==
  /\ ld.step = "status" /\ Fault
  /\ Return(lock, Idle)
  /\ UNCHANGED <<disk, mdd, db, dicts, index, writes, crashes>>

-----------------------------------------------------------------------------
(* PUT /dicts/:id/title                                                     *)

UpdateTitle(p) ==
  /\ "title" \in Requests /\ up /\ req[p] = Idle
  /\ \E f \in Files, t \in Titles :
       /\ db[f] # NoRow
       /\ req' = [req EXCEPT ![p] = [Idle EXCEPT !.pc = "title", !.file = f,
                                                 !.title = t]]
  /\ UNCHANGED <<disk, mdd, db, dicts, index, lock, ld, up, history>>

WriteTitle(p) ==
  /\ req[p].pc = "title"
  /\ \/ /\ db' = [db EXCEPT ![req[p].file] =
             IF @ = NoRow THEN NoRow ELSE [@ EXCEPT !.title = req[p].title]]
        /\ req' = [req EXCEPT ![p].pc = "settitle"]
        /\ UNCHANGED faults
     \/ /\ Fault
        /\ req' = [req EXCEPT ![p] = Idle]
        /\ UNCHANGED db
  /\ UNCHANGED <<disk, mdd, dicts, index, lock, ld, up, writes, crashes>>

SetTitle(p) ==
  /\ req[p].pc = "settitle" /\ lock = Free
  /\ dicts' = [dicts EXCEPT ![req[p].file] =
       IF @ = NotLoaded THEN @ ELSE [@ EXCEPT !.title = req[p].title]]
  /\ req' = [req EXCEPT ![p] = Idle]
  /\ UNCHANGED <<disk, mdd, db, index, lock, ld, up, history>>

-----------------------------------------------------------------------------
(* DELETE /dicts/:id                                                        *)

Delete(p) ==
  /\ "delete" \in Requests /\ up /\ req[p] = Idle
  /\ \E f \in Files :
       /\ db[f] # NoRow
       /\ req' = [req EXCEPT ![p] = [Idle EXCEPT !.pc = "unload", !.file = f,
                                                 !.hasMdd = db[f].mdd]]
  /\ UNCHANGED <<disk, mdd, db, dicts, index, lock, ld, up, history>>

Unload(p) ==
  /\ req[p].pc = "unload" /\ lock = Free
  /\ dicts' = [dicts EXCEPT ![req[p].file] = NotLoaded]
  /\ index' = LiveWords(dicts')
  /\ req' = [req EXCEPT ![p].pc = "rmmdx"]
  /\ UNCHANGED <<disk, mdd, db, lock, ld, up, history>>

\* A removal that fails is logged and the handler goes on.
RemoveMdx(p) ==
  /\ req[p].pc = "rmmdx"
  /\ \/ disk' = [disk EXCEPT ![req[p].file] = 0] /\ UNCHANGED faults
     \/ Fault /\ UNCHANGED disk
  /\ req' = [req EXCEPT ![p].pc = IF req[p].hasMdd THEN "rmmdd" ELSE "rmrow"]
  /\ UNCHANGED <<mdd, db, dicts, index, lock, ld, up, writes, crashes>>

RemoveMdd(p) ==
  /\ req[p].pc = "rmmdd"
  /\ \/ mdd' = [mdd EXCEPT ![req[p].file] = "none"] /\ UNCHANGED faults
     \/ Fault /\ UNCHANGED mdd
  /\ req' = [req EXCEPT ![p].pc = "rmrow"]
  /\ UNCHANGED <<disk, db, dicts, index, lock, ld, up, writes, crashes>>

DeleteRow(p) ==
  /\ req[p].pc = "rmrow"
  /\ \/ db' = [db EXCEPT ![req[p].file] = NoRow] /\ UNCHANGED faults
     \/ Fault /\ UNCHANGED db
  /\ req' = [req EXCEPT ![p] = Idle]
  /\ UNCHANGED <<disk, mdd, dicts, index, lock, ld, up, writes, crashes>>

-----------------------------------------------------------------------------
(* POST /dicts/upload: the parts of a form are received one by one, then    *)
(* one LoadAll serves all its .mdx and one Reload each of its .mdd.         *)

Upload(p) ==
  /\ "upload" \in Requests /\ up /\ req[p] = Idle
  /\ \E b \in Batches :
       req' = [req EXCEPT ![p] = [Idle EXCEPT !.pc = "recv", !.left = b]]
  /\ UNCHANGED <<disk, mdd, db, dicts, index, lock, ld, up, history>>

\* A part is refused: its .mdx is already in the table, or it cannot be
\* received (type, size, path or write error).
RefusePart(p) ==
  /\ req[p].pc = "recv"
  /\ \E part \in req[p].left : req' = [req EXCEPT ![p].left = @ \ {part}]
  /\ UNCHANGED <<disk, mdd, db, dicts, index, lock, ld, up, history>>

AcceptPart(p) ==
  /\ req[p].pc = "recv"
  /\ \E part \in req[p].left :
       /\ part[2] = "mdx" => db[part[1]] = NoRow
       /\ req' = [req EXCEPT ![p].pc = "save", ![p].file = part[1],
                              ![p].part = part[2], ![p].left = @ \ {part}]
  /\ UNCHANGED <<disk, mdd, db, dicts, index, lock, ld, up, history>>

\* The received temporary file is renamed over the destination.
SavePart(p) ==
  /\ req[p].pc = "save"
  /\ LET f == req[p].file
     IN  \/ /\ req[p].part = "mdx" /\ writes < MaxVersion
            /\ writes' = writes + 1
            /\ disk' = [disk EXCEPT ![f] = writes']
            /\ UNCHANGED mdd
         \/ /\ req[p].part = "mdd"
            /\ \E kind \in MddKinds : mdd' = [mdd EXCEPT ![f] = kind]
            /\ UNCHANGED <<disk, writes>>
  /\ req' = [req EXCEPT ![p].pc = "recv",
                         ![p].saved = @ \cup {<<req[p].file, req[p].part>>}]
  /\ UNCHANGED <<db, dicts, index, lock, ld, up, faults, crashes>>

\* The file cannot be written or renamed.
SaveFails(p) ==
  /\ req[p].pc = "save"
  /\ req' = [req EXCEPT ![p].pc = "recv"]
  /\ UNCHANGED <<disk, mdd, db, dicts, index, lock, ld, up, history>>

SavedMdx(p) == {part \in req[p].saved : part[2] = "mdx"}

UploadLoadAll(p) ==
  /\ req[p].pc = "recv" /\ req[p].left = {} /\ SavedMdx(p) # {}
  /\ EnterLoadAll(p)
  /\ req' = [req EXCEPT ![p].pc = "engine", ![p].saved = @ \ SavedMdx(p)]
  /\ UNCHANGED <<disk, mdd, db, dicts, index, up, history>>

\* findDictIDByMdd: a .mdd whose dictionary is not in the table is skipped.
FindByMdd(p) ==
  /\ req[p].pc = "recv" /\ req[p].left = {} /\ SavedMdx(p) = {}
  /\ \E part \in req[p].saved :
       \/ /\ db[part[1]] # NoRow
          /\ req' = [req EXCEPT ![p].pc = "reload", ![p].file = part[1],
                                 ![p].saved = @ \ {part}]
          /\ UNCHANGED faults
       \/ /\ \/ db[part[1]] = NoRow /\ UNCHANGED faults
             \/ Fault
          /\ req' = [req EXCEPT ![p].saved = @ \ {part}]
  /\ UNCHANGED <<disk, mdd, db, dicts, index, lock, ld, up, writes, crashes>>

EnterReload(p) ==
  /\ req[p].pc = "reload" /\ lock = Free
  /\ \/ /\ db[req[p].file] # NoRow
        /\ lock' = p
        /\ Begin("Reload", "stat", req[p].file)
        /\ req' = [req EXCEPT ![p].pc = "engine"]
        /\ UNCHANGED faults
     \/ /\ \/ db[req[p].file] = NoRow /\ UNCHANGED faults
           \/ Fault
        /\ req' = [req EXCEPT ![p].pc = "recv"]
        /\ UNCHANGED <<lock, ld>>
  /\ UNCHANGED <<disk, mdd, db, dicts, index, up, writes, crashes>>

UploadDone(p) ==
  /\ req[p].pc = "recv" /\ req[p].left = {} /\ req[p].saved = {}
  /\ req' = [req EXCEPT ![p] = Idle]
  /\ UNCHANGED <<disk, mdd, db, dicts, index, lock, ld, up, history>>

-----------------------------------------------------------------------------
(* The environment.                                                         *)

\* The operator copies a file into the directory, or replaces one.
OperatorPuts(f) ==
  /\ OperatorEdits /\ writes < MaxVersion
  /\ writes' = writes + 1
  /\ disk' = [disk EXCEPT ![f] = writes']
  /\ UNCHANGED <<mdd, db, dicts, index, lock, ld, req, up, faults, crashes>>

OperatorRemoves(f) ==
  /\ OperatorEdits /\ disk[f] # 0
  /\ disk' = [disk EXCEPT ![f] = 0]
  /\ UNCHANGED <<mdd, db, dicts, index, lock, ld, req, up, history>>

\* The process dies; the directory and the database stay as they are.
Crash ==
  /\ crashes < MaxCrashes
  /\ crashes' = crashes + 1
  /\ dicts' = [f \in Files |-> NotLoaded]
  /\ index' = {}
  /\ lock' = Free
  /\ ld' = NoLoad
  /\ req' = [p \in Handlers |-> Idle]
  /\ up' = FALSE
  /\ UNCHANGED <<disk, mdd, db, writes, faults>>

-----------------------------------------------------------------------------
\* A step of the method that holds the lock.
EngineStep ==
  \/ \E f \in Files : ScanSkip(f) \/ ScanLoad(f) \/ OrphanStat(f)
  \/ LoadStat \/ LoadParse \/ LoadMdd \/ LoadExists \/ LoadGet
  \/ LoadUpdate \/ LoadCreate \/ LoadFails
  \/ ListRows \/ ListFails \/ OrphanDisable \/ LeaveLoadAll
  \/ WriteStatus \/ WriteStatusFails

\* A step of handler p outside the lock.
HandlerStep(p) ==
  \/ WriteTitle(p) \/ RemoveMdx(p) \/ RemoveMdd(p) \/ DeleteRow(p)
  \/ RefusePart(p) \/ AcceptPart(p) \/ SavePart(p) \/ SaveFails(p)
  \/ FindByMdd(p) \/ UploadDone(p)

\* Handler p takes the lock.
LockStep(p) ==
  EnterSetEnabled(p) \/ SetTitle(p) \/ Unload(p) \/ UploadLoadAll(p)
    \/ EnterReload(p)

Arrive(p) == UpdateStatus(p) \/ UpdateTitle(p) \/ Delete(p) \/ Upload(p)

Next ==
  \/ Boot \/ EngineStep \/ Crash
  \/ \E p \in Handlers : Arrive(p) \/ HandlerStep(p) \/ LockStep(p)
  \/ \E f \in Files : OperatorPuts(f) \/ OperatorRemoves(f)

Spec == Init /\ [][Next]_vars

\* Running goroutines are scheduled; sync.RWMutex gives every waiter its turn.
Fairness ==
  /\ WF_vars(Boot)
  /\ WF_vars(EngineStep)
  /\ \A p \in Handlers : WF_vars(HandlerStep(p)) /\ SF_vars(LockStep(p))

LiveSpec == Spec /\ Fairness

-----------------------------------------------------------------------------
\* Types of the tables, of the locals and of the lock.
TypeOK ==
  /\ disk \in [Files -> 0..MaxVersion]
  /\ mdd \in [Files -> {"none", "good", "bad"}]
  /\ db \in [Files -> Row \cup {NoRow}]
  /\ dicts \in [Files -> LoadedDict \cup {NotLoaded}]
  /\ lock \in Procs \cup {Free}
  /\ ld \in Locals
  /\ req \in [Handlers -> Request]
  /\ up \in BOOLEAN
  /\ writes \in Versions /\ faults \in 0..MaxFaults /\ crashes \in 0..MaxCrashes

\* A dictionary in memory is enabled exactly when its row says so, whatever
\* loads, deletions, failures and crashes went before ("keeps the persisted
\* state and search indexes in sync", engine.go:544).
EnabledInSync ==
  \A f \in Files : IsLoaded(f) /\ db[f] # NoRow
                     => dicts[f].enabled = db[f].enabled

\* LoadAll skips a dictionary only when the memory holds the very content of
\* the file: a replacement that arrives while the old file is being parsed is
\* never taken for the version already loaded (engine.go:99).
SkipIsSafe ==
  \A f \in Files : UpToDate(f) => dicts[f].content = disk[f]

\* Every suggestion FuzzySearch can offer is answered by Search: the global
\* index holds no word of an unloaded, disabled or replaced dictionary.
SuggestionsResolve ==
  lock = Free => \A word \in index : SearchHits(word) # {}

\* Every headword of an enabled dictionary is suggested, as long as no
\* database call failed.
NoWordMissing ==
  lock = Free /\ faults = 0 => LiveWords(dicts) \subseteq index

\* Two loads never race for the same row: the filename loadDict found free
\* stays free until it inserts it.
CreateNeverConflicts == ld.step = "create" => db[ld.file] = NoRow

\* A dictionary leaves the memory only when a DELETE unloads it or the process
\* dies; a failed reload keeps the old one (engine.go:298).
OnlyDeleteUnloads ==
  [][\A f \in Files : IsLoaded(f) /\ ~IsLoaded(f)'
       => \/ \E p \in Handlers : req[p].pc = "unload" /\ req[p].file = f
          \/ crashes' = crashes + 1]_vars

\* A disabled row is enabled only by a request that asks for it: loads,
\* reloads, restarts and orphan checks carry the flag over.
DisabledSticks ==
  [][\A f \in Files : db[f] # NoRow /\ db'[f] # NoRow /\ ~db[f].enabled
       => \/ ~db'[f].enabled
          \/ /\ lock \in Handlers
             /\ req[lock].on /\ req[lock].file = f]_vars

\* No request is left waiting: each gives its answer or dies with the process.
RequestsFinish == \A p \in Handlers : req[p].pc # "idle" ~> req[p].pc = "idle"

\* The server comes up after every start.
ServerComesUp == ~up ~> up

\* Titles and stamps are nothing to a search, which waits for the lock.
Shelf(d) == [f \in Files |-> IF d[f] = NotLoaded THEN NotLoaded
                              ELSE [enabled |-> d[f].enabled,
                                    content |-> d[f].content]]

Readers == INSTANCE Catalogue WITH
  shelf <- Shelf(dicts), suggested <- index, busy <- lock # Free

\* Who searches finds what Catalogue promises: whatever the steps of a method,
\* its failures and the requests beside it, each method is one change of the
\* shelf and the suggestions together, or none ("Keep the old dictionary
\* available if loading the replacement fails", engine.go:298).
ImplementsCatalogue == Readers!Spec

-----------------------------------------------------------------------------
(* The parts of the inductive invariant the proofs use.                     *)

\* The lock, the method it protects and the handler that called the method.
LockInv ==
  /\ lock = Free <=> ld.step = "idle"
  /\ ld.call = "none" <=> ld.step = "idle"
  /\ ld.call \in {"Reload", "SetEnabled"} => lock \in Handlers
  /\ ld.step \in {"scan", "orphans", "disable"} => ld.call = "LoadAll"
  /\ ld.step = "status" => ld.call = "SetEnabled"
  /\ lock \in Handlers => req[lock].pc = "engine"
  /\ ld.call = "SetEnabled" => req[lock].file = ld.file

\* loadDict has a local's value by the step that uses it.
LocalsInv ==
  /\ ld.step \in {"parse", "mdd", "exists", "get", "update", "create"}
       => ld.stamp \in 1..writes
  /\ ld.step \in {"mdd", "exists", "get", "update", "create"}
       => ld.content \in ld.stamp..writes
  /\ ld.step = "update" => ld.row \in Row

\* The row loadDict read still has the flag it writes back; the dictionaries
\* about to be disabled as orphans are not in memory.
FlagInv ==
  /\ ld.step = "update" /\ db[ld.file] # NoRow
       => ld.row.enabled = db[ld.file].enabled
  /\ ld.step \in {"orphans", "disable"} => \A f \in ld.todo : ~IsLoaded(f)
  /\ ld.step = "disable" => ~IsLoaded(ld.file)

\* A dictionary was stamped before it was read, and a file only gets newer.
StampInv ==
  /\ \A f \in Files : disk[f] <= writes
  /\ \A f \in Files : IsLoaded(f) =>
       /\ dicts[f].stamp <= dicts[f].content
       /\ dicts[f].content <= writes
       /\ disk[f] # 0 => dicts[f].content <= disk[f]
  /\ ld.step = "parse" /\ disk[ld.file] # 0 => ld.stamp <= disk[ld.file]
  /\ ld.step \in {"mdd", "exists", "get", "update", "create"}
       => (disk[ld.file] # 0 => ld.content <= disk[ld.file])

\* The memory changes under the index only while LoadAll runs, and while
\* SetEnabled has loaded a dictionary it has not yet indexed.
IndexInv ==
  /\ ld.call # "LoadAll" => index \subseteq LiveWords(dicts)
  /\ ld.call # "LoadAll" /\ ld.step # "status" /\ faults = 0
       => LiveWords(dicts) \subseteq index
  /\ ld.call = "SetEnabled" /\ ld.step # "status" => ~IsLoaded(ld.file)

\* What loadDict is about to install has the flag and at least the version of
\* the dictionary it replaces.
FreshInv ==
  /\ ld.step = "update" /\ IsLoaded(ld.file)
       => ld.row.enabled = dicts[ld.file].enabled
  /\ ld.step \in {"mdd", "exists", "get", "update", "create"}
       /\ IsLoaded(ld.file)
       => dicts[ld.file].content <= ld.content

-----------------------------------------------------------------------------
(* What holds when requests come one after the other.                       *)

Quiet == up /\ lock = Free /\ \A p \in Handlers : req[p] = Idle

\* Between two requests every dictionary in memory has its row, and both agree
\* on the flag, the title and the presence of resources.
MemoryMatchesRows ==
  Quiet => \A f \in Files : IsLoaded(f) =>
    /\ db[f] # NoRow
    /\ dicts[f].enabled = db[f].enabled
    /\ dicts[f].title = db[f].title
    /\ dicts[f].mdd = db[f].mdd

\* A load keeps the title an administrator gave: only UpdateTitle changes the
\* title of a row ("Users can change it later in the admin UI", engine.go:205).
LoaderKeepsTitle ==
  [][\A f \in Files : db[f] # NoRow /\ db'[f] # NoRow
        /\ db[f].title # db'[f].title
       => \E p \in Handlers : req[p].pc = "title" /\ req[p].file = f]_vars
=============================================================================
