----------------------- MODULE DictEngineRowsProofs ------------------------
(***************************************************************************)
(* How the memory and the table agree while no request overtakes another   *)
(* that reads and writes the same row: because requests come one after the *)
(* other, or because they are uploads and changes of status, which touch a *)
(* row only under the lock.                                                *)
(***************************************************************************)
EXTENDS DictEngineProofs

\* Requests are handled one after the other.
OneRequest == \A p, q \in Handlers : p = q

\* A title is in the table, and about to be set in memory.
TitleSet(f) == \E p \in Handlers : req[p].pc = "settitle" /\ req[p].file = f

\* A dictionary in memory has a row that says the same of its resources and, but
\* for a title about to be set, of its title.
RowsInv ==
  \A f \in Files : IsLoaded(f) =>
    /\ db[f] # NoRow
    /\ dicts[f].mdd = db[f].mdd
    /\ TitleSet(f) \/ dicts[f].title = db[f].title

\* The request and the engine wait for each other; what DELETE and a change of
\* title rely on is still so.
OneInv ==
  /\ lock = Main => ~up
  /\ lock = Free \/ \A p \in Handlers : req[p].pc \in {"idle", "engine"}
  /\ ld.step = "update" => db[ld.file] = ld.row
  /\ \A p \in Handlers :
       /\ req[p].pc # "idle" => up
       /\ req[p].pc \in {"rmmdx", "rmmdd", "rmrow"} => ~IsLoaded(req[p].file)
       /\ req[p].pc = "settitle" /\ IsLoaded(req[p].file) =>
            db[req[p].file].title = req[p].title

Together == IInv /\ OneInv /\ RowsInv

\* A handler without a request is idle.
LEMMA IdlePc == Idle.pc = "idle"
BY DEF Idle

-----------------------------------------------------------------------------
(* The engine.                                                              *)

\* While a method runs no title waits to be set.
LEMMA NoTitleSet ==
  ASSUME OneInv, lock # Free, NEW f \in Files
  PROVE  ~TitleSet(f)
BY DEF OneInv, TitleSet

\* A method that returns lets its handler go on where nothing is promised.
LEMMA Returned ==
  ASSUME OneRequest, Together, lock # Free, NEW r, r.pc \in {"idle", "recv"},
         Return(lock, r)
  PROVE  /\ lock' = Free /\ ld'.step = "idle"
         /\ \A p \in Handlers : /\ req'[p].pc \in {"idle", "engine", "recv"}
                                /\ req'[p].pc # "idle" => up'
<1>1. lock' = Free /\ ld'.step = "idle"
  BY StepAfter DEF Return
<1>2. CASE lock = Main
  BY <1>1, <1>2 DEF Return, Together, OneInv
<1>3. CASE lock # Main
  <2>1. lock \in Handlers /\ UNCHANGED up /\ req' = [req EXCEPT ![lock] = r]
    BY <1>3 DEF Return, Together, IInv, TypeOK, Procs
  <2>2. up
    BY <2>1 DEF Together, IInv, LockInv, OneInv
  <2>3. \A p \in Handlers : req'[p] = r
    BY <2>1 DEF OneRequest, Together, IInv, TypeOK
  <2>. QED
    BY <1>1, <2>1, <2>2, <2>3
<1>. QED
  BY <1>1, <1>2, <1>3

\* A handler whose load ended has finished or takes the next part.
LEMMA Resumed ==
  ASSUME Together, lock \in Handlers
  PROVE  Resume(lock).pc \in {"idle", "recv"}
BY IdlePc DEF Resume, Together, IInv, TypeOK, Request

\* A step that leaves rows and memory alone, and its requests where nothing is
\* promised.
LEMMA Frame ==
  ASSUME Together, UNCHANGED <<db, dicts>>,
         \A f \in Files : ~TitleSet(f),
         \A p \in Handlers :
           req'[p].pc \notin {"rmmdx", "rmmdd", "rmrow", "settitle"}
  PROVE  /\ RowsInv'
         /\ \A p \in Handlers :
              /\ req'[p].pc \in {"rmmdx", "rmmdd", "rmrow"} =>
                   ~IsLoaded(req[p].file)'
              /\ req'[p].pc = "settitle" /\ IsLoaded(req[p].file)' =>
                   db'[req'[p].file].title = req'[p].title
BY DEF Together, RowsInv, TitleSet, IsLoaded

\* Writing a flag changes neither the title nor the resources of a row.
LEMMA FlagWritten ==
  ASSUME TypeOK, NEW f \in Files, NEW on \in BOOLEAN, SetRowEnabled(f, on)
  PROVE  \A g \in Files : db[g] # NoRow =>
           /\ db'[g] # NoRow
           /\ db'[g].mdd = db[g].mdd /\ db'[g].title = db[g].title
<1> DEFINE r == IF db[f] = NoRow THEN NoRow ELSE [db[f] EXCEPT !.enabled = on]
<1>1. db[f] # NoRow =>
        /\ r # NoRow
        /\ r.mdd = db[f].mdd /\ r.title = db[f].title
  <2> HAVE db[f] # NoRow
  <2>1. db[f] \in Row
    BY DEF TypeOK
  <2>2. [db[f] EXCEPT !.enabled = on] \in Row
    BY <2>1 DEF Row
  <2>. QED
    BY <2>1, <2>2, NullsAssumption DEF Row
<1>2. db' = [db EXCEPT ![f] = r]
  BY DEF SetRowEnabled
<1> HIDE DEF r
<1>. QED
  BY <1>1, <1>2 DEF TypeOK

\* loadDict installs what it writes to the table.
LEMMA LoadStep ==
  ASSUME OneRequest, Together, LoadUpdate \/ LoadCreate
  PROVE  OneInv' /\ RowsInv'
<1>1. /\ lock # Free /\ ld.file \in Files /\ ld.mdd \in BOOLEAN
      /\ ld.content \in Versions /\ ld.stamp \in Versions
  BY BoundsAssumption
     DEF Together, IInv, LockInv, LoadUpdate, LoadCreate, TypeOK, Locals,
         LocalsInv, Versions
<1>2. PICK info \in Row : Install(info) /\ db' = [db EXCEPT ![ld.file] = info]
                          /\ UNCHANGED <<disk, mdd, history>>
  <2>1. CASE LoadUpdate
    <3> DEFINE info == [ld.row EXCEPT !.mdd = ld.mdd]
    <3>1. ld.row \in Row /\ db[ld.file] = ld.row
      BY <2>1 DEF LoadUpdate, Together, IInv, LocalsInv, OneInv
    <3>2. info \in Row /\ db[ld.file] # NoRow
      BY <1>1, <3>1, NullsAssumption DEF Row
    <3>3. Install(info) /\ db' = [db EXCEPT ![ld.file] = info]
          /\ UNCHANGED <<disk, mdd, history>>
      BY <2>1, <3>2 DEF LoadUpdate
    <3>. QED
      BY <3>2, <3>3
  <2>2. CASE LoadCreate
    <3>1. [enabled |-> TRUE, title |-> DefaultTitle, mdd |-> ld.mdd] \in Row
      BY <1>1, TitlesAssumption DEF Row
    <3>. QED
      BY <2>2, <3>1 DEF LoadCreate
  <2>. QED
    BY <2>1, <2>2
<1> DEFINE d == [enabled |-> info.enabled, title |-> info.title,
                 mdd |-> info.mdd, content |-> ld.content, stamp |-> ld.stamp]
<1>3. dicts' = [dicts EXCEPT ![ld.file] = d]
  BY <1>2 DEF Install
<1>4. d.title = info.title /\ d.mdd = info.mdd
  OBVIOUS
<1> HIDE DEF d
<1>5. /\ \A p \in Handlers : req'[p].pc \in {"idle", "engine", "recv"}
      /\ \A p \in Handlers : req'[p].pc # "idle" => up'
      /\ ld'.step # "update" /\ (lock' = Main => ~up')
      /\ lock' = Free \/ \A p \in Handlers : req'[p].pc \in {"idle", "engine"}
  <2>1. CASE ld.call = "LoadAll"
    <3>1. UNCHANGED <<lock, req, up>> /\ ld'.step = "scan"
      BY <1>2, <2>1, StepAfter DEF Install
    <3>. QED
      BY <1>1, <3>1 DEF Together, OneInv
  <2>2. CASE ld.call = "Reload"
    <3>1. lock \in Handlers /\ Return(lock, Resume(lock))
      BY <1>2, <2>2 DEF Install, Together, IInv, LockInv
    <3>. QED
      BY <1>1, <3>1, Returned, Resumed, ProcsAssumption DEF Procs
  <2>3. CASE ld.call = "SetEnabled"
    <3>1. UNCHANGED <<lock, req, up>> /\ ld' = [ld EXCEPT !.step = "status"]
      BY <1>2, <2>3 DEF Install
    <3>2. ld'.step = "status"
      BY <3>1 DEF Together, IInv, TypeOK, Locals
    <3>. QED
      BY <1>1, <3>1, <3>2 DEF Together, OneInv
  <2>. QED
    BY <1>2, <2>1, <2>2, <2>3 DEF Install
<1>6. RowsInv'
  <2> SUFFICES ASSUME NEW f \in Files, IsLoaded(f)'
               PROVE  db'[f] # NoRow /\ dicts'[f].mdd = db'[f].mdd
                      /\ dicts'[f].title = db'[f].title
    BY DEF RowsInv
  <2>1. CASE f = ld.file
    BY <1>1, <1>2, <1>3, <1>4, <2>1, NullsAssumption
       DEF Together, IInv, TypeOK
  <2>2. CASE f # ld.file
    BY <1>1, <1>2, <1>3, <2>2, NoTitleSet
       DEF Together, RowsInv, IsLoaded, IInv, TypeOK
  <2>. QED
    BY <2>1, <2>2
<1>7. OneInv'
  BY <1>5 DEF OneInv
<1>. QED
  BY <1>6, <1>7

\* The steps of the method that holds the lock.
LEMMA EngineRowsStep ==
  ASSUME OneRequest, Together, EngineStep
  PROVE  OneInv' /\ RowsInv'
<1>1. lock # Free /\ \A f \in Files : ~TitleSet(f)
  <2>1. lock # Free
    BY EngineStepsHoldLock DEF Together, IInv, LockInv
  <2>. QED
    BY <2>1, NoTitleSet DEF Together
<1>2. \A p \in Handlers : req[p].pc \in {"idle", "engine"}
  BY <1>1 DEF Together, OneInv
<1>3. CASE LoadGet
  BY <1>1, <1>2, <1>3, Frame
     DEF LoadGet, Together, OneInv, IInv, TypeOK, Locals
<1>4. CASE LoadStat \/ LoadParse \/ LoadMdd \/ LoadExists \/ ListRows
             \/ ListFails
  <2>1. UNCHANGED <<db, dicts, lock, req, up>> /\ ld'.step # "update"
    BY <1>4 DEF LoadStat, LoadParse, LoadMdd, LoadExists, ListRows, ListFails,
                Together, IInv, TypeOK, Locals
  <2>. QED
    BY <1>1, <1>2, <2>1, Frame DEF Together, OneInv
<1>5. CASE \E f \in Files : ScanSkip(f) \/ ScanLoad(f) \/ OrphanStat(f)
  <2>1. UNCHANGED <<db, dicts, lock, req, up>> /\ ld'.step # "update"
    BY <1>5 DEF ScanSkip, ScanLoad, OrphanStat, Together, IInv, TypeOK, Locals
  <2>. QED
    BY <1>1, <1>2, <2>1, Frame DEF Together, OneInv
<1>6. CASE LoadUpdate \/ LoadCreate
  BY <1>6, LoadStep
<1>7. ASSUME UNCHANGED <<db, dicts>>, NEW r, r.pc \in {"idle", "recv"},
             Return(lock, r)
      PROVE  OneInv' /\ RowsInv'
  BY <1>1, <1>7, Returned, Frame, ProcsAssumption DEF OneInv, Procs
<1>8. CASE LoadFails
  <2>1. CASE ld.call = "LoadAll"
    <3>1. UNCHANGED <<db, dicts, lock, req, up>> /\ ld'.step # "update"
      BY <1>8, <2>1, StepAfter DEF LoadFails
    <3>. QED
      BY <1>1, <1>2, <3>1, Frame DEF Together, OneInv
  <2>2. CASE ld.call # "LoadAll"
    <3>1. lock \in Handlers
      BY <2>2, <1>8, EngineStepsHoldLock
         DEF Together, IInv, LockInv, TypeOK, Locals, Calls
    <3>. QED
      BY <1>7, <1>8, <2>2, <3>1, Resumed DEF LoadFails
  <2>. QED
    BY <2>1, <2>2
<1>9. CASE LeaveLoadAll
  <2>1. CASE lock \in Handlers
    BY <1>7, <1>9, <2>1, Resumed DEF LeaveLoadAll
  <2>2. CASE lock = Main
    <3>1. /\ lock' = Free /\ ld'.step = "idle" /\ up'
          /\ UNCHANGED <<db, dicts, req>>
      BY <1>9, <2>2, StepAfter DEF LeaveLoadAll, Return
    <3>. QED
      BY <1>1, <1>2, <3>1, Frame, ProcsAssumption DEF Together, OneInv, Procs
  <2>. QED
    BY <1>1, <2>1, <2>2 DEF Together, IInv, TypeOK, Procs
<1>10. CASE WriteStatusFails
  BY <1>7, <1>10, IdlePc DEF WriteStatusFails
<1>11. CASE OrphanDisable
  <2>1. /\ UNCHANGED <<dicts, lock, req, up>>
        /\ ld'.step # "update" /\ ld.file \in Files
        /\ (SetRowEnabled(ld.file, FALSE) \/ UNCHANGED db)
    BY <1>11 DEF OrphanDisable, Together, IInv, TypeOK, Locals
  <2>2. \A f \in Files : db[f] # NoRow =>
          /\ db'[f] # NoRow
          /\ db'[f].mdd = db[f].mdd /\ db'[f].title = db[f].title
    BY <2>1, FlagWritten DEF Together, IInv
  <2>3. RowsInv'
    BY <1>1, <2>1, <2>2 DEF Together, RowsInv, IsLoaded, TitleSet
  <2>4. OneInv'
    BY <1>1, <1>2, <2>1 DEF Together, OneInv
  <2>. QED
    BY <2>3, <2>4
<1>12. CASE WriteStatus
  <2> DEFINE on == req[lock].on
  <2>1. /\ lock \in Handlers /\ ld.file \in Files /\ on \in BOOLEAN
        /\ Return(lock, Idle) /\ SetRowEnabled(ld.file, on)
        /\ dicts' = [dicts EXCEPT ![ld.file] =
                       IF @ = NotLoaded THEN @ ELSE [@ EXCEPT !.enabled = on]]
    BY <1>12 DEF WriteStatus, Together, IInv, LockInv, TypeOK, Locals, Request
  <2>2. \A f \in Files : db[f] # NoRow =>
          /\ db'[f] # NoRow
          /\ db'[f].mdd = db[f].mdd /\ db'[f].title = db[f].title
    BY <2>1, FlagWritten DEF Together, IInv
  <2>3. \A f \in Files : IsLoaded(f)' =>
          /\ IsLoaded(f)
          /\ dicts'[f].mdd = dicts[f].mdd /\ dicts'[f].title = dicts[f].title
    <3> DEFINE g == ld.file
               d == IF dicts[g] = NotLoaded THEN NotLoaded
                                     ELSE [dicts[g] EXCEPT !.enabled = on]
    <3>1. dicts[g] # NotLoaded =>
            d.mdd = dicts[g].mdd /\ d.title = dicts[g].title
      BY <2>1 DEF Together, IInv, TypeOK, LoadedDict
    <3>2. dicts[g] = NotLoaded => d = NotLoaded
      OBVIOUS
    <3>3. dicts' = [dicts EXCEPT ![g] = d]
      BY <2>1
    <3> HIDE DEF d, g
    <3>. QED
      BY <3>1, <3>2, <3>3 DEF IsLoaded, Together, IInv, TypeOK
  <2>4. RowsInv'
    BY <1>1, <2>2, <2>3 DEF Together, RowsInv
  <2>5. OneInv'
    BY <1>1, <2>1, Returned, IdlePc, ProcsAssumption DEF Together, OneInv, Procs
  <2>. QED
    BY <2>4, <2>5
<1>. QED
  BY <1>3, <1>4, <1>5, <1>6, <1>8, <1>9, <1>10, <1>11, <1>12 DEF EngineStep

-----------------------------------------------------------------------------
(* The request.                                                             *)

\* A request that begins, or goes on outside the engine, finds the lock free and
\* is the only one.
LEMMA Alone ==
  ASSUME OneRequest, Together, NEW p \in Handlers,
         Arrive(p) \/ HandlerStep(p) \/ LockStep(p)
  PROVE  /\ lock = Free /\ ld.step = "idle" /\ up
         /\ \A q \in Handlers : q = p
<1>1. /\ req[p].pc # "engine" /\ up
      /\ req[p].pc # "idle" \/ Arrive(p)
  <2>1. CASE Arrive(p)
    BY <2>1, IdlePc DEF Arrive, UpdateStatus, UpdateTitle, Delete, Upload
  <2>2. CASE HandlerStep(p)
    BY <2>2 DEF HandlerStep, WriteTitle, RemoveMdx, RemoveMdd, DeleteRow,
                RefusePart, AcceptPart, SavePart, SaveFails, FindByMdd,
                UploadDone, Together, OneInv
  <2>3. CASE LockStep(p)
    BY <2>3 DEF LockStep, EnterSetEnabled, SetTitle, Unload, UploadLoadAll,
                EnterReload, Together, OneInv
  <2>. QED
    BY <2>1, <2>2, <2>3
<1>2. lock # Main /\ lock \notin Handlers
  BY <1>1 DEF Together, IInv, LockInv, OneInv, OneRequest
<1>. QED
  BY <1>1, <1>2 DEF Together, IInv, LockInv, TypeOK, Procs, OneRequest

\* A step of the request that leaves the rows and the memory alone.
LEMMA QuietStep ==
  ASSUME OneRequest, Together, NEW p \in Handlers,
         Arrive(p) \/ HandlerStep(p) \/ LockStep(p),
         UNCHANGED <<db, dicts, up>>, lock' \in {lock, p},
         lock' # lock => req'[p].pc = "engine" /\ ld'.step # "update",
         lock' = lock => UNCHANGED ld,
         req[p].pc # "settitle",
         req'[p].pc # "settitle",
         req'[p].pc \in {"rmmdx", "rmmdd", "rmrow"} =>
           ~IsLoaded(req'[p].file)
  PROVE  OneInv' /\ RowsInv'
<1>1. /\ lock = Free /\ ld.step = "idle" /\ up
      /\ \A q \in Handlers : q = p
  BY Alone
<1>2. RowsInv'
  BY <1>1 DEF Together, RowsInv, TitleSet, IsLoaded
<1>3. OneInv'
  BY <1>1, ProcsAssumption DEF OneInv, Procs, IsLoaded
<1>. QED
  BY <1>2, <1>3

\* The steps of the only request.
LEMMA RequestStep ==
  ASSUME OneRequest, Together, NEW p \in Handlers,
         Arrive(p) \/ HandlerStep(p) \/ LockStep(p)
  PROVE  OneInv' /\ RowsInv'
<1>1. /\ lock = Free /\ ld.step = "idle" /\ up
      /\ \A q \in Handlers : q = p
  BY Alone
<1>2. req[p] \in Request /\ req[p].file \in Files
  BY DEF Together, IInv, TypeOK, Request
<1>3. CASE Arrive(p)
  <2>1. UNCHANGED <<db, dicts, up, lock, ld>> /\ req[p].pc = "idle"
    BY <1>3, IdlePc DEF Arrive, UpdateStatus, UpdateTitle, Delete, Upload
  <2>2. req'[p].pc \in {"set", "title", "unload", "recv"}
    <3>1. CASE UpdateStatus(p)
      BY <3>1, IdleType DEF UpdateStatus, Together, IInv, TypeOK, Request
    <3>2. CASE UpdateTitle(p)
      BY <3>2, IdleType DEF UpdateTitle, Together, IInv, TypeOK, Request
    <3>3. CASE Delete(p)
      BY <3>3, IdleType DEF Delete, Together, IInv, TypeOK, Request
    <3>4. CASE Upload(p)
      BY <3>4, IdleType DEF Upload, Together, IInv, TypeOK, Request
    <3>. QED
      BY <1>3, <3>1, <3>2, <3>3, <3>4 DEF Arrive
  <2>. QED
    BY <1>1, <1>3, <2>1, <2>2, QuietStep
<1>4. CASE RefusePart(p) \/ AcceptPart(p) \/ SavePart(p) \/ SaveFails(p)
             \/ FindByMdd(p) \/ UploadDone(p)
  <2>1. UNCHANGED <<db, dicts, up, lock, ld>> /\ req[p].pc \in {"recv", "save"}
    BY <1>4 DEF RefusePart, AcceptPart, SavePart, SaveFails, FindByMdd,
                UploadDone
  <2>2. req'[p].pc \in {"recv", "save", "reload", "idle"}
    <3>1. CASE RefusePart(p)
      BY <1>2, <3>1 DEF RefusePart, Together, IInv, TypeOK, Request
    <3>2. CASE AcceptPart(p)
      BY <1>2, <3>2 DEF AcceptPart, Together, IInv, TypeOK, Request
    <3>3. CASE SavePart(p) \/ SaveFails(p)
      BY <1>2, <3>3 DEF SavePart, SaveFails, Together, IInv, TypeOK, Request
    <3>4. CASE FindByMdd(p)
      BY <1>2, <3>4 DEF FindByMdd, Together, IInv, TypeOK, Request
    <3>5. CASE UploadDone(p)
      BY <3>5, IdlePc DEF UploadDone, Together, IInv, TypeOK
    <3>. QED
      BY <1>4, <3>1, <3>2, <3>3, <3>4, <3>5
  <2>3. HandlerStep(p)
    BY <1>4 DEF HandlerStep
  <2>. QED
    BY <1>1, <2>1, <2>2, <2>3, QuietStep
<1>5. CASE RemoveMdx(p) \/ RemoveMdd(p)
  <2>1. /\ UNCHANGED <<db, dicts, up, lock, ld>>
        /\ req[p].pc \in {"rmmdx", "rmmdd"}
    BY <1>5 DEF RemoveMdx, RemoveMdd
  <2>2. req'[p].pc \in {"rmmdd", "rmrow"} /\ req'[p].file = req[p].file
    BY <1>2, <1>5 DEF RemoveMdx, RemoveMdd, Together, IInv, TypeOK, Request
  <2>3. ~IsLoaded(req[p].file)
    BY <2>1 DEF Together, OneInv
  <2>4. HandlerStep(p)
    BY <1>5 DEF HandlerStep
  <2>. QED
    BY <1>1, <2>1, <2>2, <2>3, <2>4, QuietStep
<1>6. CASE EnterSetEnabled(p) \/ EnterReload(p) \/ UploadLoadAll(p)
  <2>1. UNCHANGED <<db, dicts, up>> /\ req[p].pc \in {"set", "reload", "recv"}
    BY <1>6 DEF EnterSetEnabled, EnterReload, UploadLoadAll
  <2>2. \/ UNCHANGED <<lock, ld>> /\ req'[p].pc \in {"idle", "recv"}
        \/ lock' = p /\ req'[p].pc = "engine" /\ ld'.step # "update"
    <3>1. CASE EnterSetEnabled(p)
      <4>1. CASE /\ \/ Begin("SetEnabled", "stat", req[p].file)
                    \/ Begin("SetEnabled", "status", req[p].file)
                 /\ lock' = p /\ req' = [req EXCEPT ![p].pc = "engine"]
        <5>1. ld'.step \in {"stat", "status"}
          BY <4>1 DEF Begin, NoLoad
        <5>2. req'[p].pc = "engine"
          BY <1>2, <4>1 DEF Together, IInv, TypeOK, Request
        <5>. QED
          BY <4>1, <5>1, <5>2
      <4>2. CASE /\ UNCHANGED <<lock, ld>>
                 /\ req' = [req EXCEPT ![p] = Idle]
        BY <4>2, IdlePc DEF Together, IInv, TypeOK
      <4>. QED
        BY <3>1, <4>1, <4>2 DEF EnterSetEnabled
    <3>2. CASE EnterReload(p)
      <4>1. CASE /\ Begin("Reload", "stat", req[p].file)
                 /\ lock' = p /\ req' = [req EXCEPT ![p].pc = "engine"]
        <5>1. ld'.step = "stat"
          BY <4>1 DEF Begin, NoLoad
        <5>2. req'[p].pc = "engine"
          BY <1>2, <4>1 DEF Together, IInv, TypeOK, Request
        <5>. QED
          BY <4>1, <5>1, <5>2
      <4>2. CASE /\ UNCHANGED <<lock, ld>>
                 /\ req' = [req EXCEPT ![p].pc = "recv"]
        BY <1>2, <4>2 DEF Together, IInv, TypeOK, Request
      <4>. QED
        BY <3>2, <4>1, <4>2 DEF EnterReload
    <3>3. CASE UploadLoadAll(p)
      BY <1>2, <3>3
         DEF UploadLoadAll, EnterLoadAll, NoLoad, Together, IInv, TypeOK,
             Request
    <3>. QED
      BY <1>6, <3>1, <3>2, <3>3
  <2>3. LockStep(p)
    BY <1>6 DEF LockStep
  <2>. QED
    BY <1>1, <2>1, <2>2, <2>3, ProcsAssumption, QuietStep DEF Procs
<1>7. CASE WriteTitle(p)
  <2> DEFINE f == req[p].file
             t == req[p].title
             row == IF db[f] = NoRow THEN NoRow ELSE [db[f] EXCEPT !.title = t]
  <2>1. UNCHANGED <<dicts, up, lock, ld>> /\ req[p].pc = "title"
    BY <1>7 DEF WriteTitle
  <2>2. CASE UNCHANGED db /\ req' = [req EXCEPT ![p] = Idle]
    <3>1. req'[p].pc = "idle"
      BY <2>2, IdlePc DEF Together, IInv, TypeOK
    <3>2. HandlerStep(p)
      BY <1>7 DEF HandlerStep
    <3>. QED
      BY <1>1, <2>1, <2>2, <3>1, <3>2, QuietStep
  <2>3. CASE db' = [db EXCEPT ![f] = row]
             /\ req' = [req EXCEPT ![p].pc = "settitle"]
    <3>1. /\ req'[p].pc = "settitle"
          /\ req'[p].file = f /\ req'[p].title = t
      BY <1>2, <2>3 DEF Together, IInv, TypeOK, Request
    <3>2. db[f] # NoRow =>
            row # NoRow /\ row.mdd = db[f].mdd /\ row.title = t
      <4> HAVE db[f] # NoRow
      <4>1. db[f] \in Row /\ t \in Titles
        BY <1>2 DEF Together, IInv, TypeOK, Request
      <4>2. [db[f] EXCEPT !.title = t] \in Row
        BY <4>1 DEF Row
      <4>. QED
        BY <4>1, <4>2, NullsAssumption DEF Row
    <3> HIDE DEF row
    <3>3. RowsInv'
      <4> SUFFICES ASSUME NEW g \in Files, IsLoaded(g)'
                   PROVE  /\ db'[g] # NoRow /\ dicts'[g].mdd = db'[g].mdd
                          /\ TitleSet(g)' \/ dicts'[g].title = db'[g].title
        BY DEF RowsInv
      <4>1. /\ db[g] # NoRow /\ dicts[g].mdd = db[g].mdd
            /\ dicts[g].title = db[g].title
        BY <1>1, <2>1 DEF Together, RowsInv, TitleSet, IsLoaded
      <4>2. CASE g = f
        BY <1>2, <2>1, <2>3, <3>1, <3>2, <4>1, <4>2
           DEF TitleSet, Together, IInv, TypeOK
      <4>3. CASE g # f
        BY <1>2, <2>1, <2>3, <4>1, <4>3 DEF Together, IInv, TypeOK
      <4>. QED
        BY <4>2, <4>3
    <3>4. IsLoaded(f)' => db'[f].title = t
      BY <1>2, <2>1, <2>3, <3>2
         DEF Together, RowsInv, IsLoaded, IInv, TypeOK
    <3>5. OneInv'
      BY <1>1, <2>1, <3>1, <3>4, ProcsAssumption DEF OneInv, Procs
    <3>. QED
      BY <3>3, <3>5
  <2>. QED
    BY <1>7, <2>2, <2>3 DEF WriteTitle
<1>8. CASE SetTitle(p)
  <2> DEFINE f == req[p].file
             t == req[p].title
             d == IF dicts[f] = NotLoaded THEN NotLoaded
                                          ELSE [dicts[f] EXCEPT !.title = t]
  <2>1. /\ UNCHANGED <<db, up, lock, ld>> /\ req[p].pc = "settitle"
        /\ dicts' = [dicts EXCEPT ![f] = d] /\ req' = [req EXCEPT ![p] = Idle]
    BY <1>8 DEF SetTitle
  <2>2. req'[p].pc = "idle"
    BY <2>1, IdlePc DEF Together, IInv, TypeOK
  <2>3. /\ dicts[f] # NotLoaded => d.mdd = dicts[f].mdd /\ d.title = t
        /\ dicts[f] = NotLoaded => d = NotLoaded
    BY <1>2 DEF Together, IInv, TypeOK, LoadedDict
  <2> HIDE DEF d
  <2>4. RowsInv'
    <3> SUFFICES ASSUME NEW g \in Files, IsLoaded(g)'
                 PROVE  /\ db'[g] # NoRow /\ dicts'[g].mdd = db'[g].mdd
                        /\ dicts'[g].title = db'[g].title
      BY DEF RowsInv
    <3>1. CASE g = f
      BY <1>2, <2>1, <2>3, <3>1
         DEF Together, RowsInv, OneInv, IsLoaded, IInv, TypeOK
    <3>2. CASE g # f
      BY <1>1, <1>2, <2>1, <3>2
         DEF Together, RowsInv, TitleSet, IsLoaded, IInv, TypeOK
    <3>. QED
      BY <3>1, <3>2
  <2>5. OneInv'
    BY <1>1, <2>1, <2>2, ProcsAssumption DEF OneInv, Procs
  <2>. QED
    BY <2>4, <2>5
<1>9. CASE Unload(p)
  <2>1. /\ UNCHANGED <<db, up, lock, ld>> /\ req[p].pc = "unload"
        /\ dicts' = [dicts EXCEPT ![req[p].file] = NotLoaded]
        /\ req' = [req EXCEPT ![p].pc = "rmmdx"]
    BY <1>9 DEF Unload
  <2>2. req'[p].pc = "rmmdx" /\ req'[p].file = req[p].file
    BY <1>2, <2>1 DEF Together, IInv, TypeOK, Request
  <2>3. RowsInv'
    BY <1>1, <1>2, <2>1 DEF Together, RowsInv, TitleSet, IsLoaded, IInv, TypeOK
  <2>4. OneInv'
    BY <1>1, <1>2, <2>1, <2>2, ProcsAssumption
       DEF OneInv, Procs, IsLoaded, Together, IInv, TypeOK
  <2>. QED
    BY <2>3, <2>4
<1>10. CASE DeleteRow(p)
  <2>1. /\ UNCHANGED <<dicts, up, lock, ld>> /\ req[p].pc = "rmrow"
        /\ \/ db' = [db EXCEPT ![req[p].file] = NoRow]
           \/ UNCHANGED db
        /\ req' = [req EXCEPT ![p] = Idle]
    BY <1>10 DEF DeleteRow
  <2>2. req'[p].pc = "idle"
    BY <2>1, IdlePc DEF Together, IInv, TypeOK
  <2>3. ~IsLoaded(req[p].file)
    BY <2>1 DEF Together, OneInv
  <2>4. RowsInv'
    BY <1>1, <1>2, <2>1, <2>3
       DEF Together, RowsInv, TitleSet, IsLoaded, IInv, TypeOK
  <2>5. OneInv'
    BY <1>1, <2>1, <2>2, ProcsAssumption DEF OneInv, Procs
  <2>. QED
    BY <2>4, <2>5
<1>. QED
  BY <1>3, <1>4, <1>5, <1>6, <1>7, <1>8, <1>9, <1>10 DEF HandlerStep, LockStep

-----------------------------------------------------------------------------
(* All steps.                                                               *)

\* Nothing is loaded before the process starts.
LEMMA TogetherInit == Init => OneInv /\ RowsInv
BY IdlePc DEF Init, OneInv, RowsInv, IsLoaded, NoLoad

\* Every step keeps both invariants.
LEMMA TogetherStep ==
  ASSUME OneRequest, Together, [Next]_vars
  PROVE  OneInv' /\ RowsInv'
<1>1. CASE UNCHANGED vars
  BY <1>1 DEF vars, Together, OneInv, RowsInv, TitleSet, IsLoaded
<1>2. CASE Boot
  <2>1. /\ ~up /\ lock' = Main /\ ld'.step = "scan"
        /\ UNCHANGED <<db, dicts, req, up>>
    BY <1>2 DEF Boot, EnterLoadAll, NoLoad
  <2>2. \A p \in Handlers : req[p].pc = "idle"
    BY <2>1 DEF Together, OneInv
  <2>. QED
    BY <2>1, <2>2 DEF Together, OneInv, RowsInv, TitleSet, IsLoaded
<1>3. CASE Crash
  <2>1. /\ \A f \in Files : ~IsLoaded(f)'
        /\ \A p \in Handlers : req'[p].pc = "idle"
        /\ lock' = Free /\ ld'.step = "idle"
    BY <1>3, IdlePc DEF Crash, IsLoaded, NoLoad
  <2>. QED
    BY <2>1, ProcsAssumption DEF OneInv, RowsInv, Procs
<1>4. CASE EngineStep
  BY <1>4, EngineRowsStep
<1>5. ASSUME NEW p \in Handlers, Arrive(p) \/ HandlerStep(p) \/ LockStep(p)
      PROVE  OneInv' /\ RowsInv'
  BY <1>5, RequestStep
<1>6. CASE \E f \in Files : OperatorPuts(f) \/ OperatorRemoves(f)
  BY <1>6 DEF OperatorPuts, OperatorRemoves, Together, OneInv, RowsInv,
              TitleSet, IsLoaded
<1>. QED
  BY <1>1, <1>2, <1>3, <1>4, <1>5, <1>6 DEF Next

LEMMA OneInvHolds ==
  ASSUME OneRequest
  PROVE  Spec => [](OneInv /\ RowsInv)
<1>1. IInv /\ OneInv /\ RowsInv /\ [Next]_vars => OneInv' /\ RowsInv'
  BY TogetherStep DEF Together
<1>. QED
  BY <1>1, Invariance, TogetherInit, PTL DEF Spec

\* Between two requests that come one after the other, memory and table agree on
\* every dictionary that is loaded: flag, title and resources, after any
\* failures, crashes and edits of the directory.
THEOREM RowsMatch == OneRequest => (Spec => []MemoryMatchesRows)
<1>. SUFFICES ASSUME OneRequest PROVE Spec => []MemoryMatchesRows
  OBVIOUS
<1>1. IInv /\ OneInv /\ RowsInv => MemoryMatchesRows
  BY IdlePc DEF IInv, RowsInv, TitleSet, EnabledInSync, MemoryMatchesRows,
                Quiet
<1>. QED
  BY <1>1, OneInvHolds, Invariance, PTL

-----------------------------------------------------------------------------
(* Any number of requests, none of which changes a title or deletes.        *)

OnlyUnderLock == Requests \cap {"title", "delete"} = {}

\* The row that is there is the one loadDict writes back.
RowIsCurrent == ld.step = "update" => db[ld.file] = ld.row

Agrees(f) ==
  /\ db[f] # NoRow
  /\ dicts[f].mdd = db[f].mdd
  /\ dicts[f].title = db[f].title

AlwaysAgree ==
  \A f \in Files : IsLoaded(f) => Agrees(f) /\ dicts[f].enabled = db[f].enabled

EditPcs == {"title", "settitle", "unload", "rmmdx", "rmmdd", "rmrow"}

\* Rows are left to who holds the lock, so the memory never falls behind.
LockedInv ==
  /\ \A p \in Handlers : req[p].pc \notin EditPcs
  /\ RowIsCurrent
  /\ \A f \in Files : IsLoaded(f) => Agrees(f)

\* A row that is written back keeps its title.
LEMMA WrittenBack ==
  ASSUME IInv, RowIsCurrent, LoadUpdate
  PROVE  /\ ld.file \in Files /\ db[ld.file] # NoRow
         /\ [ld.row EXCEPT !.mdd = ld.mdd] \in Row
         /\ [ld.row EXCEPT !.mdd = ld.mdd].title = db[ld.file].title
         /\ db' = [db EXCEPT ![ld.file] = [ld.row EXCEPT !.mdd = ld.mdd]]
         /\ Install([ld.row EXCEPT !.mdd = ld.mdd])
<1>1. ld.file \in Files /\ ld.mdd \in BOOLEAN
  BY DEF IInv, TypeOK, Locals
<1>2. ld.row \in Row /\ db[ld.file] = ld.row
  BY DEF LoadUpdate, IInv, LocalsInv, RowIsCurrent
<1>. QED
  BY <1>1, <1>2, NullsAssumption DEF LoadUpdate, Row

\* What the methods of the engine write to the table and to the memory agrees.
LEMMA EngineKeepsAgreement ==
  ASSUME IInv, RowIsCurrent, EngineStep, NEW f \in Files,
         IsLoaded(f) => Agrees(f)
  PROVE  IsLoaded(f)' => Agrees(f)'
<1>0. TypeOK /\ ld.file \in Files /\ ld.mdd \in BOOLEAN
  BY DEF IInv, TypeOK, Locals
<1>1. CASE LoadUpdate \/ LoadCreate
  <2>1. PICK info \in Row :
          Install(info) /\ db' = [db EXCEPT ![ld.file] = info]
    <3>1. LoadCreate =>
            [enabled |-> TRUE, title |-> DefaultTitle, mdd |-> ld.mdd] \in Row
      BY <1>0, TitlesAssumption DEF Row
    <3>. QED
      BY <1>1, <3>1, WrittenBack DEF LoadCreate
  <2>2. CASE f = ld.file
    BY <1>0, <2>1, <2>2, NullsAssumption DEF Install, Agrees, TypeOK
  <2>3. CASE f # ld.file
    BY <1>0, <2>1, <2>3 DEF Install, Agrees, IsLoaded, TypeOK
  <2>. QED
    BY <2>2, <2>3
<1>2. CASE OrphanDisable
  BY <1>0, <1>2, FlagWritten DEF OrphanDisable, Agrees, IsLoaded
<1>3. CASE WriteStatus
  <2> DEFINE on == req[lock].on
             g == ld.file
             d == IF dicts[g] = NotLoaded THEN NotLoaded
                                   ELSE [dicts[g] EXCEPT !.enabled = on]
  <2>1. on \in BOOLEAN /\ SetRowEnabled(g, on) /\ dicts' = [dicts EXCEPT ![g] = d]
    BY <1>3 DEF WriteStatus, IInv, LockInv, TypeOK, Request
  <2>2. db[f] # NoRow => /\ db'[f] # NoRow
                         /\ db'[f].mdd = db[f].mdd /\ db'[f].title = db[f].title
    BY <1>0, <2>1, FlagWritten
  <2>3. /\ dicts[g] # NotLoaded => d.mdd = dicts[g].mdd /\ d.title = dicts[g].title
        /\ dicts[g] = NotLoaded => d = NotLoaded
    BY <1>0 DEF TypeOK, LoadedDict
  <2> HIDE DEF d, g
  <2>. QED
    BY <1>0, <2>1, <2>2, <2>3 DEF IsLoaded, Agrees, TypeOK
<1>4. CASE UNCHANGED <<db, dicts>>
  BY <1>4 DEF IsLoaded, Agrees
<1>. QED
  BY <1>1, <1>2, <1>3, <1>4
     DEF EngineStep, ScanSkip, ScanLoad, OrphanStat, LoadStat, LoadParse,
         LoadMdd, LoadExists, LoadGet, LoadFails, ListRows, ListFails,
         LeaveLoadAll, WriteStatusFails

\* Outside the engine the rows change by a change of title and a deletion only,
\* the memory by these and by the death of the process.
LEMMA OutsideEngine ==
  ASSUME TypeOK, [Next]_vars, ~EngineStep
  PROVE  /\ UNCHANGED db \/ \E p \in Handlers : WriteTitle(p) \/ DeleteRow(p)
         /\ UNCHANGED dicts \/ Crash \/ \E p \in Handlers : SetTitle(p) \/ Unload(p)
<1>1. ASSUME NEW p \in Handlers, Arrive(p) \/ HandlerStep(p)
      PROVE  /\ UNCHANGED db \/ WriteTitle(p) \/ DeleteRow(p)
             /\ UNCHANGED dicts
  <2>1. UNCHANGED dicts
    BY <1>1, HandlerFrame
  <2>2. UNCHANGED db \/ WriteTitle(p) \/ DeleteRow(p)
    BY <1>1 DEF Arrive, UpdateStatus, UpdateTitle, Delete, Upload, HandlerStep,
                RemoveMdx, RemoveMdd, RefusePart, AcceptPart, SavePart,
                SaveFails, FindByMdd, UploadDone
  <2>. QED
    BY <2>1, <2>2
<1>2. ASSUME NEW p \in Handlers, LockStep(p)
      PROVE  /\ UNCHANGED db
             /\ UNCHANGED dicts \/ SetTitle(p) \/ Unload(p)
  BY <1>2 DEF LockStep, EnterSetEnabled, SetTitle, Unload, UploadLoadAll,
              EnterReload
<1>3. UNCHANGED db \/ \E p \in Handlers : Arrive(p) \/ HandlerStep(p) \/ LockStep(p)
  BY DEF Next, vars, Boot, Crash, OperatorPuts, OperatorRemoves
<1>4. \/ UNCHANGED dicts \/ Crash
      \/ \E p \in Handlers : Arrive(p) \/ HandlerStep(p) \/ LockStep(p)
  BY DEF Next, vars, Boot, OperatorPuts, OperatorRemoves
<1>. QED
  BY <1>1, <1>2, <1>3, <1>4

\* The table changes a title by the request that asks for it.
LEMMA TitleStep ==
  ASSUME IInv, RowIsCurrent, [Next]_vars, NEW f \in Files,
         db[f] # NoRow, db'[f] # NoRow, db[f].title # db'[f].title
  PROVE  \E p \in Handlers : req[p].pc = "title" /\ req[p].file = f
<1>0. TypeOK /\ ld.file \in Files
  BY DEF IInv, TypeOK, Locals
<1>1. CASE EngineStep
  <2>1. CASE LoadUpdate
    BY <1>0, <2>1, WrittenBack DEF TypeOK
  <2>2. CASE LoadCreate
    BY <1>0, <2>2 DEF LoadCreate, TypeOK
  <2>3. CASE OrphanDisable
    BY <1>0, <2>3, FlagWritten DEF OrphanDisable
  <2>4. CASE WriteStatus
    <3>1. req[lock].on \in BOOLEAN /\ SetRowEnabled(ld.file, req[lock].on)
      BY <2>4 DEF WriteStatus, IInv, LockInv, TypeOK, Request
    <3>. QED
      BY <1>0, <3>1, FlagWritten
  <2>. QED
    BY <1>1, <2>1, <2>2, <2>3, <2>4
       DEF EngineStep, ScanSkip, ScanLoad, OrphanStat, LoadStat, LoadParse,
           LoadMdd, LoadExists, LoadGet, LoadFails, ListRows, ListFails,
           LeaveLoadAll, WriteStatusFails
<1>2. ASSUME NEW p \in Handlers, WriteTitle(p) \/ DeleteRow(p)
      PROVE  req[p].pc = "title" /\ req[p].file = f
  <2>1. req[p].file \in Files
    BY <1>0 DEF TypeOK, Request
  <2>. QED
    BY <1>0, <1>2, <2>1 DEF WriteTitle, DeleteRow, TypeOK
<1>. QED
  BY <1>0, <1>1, <1>2, OutsideEngine

\* A handler's steps under the engine's lock: it returns, or waits.
LEMMA EnginePcs ==
  ASSUME IInv, EngineStep, NEW p \in Handlers
  PROVE  req'[p] = req[p] \/ req'[p].pc \in {"idle", "recv"}
<1>1. ASSUME NEW r, r.pc \in {"idle", "recv"}, Return(lock, r)
      PROVE  req'[p] = req[p] \/ req'[p].pc \in {"idle", "recv"}
  BY <1>1 DEF Return, IInv, TypeOK
<1>2. lock \in Handlers => Resume(lock).pc \in {"idle", "recv"}
  BY IdlePc DEF Resume, IInv, TypeOK, Request
<1>3. \A r : Return(Main, r) => UNCHANGED req
  BY DEF Return
<1>4. lock \in Handlers \cup {Main}
  BY EngineStepsHoldLock DEF IInv, LockInv, TypeOK, Procs
<1>5. UNCHANGED req \/ Return(lock, Idle) \/ Return(lock, Resume(lock))
  BY DEF EngineStep, ScanSkip, ScanLoad, OrphanStat, LoadStat, LoadParse,
         LoadMdd, LoadExists, LoadGet, LoadUpdate, LoadCreate, Install,
         LoadFails, ListRows, ListFails, OrphanDisable, LeaveLoadAll,
         WriteStatus, WriteStatusFails
<1>. QED
  BY <1>1, <1>2, <1>3, <1>4, <1>5, IdlePc

\* An upload and a change of status stay what they are.
LEMMA UploadPcs ==
  ASSUME OnlyUnderLock, IInv, LockedInv, NEW p \in Handlers,
         Arrive(p) \/ HandlerStep(p) \/ LockStep(p)
  PROVE  req'[p].pc \notin EditPcs
<1>1. TypeOK /\ req[p] \in Request /\ req[p].pc \notin EditPcs
  BY DEF IInv, TypeOK, LockedInv
<1>2. CASE Arrive(p)
  <2>1. CASE UpdateStatus(p)
    BY <1>1, <2>1, IdleType DEF UpdateStatus, EditPcs, TypeOK, Request
  <2>2. CASE Upload(p)
    BY <1>1, <2>2, IdleType DEF Upload, EditPcs, TypeOK, Request
  <2>. QED
    BY <1>2, <2>1, <2>2 DEF Arrive, UpdateTitle, Delete, OnlyUnderLock
<1>3. CASE RefusePart(p)
  BY <1>1, <1>3 DEF RefusePart, EditPcs, TypeOK, Request
<1>4. CASE AcceptPart(p)
  BY <1>1, <1>4 DEF AcceptPart, EditPcs, TypeOK, Request
<1>5. CASE SavePart(p) \/ SaveFails(p)
  BY <1>1, <1>5 DEF SavePart, SaveFails, EditPcs, TypeOK, Request
<1>6. CASE FindByMdd(p)
  BY <1>1, <1>6 DEF FindByMdd, EditPcs, TypeOK, Request
<1>7. CASE UploadDone(p)
  BY <1>1, <1>7, IdlePc DEF UploadDone, EditPcs, TypeOK
<1>8. CASE WriteTitle(p) \/ RemoveMdx(p) \/ RemoveMdd(p) \/ DeleteRow(p)
             \/ SetTitle(p) \/ Unload(p)
  BY <1>1, <1>8 DEF WriteTitle, RemoveMdx, RemoveMdd, DeleteRow, SetTitle, Unload,
                    EditPcs
<1>9. CASE EnterSetEnabled(p) \/ EnterReload(p) \/ UploadLoadAll(p)
  <2>1. \/ \E pc \in {"engine", "recv"} : req' = [req EXCEPT ![p].pc = pc]
        \/ req' = [req EXCEPT ![p] = Idle]
        \/ req' = [req EXCEPT ![p].pc = "engine", ![p].saved = @ \ SavedMdx(p)]
    BY <1>9 DEF EnterSetEnabled, EnterReload, UploadLoadAll
  <2>. QED
    BY <1>1, <2>1, IdlePc DEF EditPcs, TypeOK, Request
<1>. QED
  BY <1>2, <1>3, <1>4, <1>5, <1>6, <1>7, <1>8, <1>9 DEF HandlerStep, LockStep

\* Nobody else's request is touched.
LEMMA OthersWait ==
  ASSUME TypeOK, NEW p \in Handlers, Arrive(p) \/ HandlerStep(p) \/ LockStep(p),
         NEW q \in Handlers, q # p
  PROVE  req'[q] = req[q]
<1>1. CASE Arrive(p) \/ HandlerStep(p)
  BY <1>1, HandlerFrame
<1>2. CASE LockStep(p)
  BY <1>2 DEF LockStep, EnterSetEnabled, SetTitle, Unload, UploadLoadAll,
              EnterReload, TypeOK
<1>. QED
  BY <1>1, <1>2

LEMMA LockedStep ==
  ASSUME OnlyUnderLock, IInv, LockedInv, [Next]_vars
  PROVE  LockedInv'
<1>0. TypeOK /\ LockInv /\ ld.file \in Files
  BY DEF IInv, TypeOK, Locals
<1>1. ASSUME NEW q \in Handlers
      PROVE  req'[q].pc \notin EditPcs
  <2>1. req[q].pc \notin EditPcs
    BY DEF LockedInv
  <2>2. CASE EngineStep
    BY <2>1, <2>2, EnginePcs DEF EditPcs
  <2>3. ASSUME NEW p \in Handlers, Arrive(p) \/ HandlerStep(p) \/ LockStep(p)
        PROVE  req'[q].pc \notin EditPcs
    BY <1>0, <2>1, <2>3, UploadPcs, OthersWait
  <2>4. CASE Crash
    BY <2>4, IdlePc DEF Crash, EditPcs
  <2>5. CASE UNCHANGED req
    BY <2>1, <2>5
  <2>. QED
    BY <2>2, <2>3, <2>4, <2>5 DEF Next, vars, Boot, OperatorPuts, OperatorRemoves
<1>2. ASSUME NEW p \in Handlers
      PROVE  ~WriteTitle(p) /\ ~DeleteRow(p) /\ ~SetTitle(p) /\ ~Unload(p)
  BY DEF LockedInv, EditPcs, WriteTitle, DeleteRow, SetTitle, Unload
<1>3. RowIsCurrent'
  <2>1. CASE EngineStep
    <3>1. CASE ld'.step = "update"
      <4>1. LoadGet
        BY <1>0, <2>1, <3>1, EngineStepCases
           DEF LoadStat, LoadParse, LoadMdd, LoadExists, TypeOK, Locals
      <4>. QED
        BY <1>0, <4>1 DEF LoadGet, RowIsCurrent, TypeOK, Locals
    <3>. QED
      BY <3>1 DEF RowIsCurrent
  <2>2. CASE ~EngineStep
    <3>1. UNCHANGED db
      BY <1>0, <1>2, <2>2, OutsideEngine
    <3>. QED
      BY <1>0, <2>2, <3>1, LocalsFrame DEF RowIsCurrent, LockedInv
  <2>. QED
    BY <2>1, <2>2
<1>4. ASSUME NEW f \in Files
      PROVE  IsLoaded(f)' => Agrees(f)'
  <2>1. IsLoaded(f) => Agrees(f)
    BY DEF LockedInv
  <2>2. CASE EngineStep
    BY <2>1, <2>2, EngineKeepsAgreement DEF LockedInv
  <2>3. CASE ~EngineStep /\ ~Crash
    <3>1. UNCHANGED <<db, dicts>>
      BY <1>0, <1>2, <2>3, OutsideEngine
    <3>. QED
      BY <2>1, <3>1 DEF IsLoaded, Agrees
  <2>4. CASE Crash
    BY <2>4 DEF Crash, IsLoaded
  <2>. QED
    BY <2>2, <2>3, <2>4
<1>. QED
  BY <1>1, <1>3, <1>4 DEF LockedInv

LEMMA LockedInvHolds ==
  ASSUME OnlyUnderLock
  PROVE  Spec => []LockedInv
<1>1. Init => LockedInv
  BY IdlePc DEF Init, LockedInv, RowIsCurrent, IsLoaded, NoLoad, EditPcs
<1>2. IInv /\ LockedInv /\ [Next]_vars => LockedInv'
  BY LockedStep
<1>. QED
  BY <1>1, <1>2, Invariance, PTL DEF Spec

\* Uploads and changes of status may overlap as they like, fail and be cut off:
\* as long as no title is changed and no dictionary deleted, what the memory says
\* of a dictionary is what its row says, at every moment (engine.go:242 to 275, 544).
THEOREM UploadsKeepRows == OnlyUnderLock => (Spec => []AlwaysAgree)
<1>. SUFFICES ASSUME OnlyUnderLock PROVE Spec => []AlwaysAgree
  OBVIOUS
<1>1. IInv /\ LockedInv => AlwaysAgree
  BY DEF IInv, LockedInv, Agrees, EnabledInSync, AlwaysAgree
<1>. QED
  BY <1>1, LockedInvHolds, Invariance, PTL

\* A load never takes back the title an administrator gave, while requests come
\* one after the other: the row it read is the one it writes (engine.go:251).
THEOREM TitlesAreKept == OneRequest => (Spec => LoaderKeepsTitle)
<1>. SUFFICES ASSUME OneRequest PROVE Spec => LoaderKeepsTitle
  OBVIOUS
<1>. DEFINE Keeps == \A f \in Files :
                       db[f] # NoRow /\ db'[f] # NoRow /\ db[f].title # db'[f].title
                         => \E p \in Handlers :
                              req[p].pc = "title" /\ req[p].file = f
<1>1. IInv /\ OneInv /\ RowsInv /\ [Next]_vars => [Keeps]_vars
  BY TitleStep DEF OneInv, RowIsCurrent
<1>. QED
  BY <1>1, OneInvHolds, Invariance, PTL DEF Spec, LoaderKeepsTitle
=============================================================================
