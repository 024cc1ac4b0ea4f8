-------------------------- MODULE DictEngineProofs --------------------------
(***************************************************************************)
(* What holds of DictEngine for every set of files, handlers and words and *)
(* every bound.  IInv is the inductive invariant; the invariants of the    *)
(* model are its conjuncts or follow from it.                              *)
(***************************************************************************)
EXTENDS DictEngine, TLAPS

IInv == /\ TypeOK
        /\ LockInv
        /\ LocalsInv
        /\ CreateNeverConflicts
        /\ FlagInv
        /\ EnabledInSync
        /\ StampInv
        /\ IndexInv

-----------------------------------------------------------------------------
(* Types.                                                                   *)

\* The locals a method starts from are well typed.
LEMMA NoLoadType == NoLoad \in Locals
BY FilesAssumption, BoundsAssumption DEF NoLoad, Locals, Steps, Calls

\* So are those of a request that has not begun.
LEMMA IdleType == Idle \in Request
BY FilesAssumption, TitlesAssumption DEF Idle, Request, Pcs

\* A method that returns leaves everything well typed.
LEMMA ReturnType ==
  ASSUME TypeOK, NEW p \in Procs, NEW r, p \in Handlers => r \in Request,
         Return(p, r)
  PROVE  /\ lock' = Free /\ ld' = NoLoad
         /\ ld' \in Locals
         /\ req' \in [Handlers -> Request]
         /\ up' \in BOOLEAN
BY NoLoadType DEF Return, TypeOK, Procs

\* What a handler goes on with is a request.
LEMMA ResumeType ==
  ASSUME TypeOK, NEW p \in Handlers
  PROVE  Resume(p) \in Request
<1>1. req[p] \in Request
  BY DEF TypeOK
<1>2. [req[p] EXCEPT !.pc = "recv"] \in Request
  BY <1>1 DEF Request, Pcs
<1>. QED
  BY <1>2, IdleType DEF Resume

\* The locals left for the next file are well typed.
LEMMA NextFileType ==
  ASSUME TypeOK, NextFile
  PROVE  ld' \in Locals
BY NoLoadType DEF NextFile, TypeOK, Locals, Steps, Calls

\* loadDict installs a well-typed entry.
LEMMA InstallType ==
  ASSUME TypeOK, LockInv, LocalsInv, NEW info \in Row,
         ld.step \in {"update", "create"}, Install(info)
  PROVE  /\ dicts' \in [Files -> LoadedDict \cup {NotLoaded}]
         /\ lock' \in Procs \cup {Free}
         /\ ld' \in Locals
         /\ req' \in [Handlers -> Request]
         /\ up' \in BOOLEAN
<1>1. /\ ld.file \in Files
      /\ ld.content \in Versions
      /\ ld.stamp \in Versions
  BY BoundsAssumption DEF TypeOK, LocalsInv, Locals, Versions
<1>2. dicts' \in [Files -> LoadedDict \cup {NotLoaded}]
  <2>1. [enabled |-> info.enabled, title |-> info.title, mdd |-> info.mdd,
         content |-> ld.content, stamp |-> ld.stamp] \in LoadedDict
    BY <1>1 DEF LoadedDict, Row
  <2>. QED
    BY <2>1 DEF Install, TypeOK
<1>3. CASE ld.call = "LoadAll"
  <2>1. ld' \in Locals /\ UNCHANGED <<lock, req, up>>
    BY <1>3, NextFileType DEF Install
  <2>. QED
    BY <1>2, <2>1 DEF TypeOK
<1>4. CASE ld.call = "Reload"
  <2>1. lock \in Handlers /\ Return(lock, Resume(lock))
    BY <1>4 DEF Install, LockInv
  <2>. QED
    BY <1>2, <2>1, ReturnType, ResumeType DEF Procs
<1>5. CASE ld.call = "SetEnabled"
  BY <1>2, <1>5 DEF Install, TypeOK, Locals, Steps
<1>. QED
  BY <1>3, <1>4, <1>5 DEF Install

\* A failure stays within its bound.
LEMMA FaultType ==
  ASSUME TypeOK, Fault
  PROVE  faults' \in 0..MaxFaults
BY BoundsAssumption DEF TypeOK, Fault

\* Writing the flag keeps the rows well typed.
LEMMA SetRowEnabledType ==
  ASSUME TypeOK, NEW f \in Files, NEW on \in BOOLEAN, SetRowEnabled(f, on)
  PROVE  db' \in [Files -> Row \cup {NoRow}]
<1> DEFINE r == IF db[f] = NoRow THEN NoRow ELSE [db[f] EXCEPT !.enabled = on]
<1>1. r \in Row \cup {NoRow}
  BY DEF TypeOK, Row
<1>2. db' = [db EXCEPT ![f] = r]
  BY DEF SetRowEnabled
<1> HIDE DEF r
<1>. QED
  BY <1>1, <1>2 DEF TypeOK

\* A method steps only between its entry and its return.
LEMMA EngineStepsHoldLock ==
  ASSUME EngineStep
  PROVE  ld.step # "idle"
<1>1. CASE \E f \in Files : ScanSkip(f) \/ ScanLoad(f) \/ OrphanStat(f)
  BY <1>1 DEF ScanSkip, ScanLoad, OrphanStat
<1>2. CASE LoadStat \/ LoadParse \/ LoadMdd \/ LoadExists \/ LoadGet
  BY <1>2 DEF LoadStat, LoadParse, LoadMdd, LoadExists, LoadGet
<1>3. CASE LoadUpdate \/ LoadCreate \/ LoadFails
  BY <1>3 DEF LoadUpdate, LoadCreate, LoadFails, LoadError
<1>4. CASE ListRows \/ ListFails \/ OrphanDisable \/ LeaveLoadAll
  BY <1>4 DEF ListRows, ListFails, OrphanDisable, LeaveLoadAll
<1>5. CASE WriteStatus \/ WriteStatusFails
  BY <1>5 DEF WriteStatus, WriteStatusFails
<1>. QED
  BY <1>1, <1>2, <1>3, <1>4, <1>5 DEF EngineStep

\* A step of the method that holds the lock.
LEMMA TypeEngineStep ==
  ASSUME TypeOK, LockInv, LocalsInv, EngineStep
  PROVE  TypeOK'
<1>0. lock \in Procs
  BY EngineStepsHoldLock DEF LockInv, TypeOK
<1>1. ASSUME NEW f \in Files, ScanSkip(f) \/ ScanLoad(f) \/ OrphanStat(f)
      PROVE  TypeOK'
  <2>1. ld' \in Locals
    <3>1. CASE ScanSkip(f)
      BY <3>1 DEF ScanSkip, TypeOK, Locals
    <3>2. CASE ScanLoad(f)
      BY <3>2 DEF ScanLoad, TypeOK, Locals, Steps
    <3>3. CASE OrphanStat(f)
      BY <3>3 DEF OrphanStat, TypeOK, Locals, Steps
    <3>. QED
      BY <1>1, <3>1, <3>2, <3>3
  <2>. QED
    BY <1>1, <2>1 DEF ScanSkip, ScanLoad, OrphanStat, TypeOK, history
<1>2. CASE LoadStat
  BY <1>2 DEF LoadStat, TypeOK, history, Locals, Steps
<1>3. CASE LoadParse
  BY <1>3 DEF LoadParse, TypeOK, history, Locals, Steps
<1>4. CASE LoadMdd
  BY <1>4 DEF LoadMdd, TypeOK, history, Locals, Steps
<1>5. CASE LoadExists
  BY <1>5 DEF LoadExists, TypeOK, history, Locals, Steps
<1>6. CASE LoadGet
  BY <1>6 DEF LoadGet, TypeOK, history, Locals, Steps
<1>7. CASE LoadUpdate
  <2> DEFINE info == [ld.row EXCEPT !.mdd = ld.mdd]
  <2>1. info \in Row
    BY <1>7 DEF LoadUpdate, LocalsInv, TypeOK, Locals, Row
  <2>2. Install(info)
    BY <1>7 DEF LoadUpdate
  <2>3. db' \in [Files -> Row \cup {NoRow}]
    <3> HIDE DEF info
    <3>. QED
      BY <1>7, <2>1 DEF LoadUpdate, TypeOK, info
  <2>4. UNCHANGED <<disk, mdd, writes, faults, crashes>>
    BY <1>7 DEF LoadUpdate, history
  <2> HIDE DEF info
  <2>5. ld.step = "update"
    BY <1>7 DEF LoadUpdate
  <2>. QED
    BY <2>1, <2>2, <2>3, <2>4, <2>5, InstallType DEF TypeOK
<1>8. CASE LoadCreate
  <2> DEFINE info == [enabled |-> TRUE, title |-> DefaultTitle,
                      mdd |-> ld.mdd]
  <2>1. info \in Row
    BY TitlesAssumption DEF TypeOK, Locals, Row
  <2>2. Install(info) /\ ld.step = "create"
    BY <1>8 DEF LoadCreate
  <2>3. db' \in [Files -> Row \cup {NoRow}]
    BY <1>8, <2>1 DEF LoadCreate, TypeOK
  <2>4. UNCHANGED <<disk, mdd, writes, faults, crashes>>
    BY <1>8 DEF LoadCreate, history
  <2> HIDE DEF info
  <2>. QED
    BY <2>1, <2>2, <2>3, <2>4, InstallType DEF TypeOK
<1>9. CASE LoadFails
  <2>1. faults' \in 0..MaxFaults
    BY <1>9, FaultType DEF LoadFails, LoadError, TypeOK
  <2>2. /\ ld' \in Locals
        /\ lock' \in Procs \cup {Free}
        /\ req' \in [Handlers -> Request]
        /\ up' \in BOOLEAN
    <3>1. CASE ld.call = "LoadAll"
      BY <1>9, <3>1, NextFileType DEF LoadFails, TypeOK
    <3>2. CASE ld.call # "LoadAll"
      <4>1. ld.call \in {"Reload", "SetEnabled"}
        BY <1>9, <3>2, EngineStepsHoldLock DEF LockInv, TypeOK, Locals, Calls
      <4>2. lock \in Handlers
        BY <4>1 DEF LockInv
      <4>. QED
        BY <1>9, <3>2, <4>2, ReturnType, ResumeType DEF LoadFails, Procs
    <3>. QED
      BY <3>1, <3>2
  <2>. QED
    BY <1>9, <2>1, <2>2 DEF LoadFails, TypeOK
<1>10. CASE ListRows \/ ListFails
  <2>1. ld' \in Locals
    <3>1. CASE ListRows
      BY <3>1 DEF ListRows, TypeOK, Locals, Steps
    <3>2. CASE ListFails
      BY <3>2 DEF ListFails, TypeOK, Locals, Steps
    <3>. QED
      BY <1>10, <3>1, <3>2
  <2>2. faults' \in 0..MaxFaults
    BY <1>10, FaultType DEF ListRows, ListFails, TypeOK, history
  <2>. QED
    BY <1>10, <2>1, <2>2 DEF ListRows, ListFails, TypeOK, history
<1>11. CASE OrphanDisable
  <2>1. faults' \in 0..MaxFaults
    BY <1>11, FaultType DEF OrphanDisable, TypeOK
  <2>2. db' \in [Files -> Row \cup {NoRow}]
    BY <1>11, SetRowEnabledType DEF OrphanDisable, TypeOK, Locals
  <2>3. ld' \in Locals
    BY <1>11 DEF OrphanDisable, TypeOK, Locals, Steps
  <2>. QED
    BY <1>11, <2>1, <2>2, <2>3 DEF OrphanDisable, TypeOK
<1>12. CASE LeaveLoadAll
  <2>1. Return(lock, Resume(lock))
    BY <1>12 DEF LeaveLoadAll
  <2>2. lock \in Handlers => Resume(lock) \in Request
    BY ResumeType
  <2>3. /\ lock' = Free /\ ld' \in Locals
        /\ req' \in [Handlers -> Request] /\ up' \in BOOLEAN
    BY <1>0, <2>1, <2>2, ReturnType
  <2>. QED
    BY <1>12, <2>3 DEF LeaveLoadAll, TypeOK, history
<1>13. CASE WriteStatus
  <2>1. lock \in Handlers /\ ld.file \in Files /\ req[lock].on \in BOOLEAN
    BY <1>13 DEF WriteStatus, LockInv, TypeOK, Locals, Request
  <2>2. db' \in [Files -> Row \cup {NoRow}]
    BY <1>13, <2>1, SetRowEnabledType DEF WriteStatus
  <2>3. dicts' \in [Files -> LoadedDict \cup {NotLoaded}]
    BY <1>13, <2>1 DEF WriteStatus, TypeOK, LoadedDict
  <2>4. /\ lock' = Free /\ ld' \in Locals
        /\ req' \in [Handlers -> Request] /\ up' \in BOOLEAN
    BY <1>0, <1>13, IdleType, ReturnType DEF WriteStatus
  <2>. QED
    BY <1>13, <2>2, <2>3, <2>4 DEF WriteStatus, TypeOK, history
<1>14. CASE WriteStatusFails
  <2>1. faults' \in 0..MaxFaults
    BY <1>14, FaultType DEF WriteStatusFails
  <2>2. /\ lock' = Free /\ ld' \in Locals
        /\ req' \in [Handlers -> Request] /\ up' \in BOOLEAN
    BY <1>0, <1>14, IdleType, ReturnType DEF WriteStatusFails
  <2>. QED
    BY <1>14, <2>1, <2>2 DEF WriteStatusFails, TypeOK
<1>. QED
  BY <1>1, <1>2, <1>3, <1>4, <1>5, <1>6, <1>7, <1>8, <1>9, <1>10, <1>11,
     <1>12, <1>13, <1>14 DEF EngineStep

\* A step of a handler that takes no lock, or waits for it and takes it.
LEMMA TypeHandlerStep ==
  ASSUME TypeOK, NEW p \in Handlers,
         Arrive(p) \/ HandlerStep(p) \/ LockStep(p)
  PROVE  TypeOK'
<1>0. req[p] \in Request
  BY DEF TypeOK
<1>1. CASE UpdateStatus(p) \/ UpdateTitle(p) \/ Delete(p) \/ Upload(p)
  <2>1. req' \in [Handlers -> Request]
    <3>1. CASE UpdateStatus(p)
      <4>1. PICK f \in Files, on \in BOOLEAN :
              req' = [req EXCEPT ![p] = [Idle EXCEPT !.pc = "set", !.file = f,
                                                     !.on = on]]
        BY <3>1 DEF UpdateStatus
      <4>2. [Idle EXCEPT !.pc = "set", !.file = f, !.on = on] \in Request
        BY IdleType DEF Request, Pcs
      <4>. QED
        BY <4>1, <4>2 DEF TypeOK
    <3>2. CASE UpdateTitle(p)
      <4>1. PICK f \in Files, t \in Titles :
              req' = [req EXCEPT ![p] = [Idle EXCEPT !.pc = "title",
                                           !.file = f, !.title = t]]
        BY <3>2 DEF UpdateTitle
      <4>2. [Idle EXCEPT !.pc = "title", !.file = f, !.title = t] \in Request
        BY IdleType DEF Request, Pcs
      <4>. QED
        BY <4>1, <4>2 DEF TypeOK
    <3>3. CASE Delete(p)
      <4>1. PICK f \in Files :
              /\ db[f] # NoRow
              /\ req' = [req EXCEPT ![p] = [Idle EXCEPT !.pc = "unload",
                                           !.file = f, !.hasMdd = db[f].mdd]]
        BY <3>3 DEF Delete
      <4>2. db[f].mdd \in BOOLEAN
        BY <4>1 DEF TypeOK, Row
      <4>3. [Idle EXCEPT !.pc = "unload", !.file = f, !.hasMdd = db[f].mdd]
              \in Request
        BY <4>2, IdleType DEF Request, Pcs
      <4>. QED
        BY <4>1, <4>3 DEF TypeOK
    <3>4. CASE Upload(p)
      <4>1. PICK b \in Batches :
              req' = [req EXCEPT ![p] = [Idle EXCEPT !.pc = "recv",
                                                     !.left = b]]
        BY <3>4 DEF Upload
      <4>2. [Idle EXCEPT !.pc = "recv", !.left = b] \in Request
        BY IdleType, InputsAssumption DEF Request, Pcs
      <4>. QED
        BY <4>1, <4>2 DEF TypeOK
    <3>. QED
      BY <1>1, <3>1, <3>2, <3>3, <3>4
  <2>. QED
    BY <1>1, <2>1
       DEF UpdateStatus, UpdateTitle, Delete, Upload, TypeOK, history
<1>2. CASE WriteTitle(p)
  <2>1. faults' \in 0..MaxFaults
    BY <1>2, FaultType DEF WriteTitle, TypeOK
  <2>2. req' \in [Handlers -> Request]
    BY <1>0, <1>2, IdleType DEF WriteTitle, TypeOK, Request, Pcs
  <2>3. db' \in [Files -> Row \cup {NoRow}]
    <3> DEFINE f == req[p].file
               row == IF db[f] = NoRow THEN NoRow
                        ELSE [db[f] EXCEPT !.title = req[p].title]
    <3>1. f \in Files /\ row \in Row \cup {NoRow}
      BY <1>0 DEF TypeOK, Request, Row
    <3>2. db' = [db EXCEPT ![f] = row] \/ db' = db
      BY <1>2 DEF WriteTitle
    <3> HIDE DEF row
    <3>. QED
      BY <3>1, <3>2 DEF TypeOK
  <2>. QED
    BY <1>2, <2>1, <2>2, <2>3 DEF WriteTitle, TypeOK
<1>3. CASE SetTitle(p)
  <2>1. req' \in [Handlers -> Request]
    BY <1>3, IdleType DEF SetTitle, TypeOK
  <2>2. dicts' \in [Files -> LoadedDict \cup {NotLoaded}]
    BY <1>0, <1>3 DEF SetTitle, TypeOK, Request, LoadedDict
  <2>. QED
    BY <1>3, <2>1, <2>2 DEF SetTitle, TypeOK, history
<1>4. CASE Unload(p)
  BY <1>0, <1>4 DEF Unload, TypeOK, history, Request, Pcs
<1>5. CASE RemoveMdx(p) \/ RemoveMdd(p) \/ DeleteRow(p)
  <2>1. faults' \in 0..MaxFaults
    BY <1>5, FaultType DEF RemoveMdx, RemoveMdd, DeleteRow, TypeOK
  <2>2. req' \in [Handlers -> Request]
    BY <1>0, <1>5, IdleType
       DEF RemoveMdx, RemoveMdd, DeleteRow, TypeOK, Request, Pcs
  <2>3. /\ disk' \in [Files -> 0..MaxVersion]
        /\ mdd' \in [Files -> {"none", "good", "bad"}]
        /\ db' \in [Files -> Row \cup {NoRow}]
    BY <1>0, <1>5, BoundsAssumption
       DEF RemoveMdx, RemoveMdd, DeleteRow, TypeOK, Request
  <2>. QED
    BY <1>5, <2>1, <2>2, <2>3 DEF RemoveMdx, RemoveMdd, DeleteRow, TypeOK
<1>6. CASE RefusePart(p) \/ AcceptPart(p) \/ SaveFails(p) \/ UploadDone(p)
  <2>1. req' \in [Handlers -> Request]
    <3>1. CASE RefusePart(p)
      <4>1. PICK part \in req[p].left :
              req' = [req EXCEPT ![p] =
                        [req[p] EXCEPT !.left = req[p].left \ {part}]]
        BY <3>1 DEF RefusePart
      <4>2. [req[p] EXCEPT !.left = req[p].left \ {part}] \in Request
        BY <1>0 DEF Request
      <4>. QED
        BY <4>1, <4>2 DEF TypeOK
    <3>2. CASE AcceptPart(p)
      <4>1. PICK part \in req[p].left :
              req' = [req EXCEPT ![p].pc = "save", ![p].file = part[1],
                                 ![p].part = part[2], ![p].left = @ \ {part}]
        BY <3>2 DEF AcceptPart
      <4>2. part[1] \in Files /\ part[2] \in {"mdx", "mdd"}
        BY <1>0 DEF Request, Parts
      <4>. QED
        BY <1>0, <4>1, <4>2 DEF TypeOK, Request, Pcs
    <3>3. CASE SaveFails(p)
      BY <1>0, <3>3 DEF SaveFails, TypeOK, Request, Pcs
    <3>4. CASE UploadDone(p)
      BY <3>4, IdleType DEF UploadDone, TypeOK
    <3>. QED
      BY <1>6, <3>1, <3>2, <3>3, <3>4
  <2>. QED
    BY <1>6, <2>1
       DEF RefusePart, AcceptPart, SaveFails, UploadDone, TypeOK, history
<1>7. CASE SavePart(p)
  <2>1. req' \in [Handlers -> Request]
    <3>1. <<req[p].file, req[p].part>> \in Parts
      BY <1>0 DEF Request, Parts
    <3>. QED
      BY <1>0, <1>7, <3>1 DEF SavePart, TypeOK, Request, Pcs
  <2>2. /\ disk' \in [Files -> 0..MaxVersion]
        /\ mdd' \in [Files -> {"none", "good", "bad"}]
        /\ writes' \in Versions
    BY <1>0, <1>7, BoundsAssumption, InputsAssumption
       DEF SavePart, TypeOK, Request, Versions
  <2>. QED
    BY <1>7, <2>1, <2>2 DEF SavePart, TypeOK
<1>8. CASE FindByMdd(p)
  <2>1. faults' \in 0..MaxFaults
    BY <1>8, FaultType DEF FindByMdd, TypeOK
  <2>2. req' \in [Handlers -> Request]
    <3>1. PICK part \in req[p].saved :
            \/ req' = [req EXCEPT ![p].pc = "reload", ![p].file = part[1],
                                  ![p].saved = @ \ {part}]
            \/ req' = [req EXCEPT ![p].saved = @ \ {part}]
      BY <1>8 DEF FindByMdd
    <3>2. part[1] \in Files
      BY <1>0 DEF Request, Parts
    <3>. QED
      BY <1>0, <3>1, <3>2 DEF TypeOK, Request, Pcs
  <2>. QED
    BY <1>8, <2>1, <2>2 DEF FindByMdd, TypeOK
<1>9. CASE EnterSetEnabled(p) \/ EnterReload(p)
  <2>1. faults' \in 0..MaxFaults
    BY <1>9, FaultType DEF EnterSetEnabled, EnterReload, TypeOK
  <2>2. req' \in [Handlers -> Request]
    BY <1>0, <1>9, IdleType
       DEF EnterSetEnabled, EnterReload, TypeOK, Request, Pcs
  <2>3. ld' \in Locals
    <3>1. req[p].file \in Files /\ ld \in Locals
      BY <1>0 DEF Request, TypeOK
    <3>2. ASSUME NEW call \in Calls, NEW step \in Steps,
                 Begin(call, step, req[p].file)
          PROVE  ld' \in Locals
      BY <3>1, <3>2, NoLoadType DEF Begin, Locals
    <3>3. \/ Begin("SetEnabled", "stat", req[p].file)
          \/ Begin("SetEnabled", "status", req[p].file)
          \/ Begin("Reload", "stat", req[p].file)
          \/ ld' = ld
      BY <1>9 DEF EnterSetEnabled, EnterReload
    <3>. QED
      BY <3>1, <3>2, <3>3 DEF Steps, Calls
  <2>4. lock' \in Procs \cup {Free}
    BY <1>9 DEF EnterSetEnabled, EnterReload, Procs, TypeOK
  <2>. QED
    BY <1>9, <2>1, <2>2, <2>3, <2>4 DEF EnterSetEnabled, EnterReload, TypeOK
<1>10. CASE UploadLoadAll(p)
  <2>1. req' \in [Handlers -> Request]
    BY <1>0, <1>10 DEF UploadLoadAll, TypeOK, Request, Pcs
  <2>2. ld' \in Locals /\ lock' \in Procs
    BY <1>10, NoLoadType
       DEF UploadLoadAll, EnterLoadAll, Locals, Steps, Calls, Procs
  <2>. QED
    BY <1>10, <2>1, <2>2 DEF UploadLoadAll, EnterLoadAll, TypeOK, history
<1>. QED
  BY <1>1, <1>2, <1>3, <1>4, <1>5, <1>6, <1>7, <1>8, <1>9, <1>10
     DEF Arrive, HandlerStep, LockStep

\* The initial state is well typed ...
LEMMA TypeInit == Init => TypeOK
<1> SUFFICES ASSUME Init PROVE TypeOK
  OBVIOUS
<1>1. disk \in [Files -> 0..MaxVersion] /\ writes \in Versions
  BY BoundsAssumption DEF Init, Versions
<1>2. faults \in 0..MaxFaults /\ crashes \in 0..MaxCrashes
  BY BoundsAssumption DEF Init
<1>. QED
  BY <1>1, <1>2, NoLoadType, IdleType DEF Init, TypeOK

\* ... and so is the outcome of every step.
LEMMA TypeStep ==
  ASSUME TypeOK, LockInv, LocalsInv, [Next]_vars
  PROVE  TypeOK'
<1>1. CASE UNCHANGED vars
  BY <1>1 DEF vars, history, TypeOK
<1>2. CASE Boot
  BY <1>2, NoLoadType DEF Boot, EnterLoadAll, Procs, Locals, Steps, Calls,
                          TypeOK, history
<1>3. CASE EngineStep
  BY <1>3, TypeEngineStep
<1>4. CASE Crash
  <2>1. crashes' \in 0..MaxCrashes
    BY <1>4, BoundsAssumption DEF Crash, TypeOK
  <2>. QED
    BY <1>4, <2>1, NoLoadType, IdleType DEF Crash, TypeOK
<1>5. ASSUME NEW p \in Handlers, Arrive(p) \/ HandlerStep(p) \/ LockStep(p)
      PROVE  TypeOK'
  BY <1>5, TypeHandlerStep
<1>6. ASSUME NEW f \in Files, OperatorPuts(f) \/ OperatorRemoves(f)
      PROVE  TypeOK'
  BY <1>6, BoundsAssumption
     DEF OperatorPuts, OperatorRemoves, TypeOK, history, Versions
<1>. QED
  BY <1>1, <1>2, <1>3, <1>4, <1>5, <1>6 DEF Next

-----------------------------------------------------------------------------
(* The lock.                                                                *)

\* Outside the lock nobody touches the memory or the locals it protects, and
\* a handler inside an engine method waits for it to return.
LEMMA HandlerFrame ==
  ASSUME TypeOK, NEW p \in Handlers, Arrive(p) \/ HandlerStep(p)
  PROVE  /\ UNCHANGED <<dicts, index, lock, ld, up>>
         /\ req[p].pc # "engine"
         /\ \A q \in Handlers \ {p} : req'[q] = req[q]
<1>1. CASE Arrive(p)
  <2>1. Idle.pc = "idle"
    BY DEF Idle
  <2>. QED
    BY <1>1, <2>1 DEF Arrive, UpdateStatus, UpdateTitle, Delete, Upload, TypeOK
<1>2. CASE WriteTitle(p) \/ RemoveMdx(p) \/ RemoveMdd(p) \/ DeleteRow(p)
  BY <1>2 DEF WriteTitle, RemoveMdx, RemoveMdd, DeleteRow, TypeOK
<1>3. CASE RefusePart(p) \/ AcceptPart(p) \/ SaveFails(p) \/ UploadDone(p)
  BY <1>3 DEF RefusePart, AcceptPart, SaveFails, UploadDone, TypeOK
<1>4. CASE SavePart(p) \/ FindByMdd(p)
  BY <1>4 DEF SavePart, FindByMdd, TypeOK
<1>. QED
  BY <1>1, <1>2, <1>3, <1>4 DEF HandlerStep

\* Once a method has returned the lock is free and its locals are gone.
LEMMA ReturnedLock ==
  ASSUME lock' = Free, ld' = NoLoad
  PROVE  LockInv'
BY ProcsAssumption DEF LockInv, NoLoad, Procs

\* The lock and the method's locals stay paired while the method runs ...
LEMMA LockInvEngineStep ==
  ASSUME TypeOK, LockInv, EngineStep
  PROVE  LockInv'
<1>1. ASSUME NEW f \in Files, ScanSkip(f) \/ ScanLoad(f) \/ OrphanStat(f)
      PROVE  LockInv'
  <2>1. CASE ScanSkip(f)
    BY <2>1 DEF ScanSkip, LockInv, TypeOK, Locals
  <2>2. CASE ScanLoad(f)
    BY <2>2 DEF ScanLoad, LockInv, TypeOK, Locals
  <2>3. CASE OrphanStat(f)
    BY <2>3 DEF OrphanStat, LockInv, TypeOK, Locals
  <2>. QED
    BY <1>1, <2>1, <2>2, <2>3
<1>2. CASE LoadStat \/ LoadParse \/ LoadMdd
  BY <1>2 DEF LoadStat, LoadParse, LoadMdd, LockInv, TypeOK, Locals
<1>3. CASE LoadExists
  BY <1>3 DEF LoadExists, LockInv, TypeOK, Locals
<1>4. CASE LoadGet
  BY <1>4 DEF LoadGet, LockInv, TypeOK, Locals
<1>5. ASSUME NEW info, Install(info), ld.step \in {"update", "create"}
      PROVE  LockInv'
  <2>1. CASE ld.call = "LoadAll"
    BY <1>5, <2>1 DEF Install, NextFile, NoLoad, LockInv
  <2>2. CASE ld.call = "Reload"
    BY <1>5, <2>2, ReturnedLock DEF Install, Return
  <2>3. CASE ld.call = "SetEnabled"
    BY <1>5, <2>3 DEF Install, LockInv, TypeOK, Locals
  <2>. QED
    BY <1>5, <2>1, <2>2, <2>3 DEF Install
<1>6. CASE LoadUpdate \/ LoadCreate
  BY <1>5, <1>6 DEF LoadUpdate, LoadCreate
<1>7. CASE LoadFails
  <2>1. CASE ld.call = "LoadAll"
    BY <1>7, <2>1, EngineStepsHoldLock
       DEF LoadFails, NextFile, NoLoad, LockInv
  <2>2. CASE ld.call # "LoadAll"
    BY <1>7, <2>2, ReturnedLock DEF LoadFails, Return
  <2>. QED
    BY <2>1, <2>2
<1>8. CASE ListRows \/ ListFails \/ OrphanDisable
  BY <1>8 DEF ListRows, ListFails, OrphanDisable, LockInv, TypeOK, Locals
<1>9. CASE LeaveLoadAll \/ WriteStatus \/ WriteStatusFails
  BY <1>9, ReturnedLock DEF LeaveLoadAll, WriteStatus, WriteStatusFails, Return
<1>. QED
  BY <1>1, <1>2, <1>3, <1>4, <1>6, <1>7, <1>8, <1>9 DEF EngineStep

\* ... and when it begins, when other requests step, and at a crash.
LEMMA LockInvStep ==
  ASSUME TypeOK, LockInv, [Next]_vars
  PROVE  LockInv'
<1>1. CASE UNCHANGED vars
  BY <1>1 DEF vars, LockInv
<1>2. CASE Boot
  BY <1>2, ProcsAssumption DEF Boot, EnterLoadAll, NoLoad, LockInv, Procs
<1>3. CASE EngineStep
  BY <1>3, LockInvEngineStep
<1>4. CASE Crash
  BY <1>4, ReturnedLock DEF Crash
<1>5. ASSUME NEW p \in Handlers, Arrive(p) \/ HandlerStep(p)
      PROVE  LockInv'
  BY <1>5, HandlerFrame DEF LockInv
<1>6. ASSUME NEW p \in Handlers, LockStep(p)
      PROVE  LockInv'
  <2>1. CASE EnterSetEnabled(p)
    <3>1. CASE lock' = p
      <4>1. lock' # lock
        BY <2>1, <3>1, ProcsAssumption DEF EnterSetEnabled, Procs
      <4>2. \/ Begin("SetEnabled", "stat", req[p].file)
            \/ Begin("SetEnabled", "status", req[p].file)
        BY <2>1, <4>1 DEF EnterSetEnabled
      <4>3. /\ ld'.step \in {"stat", "status"}
            /\ ld'.call = "SetEnabled"
            /\ ld'.file = req[p].file
        BY <4>2 DEF Begin, NoLoad
      <4>4. req' = [req EXCEPT ![p].pc = "engine"]
        BY <2>1, <4>1 DEF EnterSetEnabled
      <4>5. req'[p].pc = "engine" /\ req'[p].file = req[p].file
        BY <4>4 DEF TypeOK, Request
      <4>. QED
        BY <3>1, <4>3, <4>5, ProcsAssumption DEF LockInv, Procs
    <3>2. CASE UNCHANGED <<lock, ld>>
      BY <2>1, <3>2, ProcsAssumption DEF EnterSetEnabled, LockInv, Procs
    <3>. QED
      BY <2>1, <3>1, <3>2 DEF EnterSetEnabled
  <2>2. CASE EnterReload(p)
    <3>1. CASE lock' = p
      <4>1. lock' # lock
        BY <2>2, <3>1, ProcsAssumption DEF EnterReload, Procs
      <4>2. ld'.step = "stat" /\ ld'.call = "Reload"
        BY <2>2, <4>1 DEF EnterReload, Begin, NoLoad
      <4>3. req'[p].pc = "engine"
        BY <2>2, <4>1 DEF EnterReload, TypeOK, Request
      <4>. QED
        BY <3>1, <4>2, <4>3, ProcsAssumption DEF LockInv, Procs
    <3>2. CASE UNCHANGED <<lock, ld>>
      BY <2>2, <3>2, ProcsAssumption DEF EnterReload, LockInv, Procs
    <3>. QED
      BY <2>2, <3>1, <3>2 DEF EnterReload
  <2>3. CASE UploadLoadAll(p)
    BY <1>6, <2>3, ProcsAssumption
       DEF UploadLoadAll, EnterLoadAll, NoLoad, LockInv, TypeOK, Request, Procs
  <2>4. CASE SetTitle(p) \/ Unload(p)
    BY <1>6, <2>4, ProcsAssumption DEF SetTitle, Unload, LockInv, Procs
  <2>. QED
    BY <1>6, <2>1, <2>2, <2>3, <2>4 DEF LockStep
<1>7. CASE \E f \in Files : OperatorPuts(f) \/ OperatorRemoves(f)
  BY <1>7 DEF OperatorPuts, OperatorRemoves, LockInv
<1>. QED
  BY <1>1, <1>2, <1>3, <1>4, <1>5, <1>6, <1>7 DEF Next

-----------------------------------------------------------------------------
(* The locals of loadDict.                                                  *)

\* The counter of versions never goes back.
LEMMA WritesGrow ==
  ASSUME TypeOK, [Next]_vars
  PROVE  writes' \in Versions /\ writes' >= writes
<1>1. writes \in Versions /\ writes \in Nat
  BY BoundsAssumption DEF TypeOK, Versions
<1>2. CASE UNCHANGED writes
  BY <1>1, <1>2
<1>3. CASE writes' = writes + 1 /\ writes < MaxVersion
  BY <1>1, <1>3, BoundsAssumption DEF Versions
<1>. QED
  BY <1>2, <1>3
     DEF Next, vars, history, Boot, EngineStep, Crash, Arrive, HandlerStep,
         LockStep, ScanSkip, ScanLoad, OrphanStat, LoadStat, LoadParse,
         LoadMdd, LoadExists, LoadGet, LoadUpdate, LoadCreate, LoadFails,
         ListRows, ListFails, OrphanDisable, LeaveLoadAll, WriteStatus,
         WriteStatusFails, UpdateStatus, UpdateTitle, Delete, Upload,
         WriteTitle, RemoveMdx, RemoveMdd, DeleteRow, RefusePart, AcceptPart,
         SavePart, SaveFails, FindByMdd, UploadDone, EnterSetEnabled,
         SetTitle, Unload, UploadLoadAll, EnterReload, OperatorPuts,
         OperatorRemoves

\* Outside the engine's own steps the locals stay as they are, or a method
\* begins, or the process dies.
LEMMA LocalsFrame ==
  ASSUME TypeOK, [Next]_vars, ~EngineStep
  PROVE  \/ UNCHANGED ld
         \/ ld'.step \in {"idle", "scan", "stat", "status"}
<1>1. CASE UNCHANGED vars
  BY <1>1 DEF vars
<1>2. CASE Boot
  BY <1>2 DEF Boot, EnterLoadAll, NoLoad
<1>3. CASE Crash
  BY <1>3 DEF Crash, NoLoad
<1>4. ASSUME NEW p \in Handlers, Arrive(p) \/ HandlerStep(p)
      PROVE  UNCHANGED ld
  BY <1>4, HandlerFrame
<1>5. ASSUME NEW p \in Handlers, LockStep(p)
      PROVE  \/ UNCHANGED ld
             \/ ld'.step \in {"idle", "scan", "stat", "status"}
  <2>1. CASE EnterSetEnabled(p)
    <3>1. \/ Begin("SetEnabled", "stat", req[p].file)
          \/ Begin("SetEnabled", "status", req[p].file)
          \/ UNCHANGED ld
      BY <2>1 DEF EnterSetEnabled
    <3>. QED
      BY <3>1 DEF Begin, NoLoad
  <2>2. CASE EnterReload(p) \/ UploadLoadAll(p)
    BY <2>2 DEF EnterReload, UploadLoadAll, EnterLoadAll, Begin, NoLoad
  <2>3. CASE SetTitle(p) \/ Unload(p)
    BY <2>3 DEF SetTitle, Unload
  <2>. QED
    BY <1>5, <2>1, <2>2, <2>3 DEF LockStep
<1>6. CASE \E f \in Files : OperatorPuts(f) \/ OperatorRemoves(f)
  BY <1>6 DEF OperatorPuts, OperatorRemoves
<1>. QED
  BY <1>1, <1>2, <1>3, <1>4, <1>5, <1>6 DEF Next

\* Where a method is after its return, and LoadAll after one file.
LEMMA StepAfter ==
  /\ NoLoad.step = "idle"
  /\ NextFile => ld'.step = "scan"
  /\ \A p, q : Return(p, q) => ld'.step = "idle"
<1>1. NoLoad.step = "idle"
  BY DEF NoLoad
<1>2. NextFile => ld'.step = "scan"
  BY DEF NextFile, NoLoad
<1>. QED
  BY <1>1, <1>2 DEF Return

\* What the engine's own steps do to the step of its locals.
LEMMA EngineStepCases ==
  ASSUME TypeOK, LockInv, EngineStep
  PROVE  \/ LoadStat \/ LoadParse \/ LoadMdd \/ LoadExists \/ LoadGet
         \/ ld'.step \in {"idle", "scan", "stat", "orphans", "disable", "status"}
<1>1. CASE \E f \in Files : ScanSkip(f) \/ ScanLoad(f) \/ OrphanStat(f)
  BY <1>1 DEF ScanSkip, ScanLoad, OrphanStat, TypeOK, Locals
<1>2. ASSUME NEW info, Install(info)
      PROVE  ld'.step \in {"idle", "scan", "status"}
  BY <1>2, StepAfter DEF Install, TypeOK, Locals
<1>3. CASE LoadUpdate \/ LoadCreate
  BY <1>2, <1>3 DEF LoadUpdate, LoadCreate
<1>4. CASE LoadFails
  BY <1>4, StepAfter DEF LoadFails
<1>5. CASE ListRows \/ ListFails \/ OrphanDisable
  BY <1>5 DEF ListRows, ListFails, OrphanDisable, TypeOK, Locals
<1>6. CASE LeaveLoadAll \/ WriteStatus \/ WriteStatusFails
  BY <1>6, StepAfter DEF LeaveLoadAll, WriteStatus, WriteStatusFails
<1>. QED
  BY <1>1, <1>3, <1>4, <1>5, <1>6 DEF EngineStep

\* Every step of loadDict sets the locals the next one reads.
LEMMA LocalsInvStep ==
  ASSUME TypeOK, LockInv, LocalsInv, StampInv, [Next]_vars
  PROVE  LocalsInv'
<1>0. /\ writes \in Nat /\ writes' \in Nat /\ writes <= writes'
      /\ ld.stamp \in Nat /\ ld.content \in Nat
  BY WritesGrow, BoundsAssumption DEF TypeOK, Versions, Locals
<1>1. CASE ~EngineStep
  BY <1>0, <1>1, LocalsFrame DEF LocalsInv
<1>2. CASE LoadStat
  <2>1. /\ disk[ld.file] \in 1..writes
        /\ ld' = [ld EXCEPT !.step = "parse", !.stamp = disk[ld.file]]
    BY <1>2, <1>0 DEF LoadStat, StampInv, TypeOK, Locals
  <2>. QED
    BY <1>0, <2>1 DEF LocalsInv, TypeOK, Locals
<1>3. CASE LoadParse
  <2>1. /\ disk[ld.file] \in Nat /\ disk[ld.file] <= writes
        /\ ld.stamp \in 1..disk[ld.file]
        /\ ld' = [ld EXCEPT !.step = "mdd", !.content = disk[ld.file]]
    BY <1>3, <1>0, BoundsAssumption DEF LoadParse, Parses, StampInv, LocalsInv, TypeOK, Locals
  <2>. QED
    BY <1>0, <2>1 DEF LocalsInv, TypeOK, Locals
<1>4. CASE LoadMdd
  BY <1>4, <1>0 DEF LoadMdd, LocalsInv, TypeOK, Locals
<1>5. CASE LoadExists
  BY <1>5, <1>0 DEF LoadExists, LocalsInv, TypeOK, Locals
<1>6. CASE LoadGet
  <2>1. db[ld.file] \in Row
    BY <1>6 DEF LoadGet, TypeOK, Locals
  <2>. QED
    BY <1>6, <2>1, <1>0 DEF LoadGet, LocalsInv, TypeOK, Locals
<1>7. CASE ld'.step \in {"idle", "scan", "stat", "orphans", "disable", "status"}
  BY <1>7 DEF LocalsInv
<1>. QED
  BY <1>1, <1>2, <1>3, <1>4, <1>5, <1>6, <1>7, EngineStepCases

-----------------------------------------------------------------------------
(* The flag.                                                                *)

\* What the three facts about flags say together.
FlagsOK == CreateNeverConflicts /\ FlagInv /\ EnabledInSync

\* They depend on the rows and the memory only through what is in them: a step
\* that changes neither a flag nor the locals, and inserts no row, keeps them.
LEMMA FlagsFrame ==
  ASSUME TypeOK, FlagsOK, UNCHANGED ld,
         \A f \in Files : db'[f] # NoRow =>
            db[f] # NoRow /\ db'[f].enabled = db[f].enabled,
         \A f \in Files : dicts'[f] # NotLoaded =>
            dicts[f] # NotLoaded /\ dicts'[f].enabled = dicts[f].enabled
  PROVE  FlagsOK'
<1>1. ld.file \in Files /\ ld.todo \subseteq Files
  BY DEF TypeOK, Locals
<1>2. CreateNeverConflicts'
  BY <1>1 DEF FlagsOK, CreateNeverConflicts
<1>3. FlagInv'
  BY <1>1 DEF FlagsOK, FlagInv, IsLoaded
<1>4. EnabledInSync'
  BY DEF FlagsOK, EnabledInSync, IsLoaded
<1>. QED
  BY <1>2, <1>3, <1>4 DEF FlagsOK

\* When a method begins or ends, only the agreement itself is at stake.
LEMMA FlagsAtRest ==
  ASSUME EnabledInSync',
         ld'.step \in {"idle", "scan", "stat", "parse", "mdd", "exists", "get",
                       "status"}
  PROVE  FlagsOK'
BY DEF FlagsOK, FlagInv, CreateNeverConflicts

\* The flags agree after a request's own writes: title, deletion, files.
LEMMA FlagsHandlerStep ==
  ASSUME TypeOK, LockInv, FlagsOK, NEW p \in Handlers,
         Arrive(p) \/ HandlerStep(p) \/ LockStep(p)
  PROVE  FlagsOK'
<1>0. req[p] \in Request
  BY DEF TypeOK
<1>1. CASE Arrive(p)
  BY <1>1, HandlerFrame, FlagsFrame
     DEF Arrive, UpdateStatus, UpdateTitle, Delete, Upload
<1>2. CASE WriteTitle(p)
  <2>1. \A f \in Files : db'[f] # NoRow =>
            db[f] # NoRow /\ db'[f].enabled = db[f].enabled
    BY <1>0, <1>2 DEF WriteTitle, TypeOK, Row
  <2>. QED
    BY <1>2, <2>1, FlagsFrame DEF WriteTitle
<1>3. CASE DeleteRow(p)
  <2>1. \A f \in Files : db'[f] # NoRow =>
            db[f] # NoRow /\ db'[f].enabled = db[f].enabled
    BY <1>0, <1>3 DEF DeleteRow, TypeOK, Row
  <2>. QED
    BY <1>3, <2>1, FlagsFrame DEF DeleteRow
<1>4. CASE RemoveMdx(p) \/ RemoveMdd(p) \/ RefusePart(p) \/ AcceptPart(p)
             \/ SavePart(p) \/ SaveFails(p) \/ FindByMdd(p) \/ UploadDone(p)
  BY <1>4, FlagsFrame
     DEF RemoveMdx, RemoveMdd, RefusePart, AcceptPart, SavePart, SaveFails,
         FindByMdd, UploadDone
<1>5. CASE EnterSetEnabled(p) \/ EnterReload(p) \/ UploadLoadAll(p)
  <2>1. UNCHANGED <<db, dicts>>
    BY <1>5 DEF EnterSetEnabled, EnterReload, UploadLoadAll
  <2>2. EnabledInSync'
    BY <2>1 DEF FlagsOK, EnabledInSync, IsLoaded
  <2>3. CASE UNCHANGED ld
    BY <2>1, <2>3, FlagsFrame
  <2>4. CASE ~UNCHANGED ld
    <3>1. ld'.step \in {"stat", "status", "scan"}
      <4>1. CASE EnterSetEnabled(p)
        <5>1. \/ Begin("SetEnabled", "stat", req[p].file)
              \/ Begin("SetEnabled", "status", req[p].file)
          BY <2>4, <4>1 DEF EnterSetEnabled
        <5>. QED
          BY <5>1 DEF Begin, NoLoad
      <4>2. CASE EnterReload(p) \/ UploadLoadAll(p)
        BY <2>4, <4>2
           DEF EnterReload, UploadLoadAll, EnterLoadAll, Begin, NoLoad
      <4>. QED
        BY <1>5, <4>1, <4>2
    <3>. QED
      BY <2>2, <3>1, FlagsAtRest
  <2>. QED
    BY <2>3, <2>4
<1>6. CASE SetTitle(p)
  <2>1. \A f \in Files : dicts'[f] # NotLoaded =>
            dicts[f] # NotLoaded /\ dicts'[f].enabled = dicts[f].enabled
    BY <1>0, <1>6 DEF SetTitle, TypeOK, LoadedDict
  <2>. QED
    BY <1>6, <2>1, FlagsFrame DEF SetTitle
<1>7. CASE Unload(p)
  <2>1. \A f \in Files : dicts'[f] # NotLoaded =>
            dicts[f] # NotLoaded /\ dicts'[f].enabled = dicts[f].enabled
    BY <1>0, <1>7 DEF Unload, TypeOK
  <2>. QED
    BY <1>7, <2>1, FlagsFrame DEF Unload
<1>. QED
  BY <1>1, <1>2, <1>3, <1>4, <1>5, <1>6, <1>7 DEF HandlerStep, LockStep

\* The flags agree after a step of the method that holds the lock.
LEMMA FlagsEngineStep ==
  ASSUME TypeOK, LockInv, FlagsOK, EngineStep
  PROVE  FlagsOK'
<1>0. ld.file \in Files /\ ld.todo \subseteq Files
  BY DEF TypeOK, Locals
<1>1. CASE UNCHANGED <<db, dicts>>
  <2>1. EnabledInSync'
    BY <1>1 DEF FlagsOK, EnabledInSync, IsLoaded
  <2>2. CASE LoadExists
    BY <2>1, <2>2 DEF LoadExists, FlagsOK, FlagInv, CreateNeverConflicts,
                      TypeOK, Locals
  <2>3. CASE LoadGet
    BY <2>1, <2>3 DEF LoadGet, FlagsOK, FlagInv, CreateNeverConflicts,
                      TypeOK, Locals
  <2>4. CASE ListRows
    <3>1. /\ ld'.step = "orphans"
          /\ \A f \in ld'.todo : dicts[f] = NotLoaded
      BY <2>4 DEF ListRows, IsLoaded, TypeOK, Locals
    <3>. QED
      BY <2>1, <2>4, <3>1
         DEF ListRows, FlagsOK, FlagInv, CreateNeverConflicts, IsLoaded
  <2>5. CASE ListFails
    <3>1. ld'.step = "orphans" /\ ld'.todo = {}
      BY <2>5 DEF ListFails, TypeOK, Locals
    <3>. QED
      BY <2>1, <3>1 DEF FlagsOK, FlagInv, CreateNeverConflicts
  <2>6. ASSUME NEW f \in Files, OrphanStat(f)
        PROVE  FlagsOK'
    <3>1. /\ ld'.step \in {"orphans", "disable"}
          /\ ld'.todo \subseteq ld.todo
          /\ ld'.file \in ld.todo
          /\ ld.step = "orphans"
      BY <2>6 DEF OrphanStat, TypeOK, Locals
    <3>. QED
      BY <1>1, <2>1, <3>1 DEF FlagsOK, FlagInv, CreateNeverConflicts, IsLoaded
  <2>7. CASE OrphanDisable
    <3>1. ld'.step = "orphans" /\ ld'.todo = ld.todo /\ ld.step = "disable"
      BY <2>7 DEF OrphanDisable, TypeOK, Locals
    <3>. QED
      BY <1>1, <2>1, <3>1 DEF FlagsOK, FlagInv, CreateNeverConflicts, IsLoaded
  <2>8. CASE \E f \in Files : ScanSkip(f) \/ ScanLoad(f)
    <3>1. ld'.step \in {"scan", "stat"}
      BY <2>8 DEF ScanSkip, ScanLoad, TypeOK, Locals
    <3>. QED
      BY <2>1, <3>1, FlagsAtRest
  <2>9. CASE LoadStat \/ LoadParse \/ LoadMdd
    <3>1. ld'.step \in {"parse", "mdd", "exists"}
      BY <2>9 DEF LoadStat, LoadParse, LoadMdd, TypeOK, Locals
    <3>. QED
      BY <2>1, <3>1, FlagsAtRest
  <2>10. CASE LoadUpdate \/ LoadCreate \/ LoadFails \/ LeaveLoadAll
                 \/ WriteStatus \/ WriteStatusFails
    <3>1. ld'.step \in {"idle", "scan", "status"}
      BY <2>10, StepAfter
         DEF LoadUpdate, LoadCreate, Install, LoadFails, LeaveLoadAll,
             WriteStatus, WriteStatusFails, TypeOK, Locals
    <3>. QED
      BY <2>1, <3>1, FlagsAtRest
  <2>. QED
    BY <2>2, <2>3, <2>4, <2>5, <2>6, <2>7, <2>8, <2>9, <2>10 DEF EngineStep
<1>2. CASE LoadUpdate \/ LoadCreate
  <2>1. PICK info :
          /\ Install(info)
          /\ db' = [db EXCEPT ![ld.file] =
                      IF LoadUpdate /\ @ = NoRow THEN NoRow ELSE info]
          /\ db'[ld.file] # NoRow => info.enabled = db'[ld.file].enabled
    BY <1>0, <1>2 DEF LoadUpdate, LoadCreate, TypeOK
  <2>2. /\ \A f \in Files \ {ld.file} : db'[f] = db[f] /\ dicts'[f] = dicts[f]
        /\ dicts'[ld.file].enabled = info.enabled
    BY <1>0, <2>1 DEF Install, TypeOK
  <2>3. EnabledInSync'
    BY <2>1, <2>2 DEF FlagsOK, EnabledInSync, IsLoaded
  <2>4. ld'.step \in {"idle", "scan", "status"}
    BY <2>1, StepAfter DEF Install, TypeOK, Locals
  <2>. QED
    BY <2>3, <2>4, FlagsAtRest
<1>3. CASE OrphanDisable
  <2>1. /\ ld.step = "disable" /\ ld'.step = "orphans" /\ ld'.todo = ld.todo
        /\ dicts' = dicts
    BY <1>3 DEF OrphanDisable, TypeOK, Locals
  <2>2. \A f \in Files \ {ld.file} : db'[f] = db[f]
    BY <1>3 DEF OrphanDisable, SetRowEnabled, TypeOK
  <2>3. ~IsLoaded(ld.file)
    BY <2>1 DEF FlagsOK, FlagInv
  <2>4. EnabledInSync'
    BY <2>1, <2>2, <2>3 DEF FlagsOK, EnabledInSync, IsLoaded
  <2>. QED
    BY <2>1, <2>4 DEF FlagsOK, FlagInv, CreateNeverConflicts, IsLoaded
<1>4. CASE WriteStatus
  <2> DEFINE on == req[lock].on
  <2>1. /\ \A f \in Files \ {ld.file} : db'[f] = db[f] /\ dicts'[f] = dicts[f]
        /\ db'[ld.file] # NoRow => db'[ld.file].enabled = on
        /\ dicts'[ld.file] # NotLoaded => dicts'[ld.file].enabled = on
    BY <1>0, <1>4 DEF WriteStatus, SetRowEnabled, TypeOK, Row, LoadedDict
  <2>2. EnabledInSync'
    BY <2>1 DEF FlagsOK, EnabledInSync, IsLoaded
  <2>3. ld'.step = "idle"
    BY <1>4, StepAfter DEF WriteStatus
  <2>. QED
    BY <2>2, <2>3, FlagsAtRest
<1>5. CASE ~(LoadUpdate \/ LoadCreate \/ OrphanDisable \/ WriteStatus)
  <2>1. UNCHANGED <<db, dicts>>
    BY <1>5 DEF EngineStep, ScanSkip, ScanLoad, OrphanStat, LoadStat,
       LoadParse, LoadMdd, LoadExists, LoadGet, LoadFails, ListRows,
       ListFails, LeaveLoadAll, WriteStatusFails
  <2>. QED
    BY <1>1, <2>1
<1>. QED
  BY <1>2, <1>3, <1>4, <1>5

\* The flags agree after every step.
LEMMA FlagsStep ==
  ASSUME TypeOK, LockInv, FlagsOK, [Next]_vars
  PROVE  FlagsOK'
<1>1. CASE UNCHANGED vars
  BY <1>1, FlagsFrame DEF vars
<1>2. CASE Boot
  <2>1. EnabledInSync' /\ ld'.step = "scan"
    BY <1>2 DEF Boot, EnterLoadAll, NoLoad, FlagsOK, EnabledInSync, IsLoaded
  <2>. QED
    BY <2>1, FlagsAtRest
<1>3. CASE EngineStep
  BY <1>3, FlagsEngineStep
<1>4. CASE Crash
  <2>1. EnabledInSync' /\ ld'.step = "idle"
    BY <1>4, StepAfter DEF Crash, EnabledInSync, IsLoaded
  <2>. QED
    BY <2>1, FlagsAtRest
<1>5. ASSUME NEW p \in Handlers, Arrive(p) \/ HandlerStep(p) \/ LockStep(p)
      PROVE  FlagsOK'
  BY <1>5, FlagsHandlerStep
<1>6. CASE \E f \in Files : OperatorPuts(f) \/ OperatorRemoves(f)
  BY <1>6, FlagsFrame DEF OperatorPuts, OperatorRemoves
<1>. QED
  BY <1>1, <1>2, <1>3, <1>4, <1>5, <1>6 DEF Next

-----------------------------------------------------------------------------
(* Stamps and contents.                                                     *)

\* A step that only removes files or writes new versions, and installs no
\* dictionary, keeps the order of stamps and contents.
LEMMA StampFrame ==
  ASSUME TypeOK, LocalsInv, StampInv,
         writes' \in Nat, writes' >= writes,
         \A f \in Files : \/ disk'[f] = disk[f]
                          \/ disk'[f] = 0
                          \/ disk'[f] = writes' /\ writes' > writes,
         \A f \in Files : dicts'[f] # NotLoaded =>
            /\ dicts[f] # NotLoaded
            /\ dicts'[f].stamp = dicts[f].stamp
            /\ dicts'[f].content = dicts[f].content,
         UNCHANGED ld \/ ld'.step \in {"idle", "scan", "stat", "orphans",
                                       "disable", "status"}
  PROVE  StampInv'
<1>0. /\ writes \in Nat
      /\ \A f \in Files : disk[f] \in Nat
      /\ \A f \in Files : dicts[f] # NotLoaded =>
            dicts[f].stamp \in Nat /\ dicts[f].content \in Nat
      /\ ld.file \in Files /\ ld.stamp \in Nat /\ ld.content \in Nat
  BY BoundsAssumption DEF TypeOK, Versions, LoadedDict, Locals
<1>1. \A f \in Files : disk'[f] <= writes'
  BY <1>0 DEF StampInv
<1>2. \A f \in Files : dicts'[f] # NotLoaded =>
        /\ dicts'[f].stamp <= dicts'[f].content
        /\ dicts'[f].content <= writes'
        /\ disk'[f] # 0 => dicts'[f].content <= disk'[f]
  BY <1>0 DEF StampInv, IsLoaded
<1>3. /\ ld'.step = "parse" /\ disk'[ld'.file] # 0
           => ld'.stamp <= disk'[ld'.file]
      /\ ld'.step \in {"mdd", "exists", "get", "update", "create"}
           => (disk'[ld'.file] # 0 => ld'.content <= disk'[ld'.file])
  BY <1>0 DEF StampInv, LocalsInv
<1>. QED
  BY <1>1, <1>2, <1>3 DEF StampInv, IsLoaded

\* Stamps and contents stay in order while a method runs ...
LEMMA StampEngineStep ==
  ASSUME TypeOK, LockInv, LocalsInv, StampInv, EngineStep
  PROVE  StampInv'
<1>0. /\ writes \in Nat
      /\ \A f \in Files : disk[f] \in Nat
      /\ ld.file \in Files /\ ld.stamp \in Nat /\ ld.content \in Nat
  BY BoundsAssumption DEF TypeOK, Versions, Locals
<1>1. UNCHANGED <<disk, writes>>
  BY DEF EngineStep, ScanSkip, ScanLoad, OrphanStat, LoadStat, LoadParse,
         LoadMdd, LoadExists, LoadGet, LoadUpdate, LoadCreate, LoadFails,
         ListRows, ListFails, OrphanDisable, LeaveLoadAll, WriteStatus,
         WriteStatusFails, history
<1>2. CASE LoadStat
  <2>1. /\ dicts' = dicts /\ ld'.step = "parse"
        /\ ld'.stamp = disk[ld.file] /\ ld'.file = ld.file
    BY <1>2 DEF LoadStat, TypeOK, Locals
  <2>. QED
    BY <1>0, <1>1, <2>1 DEF StampInv, IsLoaded
<1>3. CASE LoadParse
  <2>1. /\ dicts' = dicts /\ ld'.step = "mdd"
        /\ ld'.content = disk[ld.file] /\ ld'.file = ld.file
    BY <1>3 DEF LoadParse, TypeOK, Locals
  <2>. QED
    BY <1>0, <1>1, <2>1 DEF StampInv, IsLoaded
<1>4. CASE LoadMdd \/ LoadExists \/ LoadGet
  <2>1. /\ ld.step \in {"mdd", "exists", "get"}
        /\ dicts' = dicts /\ ld'.step \in {"exists", "get", "update", "create"}
        /\ ld'.content = ld.content /\ ld'.file = ld.file
    BY <1>4 DEF LoadMdd, LoadExists, LoadGet, TypeOK, Locals
  <2>. QED
    BY <1>0, <1>1, <2>1 DEF StampInv, IsLoaded
<1>5. CASE LoadUpdate \/ LoadCreate
  <2>1. ld.step \in {"update", "create"} /\ \E info : Install(info)
    BY <1>5 DEF LoadUpdate, LoadCreate
  <2>2. /\ \A f \in Files \ {ld.file} : dicts'[f] = dicts[f]
        /\ dicts'[ld.file].stamp = ld.stamp
        /\ dicts'[ld.file].content = ld.content
    BY <1>0, <2>1 DEF Install, TypeOK
  <2>3. ld'.step \in {"idle", "scan", "status"}
    BY <2>1, StepAfter DEF Install, TypeOK, Locals
  <2>4. /\ ld.stamp <= ld.content /\ ld.content <= writes
        /\ disk[ld.file] # 0 => ld.content <= disk[ld.file]
    BY <1>0, <2>1 DEF LocalsInv, StampInv
  <2>. QED
    BY <1>0, <1>1, <2>2, <2>3, <2>4 DEF StampInv, IsLoaded
<1>6. CASE ~(LoadUpdate \/ LoadCreate)
           /\ ld'.step \in {"idle", "scan", "stat", "orphans", "disable",
                            "status"}
  <2>1. \A f \in Files : dicts'[f] # NotLoaded =>
            /\ dicts[f] # NotLoaded
            /\ dicts'[f].stamp = dicts[f].stamp
            /\ dicts'[f].content = dicts[f].content
    <3>1. CASE WriteStatus
      BY <1>0, <3>1 DEF WriteStatus, TypeOK, LoadedDict
    <3>2. CASE UNCHANGED dicts
      BY <3>2
    <3>3. WriteStatus \/ UNCHANGED dicts
      BY <1>6 DEF EngineStep, ScanSkip, ScanLoad, OrphanStat, LoadStat,
         LoadParse, LoadMdd, LoadExists, LoadGet, LoadFails, ListRows,
         ListFails, OrphanDisable, LeaveLoadAll, WriteStatusFails
    <3>. QED
      BY <3>1, <3>2, <3>3
  <2>. QED
    BY <1>0, <1>1, <1>6, <2>1, StampFrame
<1>. QED
  BY <1>2, <1>3, <1>4, <1>5, <1>6, EngineStepCases

\* ... and when the directory changes or a dictionary leaves the memory.
LEMMA StampStep ==
  ASSUME TypeOK, LockInv, LocalsInv, StampInv, [Next]_vars
  PROVE  StampInv'
<1>0. writes \in Nat /\ writes' \in Nat /\ writes' >= writes
  BY WritesGrow, BoundsAssumption DEF TypeOK, Versions
<1>1. CASE EngineStep
  BY <1>1, StampEngineStep
<1>2. CASE ~EngineStep
  <2>1. \A f \in Files : \/ disk'[f] = disk[f]
                         \/ disk'[f] = 0
                         \/ disk'[f] = writes' /\ writes' > writes
    <3>1. CASE UNCHANGED disk
      BY <3>1
    <3>2. ASSUME NEW p \in Handlers, RemoveMdx(p) \/ SavePart(p)
          PROVE  \A f \in Files : \/ disk'[f] = disk[f]
                                  \/ disk'[f] = 0
                                  \/ disk'[f] = writes' /\ writes' > writes
      BY <1>0, <3>2 DEF RemoveMdx, SavePart, TypeOK
    <3>3. CASE \E f \in Files : OperatorPuts(f) \/ OperatorRemoves(f)
      BY <1>0, <3>3 DEF OperatorPuts, OperatorRemoves, TypeOK
    <3>. QED
      BY <1>2, <3>1, <3>2, <3>3
         DEF Next, vars, Boot, Crash, Arrive, HandlerStep, LockStep,
             UpdateStatus, UpdateTitle, Delete, Upload, WriteTitle, RemoveMdd,
             DeleteRow, RefusePart, AcceptPart, SaveFails, FindByMdd,
             UploadDone, EnterSetEnabled, SetTitle, Unload, UploadLoadAll,
             EnterReload
  <2>2. \A f \in Files : dicts'[f] # NotLoaded =>
            /\ dicts[f] # NotLoaded
            /\ dicts'[f].stamp = dicts[f].stamp
            /\ dicts'[f].content = dicts[f].content
    <3>1. CASE UNCHANGED dicts
      BY <3>1
    <3>2. ASSUME NEW p \in Handlers, SetTitle(p) \/ Unload(p)
          PROVE  \A f \in Files : dicts'[f] # NotLoaded =>
                    /\ dicts[f] # NotLoaded
                    /\ dicts'[f].stamp = dicts[f].stamp
                    /\ dicts'[f].content = dicts[f].content
      <4>1. req[p] \in Request
        BY DEF TypeOK
      <4>2. CASE SetTitle(p)
        BY <4>1, <4>2 DEF SetTitle, TypeOK, Request, LoadedDict
      <4>3. CASE Unload(p)
        BY <4>1, <4>3 DEF Unload, TypeOK, Request
      <4>. QED
        BY <3>2, <4>2, <4>3
    <3>3. CASE Crash
      BY <3>3 DEF Crash
    <3>. QED
      BY <1>2, <3>1, <3>2, <3>3, HandlerFrame
         DEF Next, vars, Boot, LockStep, EnterSetEnabled, UploadLoadAll,
             EnterReload, OperatorPuts, OperatorRemoves
  <2>3. \/ UNCHANGED ld
        \/ ld'.step \in {"idle", "scan", "stat", "status"}
    BY <1>2, LocalsFrame
  <2>. QED
    BY <1>0, <2>1, <2>2, <2>3, StampFrame
<1>. QED
  BY <1>1, <1>2

-----------------------------------------------------------------------------
(* The index.                                                               *)

\* The live words, one by one.
LEMMA LiveWordsMember ==
  ASSUME NEW d, NEW word
  PROVE  word \in LiveWords(d) <=>
           \E f \in Files : /\ d[f] # NotLoaded
                            /\ d[f].enabled
                            /\ word \in Vocabulary[<<f, d[f].content>>]
BY DEF LiveWords

\* More dictionaries, more words.
LEMMA LiveWordsMono ==
  ASSUME NEW d, NEW e,
         \A f \in Files : d[f] # NotLoaded =>
           /\ e[f] # NotLoaded
           /\ e[f].enabled = d[f].enabled
           /\ e[f].content = d[f].content
  PROVE  LiveWords(d) \subseteq LiveWords(e)
BY LiveWordsMember

\* A step that touches neither memory nor index keeps the invariant when the
\* method and its progress allow no more than before.
LEMMA IndexFrame ==
  ASSUME IndexInv, UNCHANGED <<dicts, index>>,
         faults' = 0 => faults = 0,
         ld'.call # "LoadAll" => ld.call # "LoadAll",
         ld'.call # "LoadAll" /\ ld'.step # "status" /\ faults' = 0
            => ld.step # "status",
         ld'.call = "SetEnabled" /\ ld'.step # "status" => ~IsLoaded(ld'.file)
  PROVE  IndexInv'
BY DEF IndexInv, IsLoaded

\* A step that rebuilds the index and leaves the method establishes it.
LEMMA IndexRebuilt ==
  ASSUME index' = LiveWords(dicts'), ld'.call = "none"
  PROVE  IndexInv'
BY DEF IndexInv

\* Where the call is after the method's return.
LEMMA CallAfter ==
  /\ NoLoad.call = "none"
  /\ NextFile => ld'.call = "LoadAll"
  /\ \A p, q : Return(p, q) => ld'.call = "none"
<1>1. NoLoad.call = "none"
  BY DEF NoLoad
<1>2. NextFile => ld'.call = "LoadAll"
  BY DEF NextFile, NoLoad
<1>. QED
  BY <1>1, <1>2 DEF Return

\* Faults are only ever added.
LEMMA FaultsGrow ==
  ASSUME TypeOK, Next
  PROVE  faults' = 0 => faults = 0
<1>1. UNCHANGED faults \/ Fault
  <2>1. CASE EngineStep
    BY <2>1 DEF EngineStep, ScanSkip, ScanLoad, OrphanStat, LoadStat,
         LoadParse, LoadMdd, LoadExists, LoadGet, LoadUpdate, LoadCreate,
         LoadFails, LoadError, ListRows, ListFails, OrphanDisable,
         LeaveLoadAll, WriteStatus, WriteStatusFails, history
  <2>2. ASSUME NEW p \in Handlers, Arrive(p) \/ HandlerStep(p)
        PROVE  UNCHANGED faults \/ Fault
    BY <2>2 DEF Arrive, HandlerStep, UpdateStatus, UpdateTitle, Delete, Upload,
         WriteTitle, RemoveMdx, RemoveMdd, DeleteRow, RefusePart, AcceptPart,
         SavePart, SaveFails, FindByMdd, UploadDone, history
  <2>3. ASSUME NEW p \in Handlers, LockStep(p)
        PROVE  UNCHANGED faults \/ Fault
    BY <2>3 DEF LockStep, EnterSetEnabled, SetTitle, Unload, UploadLoadAll,
         EnterReload, history
  <2>4. CASE Boot \/ Crash \/ \E f \in Files : OperatorPuts(f) \/ OperatorRemoves(f)
    BY <2>4 DEF Boot, Crash, OperatorPuts, OperatorRemoves, history
  <2>. QED
    BY <2>1, <2>2, <2>3, <2>4 DEF Next
<1>2. Fault => faults' # 0
  <2>1. faults \in Nat
    BY BoundsAssumption DEF TypeOK
  <2>. QED
    BY <2>1 DEF Fault
<1>. QED
  BY <1>1, <1>2

\* A step of the method that holds the lock.
LEMMA IndexEngineStep ==
  ASSUME TypeOK, LockInv, IndexInv, EngineStep
  PROVE  IndexInv'
<1>0. ld.file \in Files /\ (faults' = 0 => faults = 0)
  <2>1. Next
    BY DEF Next
  <2>. QED
    BY <2>1, FaultsGrow DEF TypeOK, Locals
<1>1. CASE ld.call = "LoadAll" /\ ~LeaveLoadAll
  <2>1. ld'.call = "LoadAll"
    <3>1. CASE LoadUpdate \/ LoadCreate \/ LoadFails
      BY <1>1, <3>1, CallAfter DEF LoadUpdate, LoadCreate, Install, LoadFails
    <3>2. CASE WriteStatus \/ WriteStatusFails
      BY <1>1, <3>2 DEF WriteStatus, WriteStatusFails, LockInv
    <3>3. CASE \E f \in Files : ScanSkip(f) \/ ScanLoad(f) \/ OrphanStat(f)
      BY <1>1, <3>3 DEF ScanSkip, ScanLoad, OrphanStat, TypeOK, Locals
    <3>4. CASE LoadStat \/ LoadParse \/ LoadMdd \/ LoadExists \/ LoadGet
      BY <1>1, <3>4 DEF LoadStat, LoadParse, LoadMdd, LoadExists, LoadGet,
                        TypeOK, Locals
    <3>5. CASE ListRows \/ ListFails \/ OrphanDisable
      BY <1>1, <3>5 DEF ListRows, ListFails, OrphanDisable, TypeOK, Locals
    <3>. QED
      BY <1>1, <3>1, <3>2, <3>3, <3>4, <3>5 DEF EngineStep
  <2>. QED
    BY <2>1 DEF IndexInv
<1>2. CASE LeaveLoadAll
  BY <1>2, IndexRebuilt, CallAfter DEF LeaveLoadAll
<1>3. CASE ld.call # "LoadAll" /\ (LoadUpdate \/ LoadCreate)
  <2>1. ld.step \in {"update", "create"} /\ \E info : Install(info)
    BY <1>3 DEF LoadUpdate, LoadCreate
  <2>2. CASE ld.call = "Reload"
    <3>1. index' = LiveWords(dicts') /\ ld'.call = "none"
      BY <2>1, <2>2, CallAfter DEF Install
    <3>. QED
      BY <3>1, IndexRebuilt
  <2>3. CASE ld.call = "SetEnabled"
    <3>1. /\ ld'.step = "status" /\ ld'.call = "SetEnabled"
          /\ index' = index
          /\ \A f \in Files \ {ld.file} : dicts'[f] = dicts[f]
      BY <1>0, <2>1, <2>3 DEF Install, TypeOK, Locals
    <3>2. ~IsLoaded(ld.file) /\ index \subseteq LiveWords(dicts)
      BY <2>1, <2>3 DEF IndexInv
    <3>3. LiveWords(dicts) \subseteq LiveWords(dicts')
      BY <3>1, <3>2, LiveWordsMono DEF IsLoaded
    <3>. QED
      BY <3>1, <3>2, <3>3 DEF IndexInv
  <2>. QED
    BY <1>3, <2>1, <2>2, <2>3 DEF Install
<1>4. CASE ld.call # "LoadAll" /\ LoadFails
  <2>1. ld'.call = "none" /\ ld.step # "status" /\ UNCHANGED <<dicts, index>>
    BY <1>4, CallAfter DEF LoadFails, LoadError
  <2>. QED
    BY <1>0, <1>4, <2>1, IndexFrame
<1>5. CASE WriteStatus
  BY <1>5, IndexRebuilt, CallAfter DEF WriteStatus
<1>6. CASE WriteStatusFails
  <2>1. ld.call = "SetEnabled" /\ ld'.call = "none"
    BY <1>6, CallAfter DEF WriteStatusFails, LockInv
  <2>2. faults' # 0 /\ UNCHANGED <<dicts, index>>
    BY <1>6 DEF WriteStatusFails, Fault, TypeOK
  <2>. QED
    BY <2>1, <2>2, IndexFrame
<1>7. CASE ld.call # "LoadAll"
             /\ (LoadStat \/ LoadParse \/ LoadMdd \/ LoadExists \/ LoadGet)
  <2>1. /\ UNCHANGED <<dicts, index>>
        /\ ld'.call = ld.call /\ ld'.file = ld.file
        /\ ld.step # "status"
    BY <1>7 DEF LoadStat, LoadParse, LoadMdd, LoadExists, LoadGet, TypeOK,
                Locals
  <2>2. ld.call = "SetEnabled" => ~IsLoaded(ld.file)
    BY <2>1 DEF IndexInv
  <2>. QED
    BY <1>0, <1>7, <2>1, <2>2, IndexFrame
<1>8. ASSUME ld.call # "LoadAll"
      PROVE  /\ ~(ListRows \/ ListFails \/ OrphanDisable \/ LeaveLoadAll)
             /\ ~\E f \in Files : ScanSkip(f) \/ ScanLoad(f) \/ OrphanStat(f)
  BY <1>8 DEF LockInv, ListRows, ListFails, OrphanDisable, LeaveLoadAll,
              ScanSkip, ScanLoad, OrphanStat
<1>. QED
  BY <1>1, <1>2, <1>3, <1>4, <1>5, <1>6, <1>7, <1>8 DEF EngineStep

\* The index stays in step with the memory at every other step too.
LEMMA IndexStep ==
  ASSUME TypeOK, LockInv, IndexInv, [Next]_vars
  PROVE  IndexInv'
<1>0. lock = Free => ld.call = "none" /\ ld.step = "idle"
  BY DEF LockInv
<1>1. CASE UNCHANGED vars
  BY <1>1 DEF vars, history, IndexInv, IsLoaded
<1>2. CASE Boot
  <2>1. ld'.call = "LoadAll"
    BY <1>2 DEF Boot, EnterLoadAll, NoLoad
  <2>. QED
    BY <2>1 DEF IndexInv
<1>3. CASE EngineStep
  BY <1>3, IndexEngineStep
<1>4. CASE Crash
  <2>1. index' = {} /\ LiveWords(dicts') = {}
    BY <1>4 DEF Crash, LiveWords
  <2>. QED
    BY <1>4, <2>1, CallAfter, IndexRebuilt DEF Crash
<1>5. ASSUME NEW p \in Handlers, Arrive(p) \/ HandlerStep(p)
      PROVE  IndexInv'
  <2>1. UNCHANGED <<dicts, index, lock, ld>>
    BY <1>5, HandlerFrame
  <2>2. faults' = 0 => faults = 0
    BY <1>5, FaultsGrow DEF Next
  <2>. QED
    BY <2>1, <2>2 DEF IndexInv, IsLoaded
<1>6. ASSUME NEW p \in Handlers, LockStep(p)
      PROVE  IndexInv'
  <2>0. req[p] \in Request
    BY DEF TypeOK
  <2>1. CASE EnterSetEnabled(p)
    <3>1. UNCHANGED <<dicts, index>> /\ (faults' = 0 => faults = 0)
          /\ ld.call = "none" /\ ld.step = "idle"
      BY <1>0, <2>1 DEF EnterSetEnabled, Fault, TypeOK
    <3>2. \/ UNCHANGED ld
          \/ Begin("SetEnabled", "stat", req[p].file)
               /\ ~IsLoaded(req[p].file)
          \/ Begin("SetEnabled", "status", req[p].file)
      BY <2>1 DEF EnterSetEnabled
    <3>3. \/ UNCHANGED ld
          \/ ld'.call = "SetEnabled" /\ ld'.step = "stat"
               /\ ld'.file = req[p].file /\ ~IsLoaded(req[p].file)
          \/ ld'.call = "SetEnabled" /\ ld'.step = "status"
      BY <3>2 DEF Begin, NoLoad
    <3>. QED
      BY <3>1, <3>3, IndexFrame
  <2>2. CASE EnterReload(p)
    <3>1. UNCHANGED <<dicts, index>> /\ (faults' = 0 => faults = 0)
          /\ ld.call = "none" /\ ld.step = "idle"
      BY <1>0, <2>2 DEF EnterReload, Fault, TypeOK
    <3>2. UNCHANGED ld \/ ld'.call = "Reload"
      BY <2>2 DEF EnterReload, Begin, NoLoad
    <3>. QED
      BY <3>1, <3>2, IndexFrame
  <2>3. CASE UploadLoadAll(p)
    <3>1. ld'.call = "LoadAll"
      BY <2>3 DEF UploadLoadAll, EnterLoadAll, NoLoad
    <3>. QED
      BY <3>1 DEF IndexInv
  <2>4. CASE SetTitle(p)
    <3>1. /\ \A f \in Files : dicts'[f] # NotLoaded =>
               /\ dicts[f] # NotLoaded
               /\ dicts[f].enabled = dicts'[f].enabled
               /\ dicts[f].content = dicts'[f].content
          /\ \A f \in Files : dicts[f] # NotLoaded =>
               /\ dicts'[f] # NotLoaded
               /\ dicts'[f].enabled = dicts[f].enabled
               /\ dicts'[f].content = dicts[f].content
      BY <2>0, <2>4, NullsAssumption DEF SetTitle, TypeOK, Request, LoadedDict
    <3>2. LiveWords(dicts') = LiveWords(dicts)
      <4>1. LiveWords(dicts) \subseteq LiveWords(dicts')
        BY <3>1, LiveWordsMono
      <4>2. LiveWords(dicts') \subseteq LiveWords(dicts)
        BY <3>1, LiveWordsMono
      <4>. QED
        BY <4>1, <4>2
    <3>3. UNCHANGED <<index, ld, faults>> /\ ld.call = "none"
      BY <1>0, <2>4 DEF SetTitle, history
    <3>. QED
      BY <3>2, <3>3 DEF IndexInv
  <2>5. CASE Unload(p)
    BY <1>0, <2>5, IndexRebuilt DEF Unload
  <2>. QED
    BY <1>6, <2>1, <2>2, <2>3, <2>4, <2>5 DEF LockStep
<1>7. CASE \E f \in Files : OperatorPuts(f) \/ OperatorRemoves(f)
  BY <1>7 DEF OperatorPuts, OperatorRemoves, history, IndexInv, IsLoaded
<1>. QED
  BY <1>1, <1>2, <1>3, <1>4, <1>5, <1>6, <1>7 DEF Next

-----------------------------------------------------------------------------
(* The theorems.                                                            *)

\* The invariant holds at the start ...
LEMMA InitInv == Init => IInv
<1> SUFFICES ASSUME Init PROVE IInv
  OBVIOUS
<1>1. TypeOK
  BY TypeInit
<1>2. LockInv
  BY ProcsAssumption DEF Init, LockInv, NoLoad, Procs
<1>3. LocalsInv /\ CreateNeverConflicts /\ FlagInv /\ EnabledInSync
  BY DEF Init, LocalsInv, CreateNeverConflicts, FlagInv, EnabledInSync, NoLoad,
         IsLoaded
<1>4. StampInv
  BY DEF Init, StampInv, NoLoad, IsLoaded
<1>5. LiveWords(dicts) = {}
  BY DEF Init, LiveWords
<1>6. IndexInv
  BY <1>5, CallAfter DEF Init, IndexInv
<1>. QED
  BY <1>1, <1>2, <1>3, <1>4, <1>6 DEF IInv

\* ... and every step keeps it.
LEMMA NextInv == IInv /\ [Next]_vars => IInv'
<1> SUFFICES ASSUME IInv, [Next]_vars PROVE IInv'
  OBVIOUS
<1>1. TypeOK' /\ LockInv' /\ LocalsInv'
  BY TypeStep, LockInvStep, LocalsInvStep DEF IInv
<1>2. FlagsOK'
  BY FlagsStep DEF IInv, FlagsOK
<1>3. StampInv' /\ IndexInv'
  BY StampStep, IndexStep DEF IInv
<1>. QED
  BY <1>1, <1>2, <1>3 DEF IInv, FlagsOK

\* The strengthening is an invariant of the specification.
THEOREM Invariance == Spec => []IInv
BY InitInv, NextInv, PTL DEF Spec

\* Every reachable state is well typed.
THEOREM TypeCorrect == Spec => []TypeOK
<1>1. IInv => TypeOK
  BY DEF IInv
<1>. QED
  BY <1>1, Invariance, PTL

\* The enabled flag in memory is the one in the table, in every interleaving of
\* requests, loads, failures and crashes.
THEOREM FlagsAgree == Spec => []EnabledInSync
<1>1. IInv => EnabledInSync
  BY DEF IInv
<1>. QED
  BY <1>1, Invariance, PTL

\* loadDict never collides with the UNIQUE constraint on filenames.
THEOREM NoCreateConflict == Spec => []CreateNeverConflicts
<1>1. IInv => CreateNeverConflicts
  BY DEF IInv
<1>. QED
  BY <1>1, Invariance, PTL

\* A dictionary LoadAll would skip holds the content of its file.
THEOREM SkippingIsSafe == Spec => []SkipIsSafe
<1>1. IInv => SkipIsSafe
  <2> SUFFICES ASSUME IInv, NEW f \in Files, UpToDate(f)
               PROVE  dicts[f].content = disk[f]
    BY DEF SkipIsSafe
  <2>1. dicts[f] \in LoadedDict /\ disk[f] \in Nat
    BY BoundsAssumption DEF IInv, TypeOK, UpToDate, IsLoaded
  <2>2. dicts[f].content \in Nat /\ dicts[f].stamp \in Nat
    BY <2>1, BoundsAssumption DEF LoadedDict, Versions
  <2>. QED
    BY <2>1, <2>2 DEF IInv, StampInv, UpToDate
<1>. QED
  BY <1>1, Invariance, PTL

\* Every suggestion of the index is answered by Search.
THEOREM IndexMatches == Spec => []SuggestionsResolve
<1>1. IInv => SuggestionsResolve
  <2> SUFFICES ASSUME IInv, lock = Free, NEW word \in index
               PROVE  SearchHits(word) # {}
    BY DEF SuggestionsResolve
  <2>1. word \in LiveWords(dicts)
    BY DEF IInv, LockInv, IndexInv
  <2>. QED
    BY <2>1, LiveWordsMember DEF SearchHits, IsLoaded
<1>. QED
  BY <1>1, Invariance, PTL

\* No word of a live dictionary is missing from the index while nothing failed.
THEOREM NothingMissing == Spec => []NoWordMissing
<1>1. IInv => NoWordMissing
  BY DEF IInv, LockInv, IndexInv, NoWordMissing
<1>. QED
  BY <1>1, Invariance, PTL

-----------------------------------------------------------------------------
(* What no step may do.                                                     *)

\* A load and a status change keep every dictionary that is in memory there.
LEMMA EngineKeepsLoaded ==
  ASSUME TypeOK, LockInv, LocalsInv, EngineStep
  PROVE  \A f \in Files : dicts[f] # NotLoaded => dicts'[f] # NotLoaded
<1>0. ld.file \in Files /\ ld.content \in 0..MaxVersion
  BY DEF TypeOK, Locals
<1>1. CASE LoadUpdate \/ LoadCreate
  <2>1. PICK info \in Row : Install(info)
    BY <1>0, <1>1, TitlesAssumption
       DEF LoadUpdate, LoadCreate, TypeOK, Locals, Row, LocalsInv
  <2>2. [enabled |-> info.enabled, title |-> info.title, mdd |-> info.mdd,
         content |-> ld.content, stamp |-> ld.stamp] \in LoadedDict
    BY <1>1, BoundsAssumption
       DEF LoadUpdate, LoadCreate, LoadedDict, Row, LocalsInv, TypeOK, Versions
  <2>. QED
    BY <1>0, <2>1, <2>2, NullsAssumption DEF Install, TypeOK
<1>2. CASE WriteStatus
  <2> DEFINE on == req[lock].on
             d == [dicts[ld.file] EXCEPT !.enabled = on]
  <2>1. on \in BOOLEAN
    BY <1>2 DEF WriteStatus, LockInv, TypeOK, Request
  <2>2. dicts[ld.file] # NotLoaded => d \in LoadedDict
    BY <1>0, <2>1 DEF TypeOK, LoadedDict
  <2>3. dicts' = [dicts EXCEPT ![ld.file] =
                     IF dicts[ld.file] = NotLoaded THEN NotLoaded ELSE d]
    BY <1>2 DEF WriteStatus
  <2> HIDE DEF d
  <2>. QED
    BY <1>0, <2>2, <2>3, NullsAssumption DEF TypeOK
<1>. QED
  BY <1>1, <1>2 DEF EngineStep, ScanSkip, ScanLoad, OrphanStat, LoadStat,
     LoadParse, LoadMdd, LoadExists, LoadGet, LoadFails, ListRows, ListFails,
     OrphanDisable, LeaveLoadAll, WriteStatusFails

\* A dictionary leaves the memory only by the Unload of a DELETE, or when the
\* process dies: a reload or a LoadAll that fails keeps the old one.
THEOREM OnlyDeletesUnload == Spec => OnlyDeleteUnloads
<1> DEFINE Kept == \A f \in Files : IsLoaded(f) /\ ~IsLoaded(f)'
                     => \/ \E p \in Handlers :
                             req[p].pc = "unload" /\ req[p].file = f
                        \/ crashes' = crashes + 1
<1>1. IInv /\ [Next]_vars => [Kept]_vars
  <2> SUFFICES ASSUME IInv, Next PROVE Kept
    OBVIOUS
  <2>0. TypeOK
    BY DEF IInv
  <2>1. CASE EngineStep
    BY <2>1, EngineKeepsLoaded DEF IInv, IsLoaded
  <2>2. CASE UNCHANGED dicts
    BY <2>2 DEF IsLoaded
  <2>3. ASSUME NEW p \in Handlers, SetTitle(p)
        PROVE  Kept
    <3> DEFINE f == req[p].file
               d == [dicts[f] EXCEPT !.title = req[p].title]
    <3>1. f \in Files /\ req[p].title \in Titles
      BY <2>0 DEF TypeOK, Request
    <3>2. dicts[f] # NotLoaded => d \in LoadedDict
      BY <2>0, <3>1 DEF TypeOK, LoadedDict
    <3>3. dicts' = [dicts EXCEPT ![f] =
                       IF dicts[f] = NotLoaded THEN NotLoaded ELSE d]
      BY <2>3 DEF SetTitle
    <3> HIDE DEF d, f
    <3>. QED
      BY <2>0, <3>1, <3>2, <3>3, NullsAssumption DEF TypeOK, IsLoaded
  <2>4. ASSUME NEW p \in Handlers, Unload(p)
        PROVE  Kept
    BY <2>0, <2>4 DEF Unload, TypeOK, IsLoaded
  <2>5. CASE Crash
    BY <2>5 DEF Crash
  <2>. QED
    BY <2>0, <2>1, <2>2, <2>3, <2>4, <2>5, HandlerFrame
       DEF Next, Boot, LockStep, EnterSetEnabled, UploadLoadAll, EnterReload,
           OperatorPuts, OperatorRemoves
<1>. QED
  BY <1>1, Invariance, PTL DEF Spec, OnlyDeleteUnloads

\* A row that is disabled is enabled only while the request that asks for it
\* holds the lock: no load, reload, restart or orphan check does it.
THEOREM DisabledRowsStick == Spec => DisabledSticks
<1> DEFINE Sticks == \A f \in Files :
                       db[f] # NoRow /\ db'[f] # NoRow /\ ~db[f].enabled
                         => \/ ~db'[f].enabled
                            \/ /\ lock \in Handlers
                               /\ req[lock].on /\ req[lock].file = f
<1>1. IInv /\ [Next]_vars => [Sticks]_vars
  <2> SUFFICES ASSUME IInv, Next PROVE Sticks
    OBVIOUS
  <2>0. TypeOK /\ ld.file \in Files
    BY DEF IInv, TypeOK, Locals
  <2>1. CASE UNCHANGED db
    BY <2>1
  <2>2. CASE LoadUpdate \/ LoadCreate
    <3>1. \A f \in Files \ {ld.file} : db'[f] = db[f]
      BY <2>0, <2>2 DEF LoadUpdate, LoadCreate, TypeOK
    <3>2. db[ld.file] # NoRow => LoadUpdate
      BY <2>2 DEF LoadCreate
    <3>3. db[ld.file] # NoRow => db'[ld.file].enabled = db[ld.file].enabled
      <4> SUFFICES ASSUME db[ld.file] # NoRow, LoadUpdate
                   PROVE  db'[ld.file].enabled = db[ld.file].enabled
        BY <3>2
      <4>1. ld.row \in Row /\ ld.row.enabled = db[ld.file].enabled
        BY DEF LoadUpdate, IInv, LocalsInv, FlagInv
      <4>2. db'[ld.file] = [ld.row EXCEPT !.mdd = ld.mdd]
        BY <2>0 DEF LoadUpdate, TypeOK
      <4>. QED
        BY <4>1, <4>2 DEF Row
    <3>. QED
      BY <3>1, <3>3
  <2>3. CASE OrphanDisable
    BY <2>0, <2>3 DEF OrphanDisable, SetRowEnabled, TypeOK, Row
  <2>4. CASE WriteStatus
    <3>1. /\ \A f \in Files \ {ld.file} : db'[f] = db[f]
          /\ db'[ld.file] # NoRow => db'[ld.file].enabled = req[lock].on
      BY <2>0, <2>4 DEF WriteStatus, SetRowEnabled, TypeOK, Row
    <3>2. lock \in Handlers /\ req[lock].file = ld.file
      BY <2>4 DEF WriteStatus, IInv, LockInv
    <3>. QED
      BY <3>1, <3>2
  <2>5. ASSUME NEW p \in Handlers, WriteTitle(p) \/ DeleteRow(p)
        PROVE  Sticks
    <3>1. req[p].file \in Files
      BY <2>0 DEF TypeOK, Request
    <3>. QED
      BY <2>0, <2>5, <3>1 DEF WriteTitle, DeleteRow, TypeOK, Row
  <2>. QED
    BY <2>1, <2>2, <2>3, <2>4, <2>5
       DEF Next, Boot, Crash, EngineStep, ScanSkip, ScanLoad, OrphanStat,
           LoadStat, LoadParse, LoadMdd, LoadExists, LoadGet, LoadFails,
           ListRows, ListFails, LeaveLoadAll, WriteStatusFails, Arrive,
           UpdateStatus, UpdateTitle, Delete, Upload, HandlerStep, RemoveMdx,
           RemoveMdd, RefusePart, AcceptPart, SavePart, SaveFails, FindByMdd,
           UploadDone, LockStep, EnterSetEnabled, SetTitle, Unload,
           UploadLoadAll, EnterReload, OperatorPuts, OperatorRemoves
<1>. QED
  BY <1>1, Invariance, PTL DEF Spec, DisabledSticks

-----------------------------------------------------------------------------
(* What a search sees: DictEngine implements Catalogue.                     *)

Memory == [Files -> LoadedDict \cup {NotLoaded}]

\* What a search reads of one dictionary.
LEMMA ShelfEntry ==
  ASSUME NEW d \in Memory, NEW f \in Files
  PROVE  /\ d[f] = NotLoaded => Shelf(d)[f] = NotLoaded
         /\ d[f] # NotLoaded =>
              /\ Shelf(d)[f] # NotLoaded
              /\ Shelf(d)[f] \in Readers!Entry
              /\ Shelf(d)[f] = [enabled |-> d[f].enabled,
                                content |-> d[f].content]
              /\ Shelf(d)[f].enabled = d[f].enabled
              /\ Shelf(d)[f].content = d[f].content
<1>1. CASE d[f] = NotLoaded
  BY <1>1 DEF Shelf
<1>2. CASE d[f] # NotLoaded
  <2>1. d[f] \in LoadedDict
    BY <1>2 DEF Memory
  <2>2. Shelf(d)[f] = [enabled |-> d[f].enabled, content |-> d[f].content]
    BY <1>2 DEF Shelf
  <2>3. Shelf(d)[f] \in [enabled : BOOLEAN, content : Versions]
    BY <2>1, <2>2 DEF LoadedDict
  <2>. QED
    BY <1>2, <2>2, <2>3, NullsAssumption DEF Readers!Entry, Versions
<1>. QED
  BY <1>1, <1>2

\* The words of the shelf are the live words of the memory.
LEMMA ShelfWords ==
  ASSUME NEW d \in Memory
  PROVE  Readers!Words(Shelf(d)) = LiveWords(d)
<1>1. {g \in Files : Shelf(d)[g] # NotLoaded /\ Shelf(d)[g].enabled}
        = {g \in Files : d[g] # NotLoaded /\ d[g].enabled}
  <2>1. ASSUME NEW g \in Files
        PROVE  Shelf(d)[g] # NotLoaded /\ Shelf(d)[g].enabled
                 <=> d[g] # NotLoaded /\ d[g].enabled
    BY ShelfEntry
  <2>. QED
    BY <2>1
<1>2. \A g \in Files : d[g] # NotLoaded => Shelf(d)[g].content = d[g].content
  BY ShelfEntry
<1>. QED
  BY <1>1, <1>2 DEF Readers!Words, LiveWords

\* Two memories that agree on all that is read are one shelf.
LEMMA SameShelf ==
  ASSUME NEW d \in Memory, NEW e \in Memory,
         \A f \in Files : \/ e[f] = d[f]
                          \/ /\ d[f] # NotLoaded /\ e[f] # NotLoaded
                             /\ e[f].enabled = d[f].enabled
                             /\ e[f].content = d[f].content
  PROVE  Shelf(e) = Shelf(d)
<1>1. ASSUME NEW f \in Files PROVE Shelf(e)[f] = Shelf(d)[f]
  <2>1. CASE e[f] = d[f]
    BY <2>1 DEF Shelf
  <2>2. CASE /\ d[f] # NotLoaded /\ e[f] # NotLoaded
             /\ e[f].enabled = d[f].enabled
             /\ e[f].content = d[f].content
    BY <2>2 DEF Shelf
  <2>. QED
    BY <2>1, <2>2
<1>. QED
  BY <1>1 DEF Shelf

\* A change of one dictionary is a change of one place on the shelf.
LEMMA OnePlace ==
  ASSUME NEW d \in Memory, NEW e \in Memory, NEW f \in Files,
         \A g \in Files \ {f} : e[g] = d[g]
  PROVE  Shelf(e) = [Shelf(d) EXCEPT ![f] = Shelf(e)[f]]
<1>1. \A g \in Files \ {f} : Shelf(e)[g] = Shelf(d)[g]
  BY DEF Shelf
<1>. QED
  BY <1>1 DEF Shelf

\* A method that returns with the index rebuilt lets readers in to it.
LEMMA Published ==
  ASSUME TypeOK', index' = LiveWords(dicts'), lock' = Free
  PROVE  Readers!Publish
<1>1. dicts' \in Memory
  BY DEF TypeOK, Memory
<1>2. Readers!Words(Shelf(dicts')) = LiveWords(dicts')
  BY <1>1, ShelfWords
<1>. QED
  BY <1>2 DEF Readers!Publish

\* What is about to be installed stays fresh while loadDict runs.
LEMMA FreshStep ==
  ASSUME IInv, FreshInv, [Next]_vars
  PROVE  FreshInv'
<1>0. TypeOK /\ LockInv /\ ld.file \in Files
  BY DEF IInv, TypeOK, Locals
<1>1. CASE ld'.step \in {"idle", "scan", "stat", "orphans", "disable",
                         "status"}
  BY <1>1 DEF FreshInv
<1>2. CASE ~EngineStep /\ UNCHANGED ld
  <2>1. UNCHANGED dicts \/ ld.step = "idle" \/ ld'.step = "idle"
    <3>1. ASSUME NEW p \in Handlers, LockStep(p)
          PROVE  UNCHANGED dicts \/ ld.step = "idle"
      BY <1>0, <3>1 DEF LockStep, EnterSetEnabled, SetTitle, Unload,
         UploadLoadAll, EnterLoadAll, EnterReload, LockInv
    <3>2. CASE Crash
      BY <3>2, StepAfter DEF Crash
    <3>. QED
      BY <1>0, <1>2, <3>1, <3>2, HandlerFrame
         DEF Next, vars, Boot, OperatorPuts, OperatorRemoves
  <2>. QED
    BY <1>1, <1>2, <2>1 DEF FreshInv, IsLoaded
<1>3. CASE LoadStat
  BY <1>0, <1>3 DEF LoadStat, FreshInv, TypeOK, Locals
<1>4. CASE LoadParse
  <2>1. /\ ld'.step = "mdd" /\ ld'.file = ld.file /\ UNCHANGED dicts
        /\ ld'.content = disk[ld.file] /\ disk[ld.file] # 0
    BY <1>0, <1>4 DEF LoadParse, Parses, TypeOK, Locals
  <2>2. IsLoaded(ld.file) => dicts[ld.file].content <= disk[ld.file]
    BY <1>0, <2>1 DEF IInv, StampInv
  <2>. QED
    BY <2>1, <2>2 DEF FreshInv, IsLoaded
<1>5. CASE LoadMdd \/ LoadExists
  <2>1. /\ ld.step \in {"mdd", "exists"}
        /\ ld'.step \in {"exists", "get", "create"}
        /\ ld'.file = ld.file /\ ld'.content = ld.content /\ UNCHANGED dicts
    BY <1>0, <1>5 DEF LoadMdd, LoadExists, TypeOK, Locals
  <2>. QED
    BY <2>1 DEF FreshInv, IsLoaded
<1>6. CASE LoadGet
  <2>1. /\ ld.step = "get" /\ ld'.step = "update"
        /\ ld'.file = ld.file /\ ld'.content = ld.content /\ UNCHANGED dicts
        /\ ld'.row = db[ld.file] /\ db[ld.file] # NoRow
    BY <1>0, <1>6 DEF LoadGet, TypeOK, Locals
  <2>2. IsLoaded(ld.file) => dicts[ld.file].enabled = db[ld.file].enabled
    BY <1>0, <2>1 DEF IInv, EnabledInSync
  <2>. QED
    BY <2>1, <2>2 DEF FreshInv, IsLoaded
<1>. QED
  BY <1>0, <1>1, <1>2, <1>3, <1>4, <1>5, <1>6, EngineStepCases, LocalsFrame

\* A load that succeeds reads one file: what was found of it stays found.
LEMMA LoadIsRead ==
  ASSUME IInv, FreshInv, TypeOK', LoadUpdate \/ LoadCreate
  PROVE  Readers!Read(ld.file) /\ ld.file \in Files
<1>0. /\ TypeOK /\ LockInv /\ LocalsInv /\ ld.file \in Files /\ lock # Free
      /\ ld.step \in {"update", "create"}
  BY DEF IInv, TypeOK, Locals, LockInv, LoadUpdate, LoadCreate
<1>1. dicts \in Memory /\ dicts' \in Memory
  BY <1>0 DEF TypeOK, Memory
<1>2. PICK info \in Row :
        /\ Install(info)
        /\ IsLoaded(ld.file) /\ dicts[ld.file].enabled => info.enabled
  <2>1. CASE LoadUpdate
    <3>1. [ld.row EXCEPT !.mdd = ld.mdd] \in Row
      BY <1>0, <2>1 DEF LoadUpdate, LocalsInv, TypeOK, Locals, Row
    <3>2. [ld.row EXCEPT !.mdd = ld.mdd].enabled = ld.row.enabled
      BY <1>0, <2>1 DEF LoadUpdate, LocalsInv, Row
    <3>3. IsLoaded(ld.file) => ld.row.enabled = dicts[ld.file].enabled
      BY <2>1 DEF LoadUpdate, FreshInv
    <3>4. Install([ld.row EXCEPT !.mdd = ld.mdd])
      BY <2>1 DEF LoadUpdate
    <3>. QED
      BY <3>1, <3>2, <3>3, <3>4
  <2>2. CASE LoadCreate
    <3>1. [enabled |-> TRUE, title |-> DefaultTitle, mdd |-> ld.mdd] \in Row
      BY <1>0, TitlesAssumption DEF TypeOK, Locals, Row
    <3>. QED
      BY <2>2, <3>1 DEF LoadCreate
  <2>. QED
    BY <2>1, <2>2
<1>3. /\ \A g \in Files \ {ld.file} : dicts'[g] = dicts[g]
      /\ dicts'[ld.file].enabled = info.enabled
      /\ dicts'[ld.file].content = ld.content
  BY <1>0, <1>2 DEF Install, TypeOK
<1>4. dicts'[ld.file] # NotLoaded
  <2>1. ld.content \in Versions /\ ld.stamp \in Versions
    BY <1>0, BoundsAssumption DEF LocalsInv, TypeOK, Locals, Versions
  <2>2. [enabled |-> info.enabled, title |-> info.title, mdd |-> info.mdd,
         content |-> ld.content, stamp |-> ld.stamp] \in LoadedDict
    BY <2>1 DEF LoadedDict, Row
  <2>. QED
    BY <1>0, <1>2, <2>2, NullsAssumption DEF Install, TypeOK
<1>5. Shelf(dicts') = [Shelf(dicts) EXCEPT ![ld.file] = Shelf(dicts')[ld.file]]
  BY <1>0, <1>1, <1>3, OnePlace
<1>6. /\ Shelf(dicts')[ld.file] \in Readers!Entry
      /\ Shelf(dicts')[ld.file].enabled = info.enabled
      /\ Shelf(dicts')[ld.file].content = ld.content
  BY <1>0, <1>1, <1>3, <1>4, ShelfEntry
<1>7. Shelf(dicts)[ld.file] # NotLoaded =>
        /\ Shelf(dicts)[ld.file].enabled => info.enabled
        /\ Shelf(dicts)[ld.file].content <= ld.content
  BY <1>0, <1>1, <1>2, ShelfEntry DEF FreshInv, IsLoaded
<1>8. Readers!Publish \/ UNCHANGED <<index, lock # Free>>
  <2>1. CASE ld.call = "Reload"
    <3>1. index' = LiveWords(dicts') /\ lock' = Free
      BY <1>0, <1>2, <2>1 DEF Install, Return
    <3>. QED
      BY <3>1, Published
  <2>2. CASE ld.call # "Reload"
    BY <1>0, <1>2, <2>2 DEF Install
  <2>. QED
    BY <2>1, <2>2
<1>. QED
  BY <1>0, <1>5, <1>6, <1>7, <1>8 DEF Readers!Read

\* A status change switches one dictionary.
LEMMA StatusIsSwitch ==
  ASSUME IInv, TypeOK', WriteStatus
  PROVE  Readers!Switch(ld.file) /\ ld.file \in Files
<1>0. /\ TypeOK /\ ld.file \in Files /\ lock # Free
      /\ lock \in Handlers /\ req[lock].on \in BOOLEAN
  BY DEF IInv, TypeOK, Locals, LockInv, WriteStatus, Request
<1>1. dicts \in Memory /\ dicts' \in Memory
  BY <1>0 DEF TypeOK, Memory
<1>2. \A g \in Files \ {ld.file} : dicts'[g] = dicts[g]
  BY <1>0 DEF WriteStatus, TypeOK
<1>3. Shelf(dicts') = [Shelf(dicts) EXCEPT ![ld.file] = Shelf(dicts')[ld.file]]
  BY <1>0, <1>1, <1>2, OnePlace
<1> DEFINE old == Shelf(dicts)[ld.file]
           new == IF old = NotLoaded THEN old
                  ELSE [old EXCEPT !.enabled = req[lock].on]
<1>4. Shelf(dicts')[ld.file] = new
  <2>1. CASE dicts[ld.file] = NotLoaded
    <3>1. dicts'[ld.file] = NotLoaded
      BY <1>0, <2>1 DEF WriteStatus, TypeOK
    <3>. QED
      BY <1>0, <1>1, <2>1, <3>1, ShelfEntry
  <2>2. CASE dicts[ld.file] # NotLoaded
    <3>1. dicts'[ld.file] = [dicts[ld.file] EXCEPT !.enabled = req[lock].on]
      BY <1>0, <2>2 DEF WriteStatus, TypeOK
    <3>2. dicts[ld.file] \in LoadedDict
      BY <1>0, <2>2 DEF TypeOK
    <3>3. /\ dicts'[ld.file].enabled = req[lock].on
          /\ dicts'[ld.file].content = dicts[ld.file].content
          /\ dicts'[ld.file] \in LoadedDict
      BY <1>0, <3>1, <3>2 DEF LoadedDict
    <3>4. /\ old # NotLoaded
          /\ old = [enabled |-> dicts[ld.file].enabled,
                    content |-> dicts[ld.file].content]
      BY <1>0, <1>1, <2>2, ShelfEntry
    <3>5. Shelf(dicts')[ld.file] = [enabled |-> req[lock].on,
                                    content |-> dicts[ld.file].content]
      BY <1>0, <1>1, <3>3, NullsAssumption, ShelfEntry
    <3>. QED
      BY <3>4, <3>5
  <2>. QED
    BY <2>1, <2>2
<1>5. Readers!Publish
  BY <1>0, Published DEF WriteStatus, Return
<1> HIDE DEF old
<1>6. Shelf(dicts') = [Shelf(dicts) EXCEPT ![ld.file] = new]
  BY <1>3, <1>4
<1>7. Shelf(dicts') =
        [Shelf(dicts) EXCEPT ![ld.file] =
           IF @ = NotLoaded THEN @ ELSE [@ EXCEPT !.enabled = req[lock].on]]
  BY <1>6 DEF old
<1>. QED
  BY <1>0, <1>5, <1>7 DEF Readers!Switch

\* A step of a method is one change of what readers see, or none.
LEMMA EngineRefines ==
  ASSUME IInv, FreshInv, TypeOK', EngineStep
  PROVE  [Readers!Next]_(Readers!vars)
<1>0. lock # Free /\ TypeOK /\ IndexInv
  BY EngineStepsHoldLock DEF IInv, LockInv
<1>1. CASE LoadUpdate \/ LoadCreate
  BY <1>1, LoadIsRead DEF Readers!Next
<1>2. CASE WriteStatus
  BY <1>2, StatusIsSwitch DEF Readers!Next
<1>3. CASE LeaveLoadAll
  <2>1. UNCHANGED dicts /\ index' = LiveWords(dicts') /\ lock' = Free
    BY <1>3 DEF LeaveLoadAll, Return
  <2>. QED
    BY <1>0, <2>1, Published DEF Readers!Next, Readers!Finish
<1>4. CASE LoadFails \/ WriteStatusFails
  <2>0. UNCHANGED <<dicts, index>>
    BY <1>4 DEF LoadFails, WriteStatusFails
  <2>1. CASE UNCHANGED lock
    BY <2>0, <2>1 DEF Readers!vars
  <2>2. CASE ld.call # "LoadAll" /\ lock' = Free
    <3>1. index \subseteq LiveWords(dicts)
      BY <1>0, <2>2 DEF IndexInv
    <3>2. Readers!Words(Shelf(dicts)) = LiveWords(dicts)
      BY <1>0, ShelfWords DEF TypeOK, Memory
    <3>. QED
      BY <1>0, <2>0, <2>2, <3>1, <3>2 DEF Readers!Next, Readers!GiveUp
  <2>3. CASE LoadFails
    <3>1. IF ld.call = "LoadAll" THEN lock' = lock ELSE lock' = Free
      BY <2>3 DEF LoadFails, Return
    <3>. QED
      BY <2>1, <2>2, <3>1
  <2>4. CASE WriteStatusFails
    <3>1. ld.call # "LoadAll" /\ lock' = Free
      BY <2>4 DEF WriteStatusFails, Return, IInv, LockInv
    <3>. QED
      BY <2>2, <3>1
  <2>. QED
    BY <1>4, <2>3, <2>4
<1>5. CASE UNCHANGED <<dicts, index, lock>>
  BY <1>5 DEF Readers!vars
<1>. QED
  BY <1>1, <1>2, <1>3, <1>4, <1>5
     DEF EngineStep, ScanSkip, ScanLoad, OrphanStat, LoadStat, LoadParse,
         LoadMdd, LoadExists, LoadGet, ListRows, ListFails, OrphanDisable

\* So is a request that takes the lock.
LEMMA LockRefines ==
  ASSUME IInv, TypeOK', NEW p \in Handlers, LockStep(p)
  PROVE  [Readers!Next]_(Readers!vars)
<1>0. TypeOK /\ req[p].file \in Files
  BY DEF IInv, TypeOK, Request
<1>1. dicts \in Memory /\ dicts' \in Memory
  BY <1>0 DEF TypeOK, Memory
<1>2. CASE EnterSetEnabled(p) \/ EnterReload(p) \/ UploadLoadAll(p)
  <2>1. /\ UNCHANGED <<dicts, index>> /\ lock = Free
        /\ lock' = p \/ UNCHANGED lock
    BY <1>2 DEF EnterSetEnabled, EnterReload, UploadLoadAll, EnterLoadAll
  <2>2. p # Free
    BY ProcsAssumption DEF Procs
  <2>. QED
    BY <2>1, <2>2 DEF Readers!Next, Readers!Enter, Readers!vars
<1>3. CASE SetTitle(p)
  <2>1. UNCHANGED <<index, lock>>
    BY <1>3 DEF SetTitle
  <2>2. \A f \in Files : \/ dicts'[f] = dicts[f]
                         \/ /\ dicts[f] # NotLoaded /\ dicts'[f] # NotLoaded
                            /\ dicts'[f].enabled = dicts[f].enabled
                            /\ dicts'[f].content = dicts[f].content
    <3> DEFINE d == [dicts[req[p].file] EXCEPT !.title = req[p].title]
    <3>1. dicts[req[p].file] # NotLoaded =>
            /\ d \in LoadedDict
            /\ d.enabled = dicts[req[p].file].enabled
            /\ d.content = dicts[req[p].file].content
      BY <1>0 DEF TypeOK, LoadedDict, Request
    <3>2. dicts' = [dicts EXCEPT ![req[p].file] =
                      IF dicts[req[p].file] = NotLoaded THEN NotLoaded ELSE d]
      BY <1>3 DEF SetTitle
    <3> HIDE DEF d
    <3>. QED
      BY <1>0, <3>1, <3>2, NullsAssumption DEF TypeOK
  <2>3. Shelf(dicts') = Shelf(dicts)
    BY <1>1, <2>2, SameShelf
  <2>. QED
    BY <2>1, <2>3 DEF Readers!vars
<1>4. CASE Unload(p)
  <2>1. /\ lock = Free /\ lock' = Free /\ index' = LiveWords(dicts')
        /\ dicts'[req[p].file] = NotLoaded
        /\ \A g \in Files \ {req[p].file} : dicts'[g] = dicts[g]
    BY <1>0, <1>4 DEF Unload, TypeOK
  <2>2. Shelf(dicts') = [Shelf(dicts) EXCEPT ![req[p].file] = NotLoaded]
    <3>1. Shelf(dicts') =
            [Shelf(dicts) EXCEPT ![req[p].file] = Shelf(dicts')[req[p].file]]
      BY <1>0, <1>1, <2>1, OnePlace
    <3>2. Shelf(dicts')[req[p].file] = NotLoaded
      BY <1>0, <1>1, <2>1, ShelfEntry
    <3>. QED
      BY <3>1, <3>2
  <2>. QED
    BY <1>0, <2>1, <2>2, Published DEF Readers!Next, Readers!Remove
<1>. QED
  BY <1>2, <1>3, <1>4 DEF LockStep

\* Every step of the model is a step of Catalogue, or none that readers see.
LEMMA StepRefines ==
  ASSUME IInv, FreshInv, TypeOK', [Next]_vars
  PROVE  [Readers!Next]_(Readers!vars)
<1>1. CASE EngineStep
  BY <1>1, EngineRefines
<1>2. ASSUME NEW p \in Handlers, LockStep(p)
      PROVE  [Readers!Next]_(Readers!vars)
  BY <1>2, LockRefines
<1>3. CASE Boot
  <2>1. UNCHANGED <<dicts, index>> /\ lock = Free /\ lock' = Main
    BY <1>3 DEF Boot, EnterLoadAll
  <2>2. Main # Free
    BY ProcsAssumption DEF Procs
  <2>. QED
    BY <2>1, <2>2 DEF Readers!Next, Readers!Enter
<1>4. CASE Crash
  <2>1. /\ \A f \in Files : dicts'[f] = NotLoaded
        /\ index' = {} /\ lock' = Free
    BY <1>4 DEF Crash
  <2>2. Shelf(dicts') = [f \in Files |-> NotLoaded]
    BY <2>1 DEF Shelf
  <2>. QED
    BY <2>1, <2>2 DEF Readers!Next, Readers!Restart
<1>5. CASE UNCHANGED <<dicts, index, lock>>
  BY <1>5 DEF Readers!vars
<1>6. TypeOK
  BY DEF IInv
<1>. QED
  BY <1>1, <1>2, <1>3, <1>4, <1>5, <1>6, HandlerFrame
     DEF Next, vars, OperatorPuts, OperatorRemoves

\* Who searches finds what Catalogue promises: each method changes the shelf
\* and the suggestions as one, whatever the steps it is made of, the requests
\* beside it, the calls that fail and the deaths of the server; and nothing but
\* a request or a death takes from the shelf what was found there.
THEOREM ReadersAreServed == Spec => ImplementsCatalogue
<1>1. Init => Readers!Init
  <2> SUFFICES ASSUME Init PROVE Readers!Init
    OBVIOUS
  <2>1. Shelf(dicts) = [f \in Files |-> NotLoaded]
    BY DEF Init, Shelf
  <2>. QED
    BY <2>1 DEF Init, Readers!Init
<1>2. Init => FreshInv
  BY DEF Init, FreshInv, NoLoad
<1>3. IInv /\ FreshInv /\ [Next]_vars => FreshInv'
  BY FreshStep
<1>4. IInv /\ IInv' /\ FreshInv /\ [Next]_vars => [Readers!Next]_(Readers!vars)
  BY StepRefines DEF IInv
<1>. QED
  BY <1>1, <1>2, <1>3, <1>4, Invariance, PTL
     DEF Spec, ImplementsCatalogue, Readers!Spec

=============================================================================
