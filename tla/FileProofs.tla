----------------------------- MODULE FileProofs -----------------------------
(***************************************************************************)
(* Proofs about FilePublication, for every environment, set of runs and    *)
(* destinations: what overlapping runs keep of each other's records, and   *)
(* what a completed one leaves.                                            *)
(***************************************************************************)
EXTENDS FilePublication, Integers, Sequences, TLAPS

Job == [kind : {"none", "apply", "export"}, filter : Namespace \cup {NoNs},
        gw : SUBSET Namespace, mesh : SUBSET Namespace, path : MeshPath \cup {NoPath}]
LedgerType == [keys : SUBSET Namespace, mesh : MeshPath \cup {NoPath}]
Document == [kind : {"none", "gateway", "mesh", "torn", "foreign"}, ns : SUBSET Namespace]
Outcome == Writes \cup {"none", "NeverPublished", "NarrowedScope", "Unattributed",
                        "AlreadyRetracted"}

FileType ==
    /\ gw \in SUBSET Namespace /\ mesh \in SUBSET Namespace /\ aim \in MeshPath
    /\ files \in [File -> Document] /\ ledger \in LedgerType
    /\ lock \in Run \cup {Nobody} /\ pc \in [Run -> Steps] /\ job \in [Run -> Job]
    /\ mem \in [Run -> LedgerType] /\ outcome \in [Run -> Outcome]
    /\ ours \in SUBSET File /\ calm \in BOOLEAN
    /\ starts \in 0..MaxStarts /\ edits \in 0..MaxEdits /\ faults \in 0..MaxFaults

(* An apply that passed the start is as wide as the environment and has    *)
(* two files to write.                                                     *)
Accepted(j) ==
    /\ j.path \in MeshPath /\ j.filter \in NamespaceFilters
    /\ j.kind = "apply" => ~Narrowed(j) /\ ~SamePath(j.path)
ShapeOf(r) ==
    /\ pc[r] \in {"idle", "unlock", "crashed"} => job[r] = Idle
    /\ pc[r] \notin {"idle", "unlock", "crashed"} => Accepted(job[r])
    /\ pc[r] \in {"lock", "gateway", "rest", "allocate", "save", "saved"} => job[r].kind = "apply"
    /\ pc[r] = "mesh" => job[r].kind \in {"apply", "export"}
    /\ pc[r] = "out" => job[r].kind = "export"
    /\ pc[r] \notin {"allocate", "save", "saved", "out"} => outcome[r] = "none"
Shape == \A r \in Run : ShapeOf(r)

(* The lock is held from the read of the ledger to the end of the process; *)
(* so what the holder read is what is recorded.                            *)
Holds(r) == \/ pc[r] \in {"gateway", "rest", "allocate", "save", "saved", "unlock", "crashed"}
            \/ pc[r] = "mesh" /\ job[r].kind = "apply"
LockOf(r) ==
    /\ Holds(r) <=> lock = r
    /\ Holds(r) /\ pc[r] \in {"gateway", "rest", "mesh", "allocate", "save"} => mem[r] = ledger
LockInv == \A r \in Run : LockOf(r)

(* A recorded path, and one that is about to be, names a file a run wrote. *)
OursInv ==
    /\ ledger.mesh # NoPath => FileOf[ledger.mesh] \in ours
    /\ \A r \in Run : pc[r] \in {"allocate", "save"} /\ RecordsMesh(outcome[r])
           => FileOf[job[r].path] \in ours

WholeInv ==
    Regular => (\A f \in File : files[f] # Torn) /\ (\A r \in Run : pc[r] # "rest")

(* While nobody but applies has touched the destinations and none of them  *)
(* died on the way: the gateway document is the last run's, a mesh         *)
(* document is recorded or about to be, and it is what its run declares.   *)
Working == {"mesh", "allocate", "save", "saved"}
About(r) == files[FileOf[job[r].path]]
Declares(r) ==
    LET s == Sel(job[r]) IN
    CoversEnvironment(job[r]) =>
        About(r) = Doc("mesh", s.mesh) \/ (s.mesh = {} /\ About(r) = NoDoc)
RecordedOrAboutToBe ==
    ~SamePath(aim) /\ files[FileOf[aim]] # NoDoc =>
        \/ ledger.mesh = aim
        \/ \E r \in Run : pc[r] \in {"allocate", "save"} /\ RecordsMesh(outcome[r])
CalmInv ==
    calm =>
      /\ RecordedOrAboutToBe
      /\ \A r \in Run : job[r].kind = "apply" =>
           /\ job[r].path = aim
           /\ pc[r] \in Working => files[FileOf[GatewayPath]] = GatewayDoc(r)
           /\ pc[r] \in {"allocate", "save", "saved"} => Declares(r)

(* And the ledger of a completed run.                                      *)
SavedInv ==
    \A r \in Run : pc[r] = "saved" /\ CoversEnvironment(job[r]) =>
        ledger.keys \cap Select(EnvFilter, Namespace) = Sel(job[r]).gw

FileInv ==
    /\ FileType /\ Shape /\ LockInv /\ OursInv /\ WholeInv /\ CalmInv /\ SavedInv

-----------------------------------------------------------------------------

USE DEF repository, run, ghosts, bounds

LEMMA FilesOfSpellings ==
    /\ \A p \in MeshPath : FileOf[p] \in File
    /\ FileOf[GatewayPath] \in File
    /\ NoPath \notin MeshPath /\ Nobody \notin Run /\ Regular \in BOOLEAN
BY FilePublicationAssumption DEF Spelling, File

LEMMA SelectedIsPart ==
    ASSUME NEW j \in Job
    PROVE  Sel(j).gw \in SUBSET Namespace /\ Sel(j).mesh \in SUBSET Namespace
BY DEF Job, Sel, Select

LEMMA IdleIsJob == Idle \in Job /\ EmptyLedger \in LedgerType
BY FilePublicationAssumption DEF Idle, Job, EmptyLedger, LedgerType

LEMMA LeaveType ==
    ASSUME FileType, NEW r \in Run, NEW l \in Steps, Leave(r, l)
    PROVE  /\ pc' \in [Run -> Steps] /\ job' \in [Run -> Job]
           /\ mem' \in [Run -> LedgerType] /\ outcome' \in [Run -> Outcome]
<1>1. "none" \in Outcome
    BY DEF Outcome
<1> QED
    BY <1>1, IdleIsJob DEF FileType, Leave, Goto

LEMMA DocumentsAreDocuments ==
    ASSUME FileType
    PROVE  /\ {NoDoc, Retraction, Torn, Doc("foreign", {})} \subseteq Document
           /\ \A r \in Run : /\ GatewayDoc(r) \in Document
                             /\ Doc("mesh", Sel(job[r]).mesh) \in Document
<1>1. \A r \in Run : job[r] \in Job
    BY DEF FileType
<1> QED
    BY <1>1, SelectedIsPart DEF NoDoc, Retraction, Torn, Doc, Document, GatewayDoc

(* What each kind of step leaves to show of the types.                     *)
LEMMA TypeStep ==
    ASSUME FileType, Shape, [Next]_vars
    PROVE  FileType'
<1> USE FilesOfSpellings, IdleIsJob DEF FileType
<1>1. ASSUME NEW r \in Run, StartApply(r) \/ StartExport(r) PROVE FileType'
    <2>1. PICK kind \in {"apply", "export"}, l \in {"lock", "mesh"} : Start(r, kind) /\ Goto(r, l)
        BY <1>1 DEF StartApply, StartExport
    <2>2. PICK f \in NamespaceFilters :
              job' = [job EXCEPT ![r] = [kind |-> kind, filter |-> f, gw |-> gw, mesh |-> mesh,
                                         path |-> aim]]
        BY <2>1 DEF Start
    <2>3. f \in Namespace \cup {NoNs}
        BY FilePublicationAssumption DEF NamespaceFilters
    <2>4. job' \in [Run -> Job]
        BY <2>2, <2>3 DEF Job
    <2>5. pc' \in [Run -> Steps]
        BY <2>1 DEF Goto, Steps
    <2>6. starts' \in 0..MaxStarts
        BY <2>1, FilePublicationAssumption DEF Start
    <2> QED
        BY <2>1, <2>4, <2>5, <2>6 DEF Start
<1>2. ASSUME NEW r \in Run, LockAndLoad(r) PROVE FileType'
    BY <1>2 DEF LockAndLoad, Goto, Steps
<1>3. ASSUME NEW r \in Run, LockRefused(r) \/ WriteOut(r) PROVE FileType'
    <2>1. Leave(r, "idle") /\ UNCHANGED <<repository, files, ledger, lock, ghosts, bounds>>
        BY <1>3 DEF LockRefused, WriteOut
    <2> QED
        BY <2>1, LeaveType DEF Steps
<1>4. ASSUME NEW r \in Run, PublishGateway(r) \/ WriteGateway(r) \/ WriteRest(r) PROVE FileType'
    BY <1>4, DocumentsAreDocuments DEF PublishGateway, WriteGateway, WriteRest, Publish, Goto, Steps
<1>5. ASSUME NEW r \in Run, ReconcileMesh(r) PROVE FileType'
    <2>1. Accepted(job[r]) /\ FileOf[job[r].path] \in File
        BY <1>5 DEF ReconcileMesh, Shape, ShapeOf, Accepted
    <2>2. PICK o \in Outcome :
              /\ outcome' = [outcome EXCEPT ![r] = o]
              /\ CASE o = "Published" -> Publish(FileOf[job[r].path], Doc("mesh", Sel(job[r]).mesh))
                   [] o = "Retracted" -> Publish(FileOf[job[r].path], Retraction)
                   [] OTHER -> UNCHANGED files
              /\ ours' = IF o \in Writes THEN ours \cup {FileOf[job[r].path]} ELSE ours
        BY <1>5 DEF ReconcileMesh, MeshPlan, Outcome, Writes
    <2>3. files' \in [File -> Document]
        BY <2>2, DocumentsAreDocuments DEF Publish
    <2>4. ours' \in SUBSET File /\ outcome' \in [Run -> Outcome]
        BY <2>1, <2>2
    <2>5. pc' \in [Run -> Steps] /\ calm' \in BOOLEAN
        BY <1>5 DEF ReconcileMesh, Goto, Steps
    <2> QED
        BY <1>5, <2>3, <2>4, <2>5 DEF ReconcileMesh
<1>6. ASSUME NEW r \in Run, Allocate(r) PROVE FileType'
    BY <1>6 DEF Allocate, Goto, Steps
<1>7. ASSUME NEW r \in Run, Save(r) PROVE FileType'
    <2>1. Recorded(r) \in LedgerType
        BY SelectedIsPart DEF Recorded, LedgerType, Job
    <2> QED
        BY <1>7, <2>1 DEF Save, Goto, Steps
<1>8. ASSUME NEW r \in Run, Unlock(r) PROVE FileType'
    BY <1>8, LeaveType DEF Unlock, Steps
<1>9. ASSUME NEW r \in Run, Fail(r) PROVE FileType'
    <2>1. PICK l \in {"unlock", "idle"} : Leave(r, l)
        BY <1>9 DEF Fail
    <2>2. faults' \in 0..MaxFaults
        BY <1>9, FilePublicationAssumption DEF Fail
    <2> QED
        BY <1>9, <2>1, <2>2, LeaveType DEF Fail, Steps
<1>10. ASSUME NEW r \in Run, Crash(r) PROVE FileType'
    <2>1. PICK l \in {"crashed", "idle"} : Leave(r, l)
        BY <1>10 DEF Crash
    <2>2. faults' \in 0..MaxFaults
        BY <1>10, FilePublicationAssumption DEF Crash
    <2> QED
        BY <1>10, <2>1, <2>2, LeaveType DEF Crash, Steps
<1>11. ASSUME RemoveLock PROVE FileType'
    BY <1>11 DEF RemoveLock, Goto, Steps
<1>12. ASSUME Commit \/ Repoint \/ HandEdit PROVE FileType'
    <2>1. edits' \in 0..MaxEdits
        BY <1>12, FilePublicationAssumption DEF Commit, Repoint, HandEdit, Edit
    <2>2. gw' \in SUBSET Namespace /\ mesh' \in SUBSET Namespace /\ aim' \in MeshPath
        BY <1>12 DEF Commit, Repoint, HandEdit
    <2>3. files' \in [File -> Document] /\ calm' \in BOOLEAN
        <3>1. CASE Commit \/ Repoint
            BY <3>1 DEF Commit, Repoint
        <3>2. CASE HandEdit
            <4>1. Doc("foreign", {}) \in Document
                BY DocumentsAreDocuments
            <4>2. files' = [files EXCEPT ![FileOf[aim]] = Doc("foreign", {})] /\ calm' = FALSE
                BY <3>2 DEF HandEdit, Publish
            <4> QED
                BY <4>1, <4>2
        <3> QED
            BY <1>12, <3>1, <3>2
    <2>4. UNCHANGED <<ledger, lock, pc, job, mem, outcome, ours, starts, faults>>
        BY <1>12 DEF Commit, Repoint, HandEdit
    <2> QED
        BY <2>1, <2>2, <2>3, <2>4
<1>13. ASSUME UNCHANGED vars PROVE FileType'
    BY <1>13 DEF vars
<1> HIDE DEF FileType
<1>14. ASSUME NEW r \in Run, StartApply(r) \/ StartExport(r) \/ Step(r) \/ Fail(r) \/ Crash(r)
       PROVE  FileType'
    BY ONLY <1>14, <1>1, <1>2, <1>3, <1>4, <1>5, <1>6, <1>7, <1>8, <1>9, <1>10 DEF Step
<1> QED
    BY <1>11, <1>12, <1>13, <1>14 DEF Next, Done

LEMMA ShapeStep ==
    ASSUME FileType, Shape, [Next]_vars
    PROVE  Shape'
<1> SUFFICES ASSUME NEW q \in Run PROVE ShapeOf(q)'
    BY DEF Shape
<1> USE DEF Goto
<1>0. /\ pc \in [Run -> Steps] /\ job \in [Run -> Job] /\ outcome \in [Run -> Outcome]
      /\ aim \in MeshPath /\ ShapeOf(q)
    BY DEF FileType, Shape
<1>a. ASSUME NEW r \in Run, NEW l \in {"idle", "unlock", "crashed"}, Leave(r, l) PROVE ShapeOf(q)'
    BY <1>0, <1>a DEF Leave, ShapeOf, Accepted, Narrowed, CoversEnvironment, Sel
<1>b. ASSUME UNCHANGED <<pc, job, outcome>> PROVE ShapeOf(q)'
    BY <1>0, <1>b DEF ShapeOf, Accepted, Narrowed, CoversEnvironment, Sel
<1>1. ASSUME NEW r \in Run, StartApply(r) \/ StartExport(r) PROVE ShapeOf(q)'
    <2>1. PICK kind, l : /\ <<kind, l>> \in {<<"apply", "lock">>, <<"export", "mesh">>}
                         /\ Start(r, kind) /\ Goto(r, l)
        BY <1>1 DEF StartApply, StartExport
    <2>2. PICK f \in NamespaceFilters : \E j :
              /\ j = [kind |-> kind, filter |-> f, gw |-> gw, mesh |-> mesh, path |-> aim]
              /\ job' = [job EXCEPT ![r] = j]
              /\ kind = "apply" => ~Narrowed(j) /\ ~SamePath(aim)
        BY <2>1 DEF Start
    <2>3. PICK j : /\ j = [kind |-> kind, filter |-> f, gw |-> gw, mesh |-> mesh, path |-> aim]
                   /\ job' = [job EXCEPT ![r] = j]
                   /\ kind = "apply" => ~Narrowed(j) /\ ~SamePath(aim)
        BY <2>2
    <2>4. Accepted(j)
        BY <1>0, <2>1, <2>3 DEF Accepted
    <2>5. pc[r] = "idle" /\ pc' = [pc EXCEPT ![r] = l] /\ outcome' = outcome
        BY <2>1 DEF Start
    <2>6. outcome[r] = "none"
        BY <2>5 DEF Shape, ShapeOf
    <2>7. CASE q = r
        <3>1. job'[q] = j /\ pc'[q] = l /\ outcome'[q] = "none"
            BY <1>0, <2>3, <2>5, <2>6, <2>7
        <3>2. Accepted(job[q])'
            BY <2>4, <3>1 DEF Accepted, Narrowed, CoversEnvironment, Sel
        <3> QED
            BY <2>1, <2>3, <3>1, <3>2 DEF ShapeOf
    <2>8. CASE q # r
        <3>1. job'[q] = job[q] /\ pc'[q] = pc[q] /\ outcome'[q] = outcome[q]
            BY <1>0, <2>3, <2>5, <2>8
        <3> QED
            BY <1>0, <3>1 DEF ShapeOf, Accepted, Narrowed, CoversEnvironment, Sel
    <2> QED
        BY <2>7, <2>8
<1>2. ASSUME NEW r \in Run,
             \/ LockAndLoad(r) \/ PublishGateway(r) \/ WriteGateway(r) \/ WriteRest(r)
             \/ ReconcileMesh(r) \/ Allocate(r) \/ Save(r)
      PROVE  ShapeOf(q)'
    <2>1. PICK l : pc' = [pc EXCEPT ![r] = l] /\ job' = job
                   /\ \/ pc[r] = "lock" /\ l = "gateway"
                      \/ pc[r] = "gateway" /\ l \in {"rest", "mesh"}
                      \/ pc[r] = "rest" /\ l = "mesh"
                      \/ pc[r] = "mesh" /\ l = IF job[r].kind = "apply" THEN "allocate" ELSE "out"
                      \/ pc[r] = "allocate" /\ l = "save"
                      \/ pc[r] = "save" /\ l = "saved"
        BY <1>2 DEF LockAndLoad, PublishGateway, WriteGateway, WriteRest, ReconcileMesh,
                    Allocate, Save
    <2>2. /\ \A p \in Run : p # r => outcome'[p] = outcome[p]
          /\ pc[r] = "mesh" \/ outcome' = outcome
        BY <1>0, <1>2 DEF LockAndLoad, PublishGateway, WriteGateway, WriteRest, ReconcileMesh,
                    Allocate, Save
    <2>3. Accepted(job[q]) => Accepted(job[q])'
        BY <2>1 DEF Accepted, Narrowed, CoversEnvironment, Sel
    <2>4. CASE q = r
        BY <1>0, <2>1, <2>2, <2>3, <2>4 DEF ShapeOf
    <2>5. CASE q # r
        BY <1>0, <2>1, <2>2, <2>3, <2>5 DEF ShapeOf
    <2> QED
        BY <2>4, <2>5
<1>3. ASSUME NEW r \in Run, LockRefused(r) \/ WriteOut(r) \/ Unlock(r) \/ Fail(r) \/ Crash(r)
      PROVE  ShapeOf(q)'
    BY <1>3, <1>a DEF LockRefused, WriteOut, Unlock, Fail, Crash
<1>4. ASSUME RemoveLock PROVE ShapeOf(q)'
    <2>1. PICK r \in Run : pc[r] = "crashed" /\ pc' = [pc EXCEPT ![r] = "idle"]
        BY <1>4 DEF RemoveLock
    <2>2. job' = job /\ outcome' = outcome
        BY <1>4 DEF RemoveLock
    <2> QED
        BY <1>0, <2>1, <2>2 DEF ShapeOf, Accepted, Narrowed, CoversEnvironment, Sel
<1>5. ASSUME Commit \/ Repoint \/ HandEdit \/ UNCHANGED vars PROVE ShapeOf(q)'
    BY <1>5, <1>b DEF Commit, Repoint, HandEdit, vars
<1> QED
    BY <1>1, <1>2, <1>3, <1>4, <1>5 DEF Next, Step, Done

(* The lock and the ledger under it.                                       *)
LEMMA LockStep ==
    ASSUME FileType, Shape, LockInv, [Next]_vars
    PROVE  LockInv'
<1> SUFFICES ASSUME NEW q \in Run PROVE LockOf(q)'
    BY DEF LockInv
<1> USE DEF Goto
<1>0. /\ pc \in [Run -> Steps] /\ job \in [Run -> Job] /\ mem \in [Run -> LedgerType]
      /\ LockOf(q) /\ ShapeOf(q) /\ Nobody \notin Run /\ Nobody # q
    BY FilePublicationAssumption DEF FileType, Shape, LockInv
<1>a. ASSUME NEW r \in Run PROVE LockOf(r) /\ ShapeOf(r) /\ Nobody # r
    BY <1>0 DEF LockInv, Shape
<1>b. ASSUME UNCHANGED <<pc, job, mem, lock, ledger>> PROVE LockOf(q)'
    BY <1>0, <1>b DEF LockOf, Holds
<1>1. ASSUME NEW r \in Run, StartApply(r) \/ StartExport(r) PROVE LockOf(q)'
    <2>1. PICK kind, l : /\ <<kind, l>> \in {<<"apply", "lock">>, <<"export", "mesh">>}
                         /\ Start(r, kind) /\ Goto(r, l)
        BY <1>1 DEF StartApply, StartExport
    <2>3. PICK f \in NamespaceFilters :
              job' = [job EXCEPT ![r] = [kind |-> kind, filter |-> f, gw |-> gw, mesh |-> mesh,
                                         path |-> aim]]
        BY <2>1 DEF Start
    <2>2. pc[r] = "idle" /\ UNCHANGED <<mem, lock, ledger>>
        BY <1>1 DEF StartApply, StartExport, Start
    <2> QED
        BY <1>0, <2>1, <2>2, <2>3 DEF LockOf, Holds
<1>2. ASSUME NEW r \in Run, LockAndLoad(r) PROVE LockOf(q)'
    <2>1. /\ pc[r] = "lock" /\ lock = Nobody /\ lock' = r /\ mem' = [mem EXCEPT ![r] = ledger]
          /\ pc' = [pc EXCEPT ![r] = "gateway"] /\ UNCHANGED <<job, ledger>>
        BY <1>2 DEF LockAndLoad, MayLock
    <2> QED
        BY <1>0, <2>1 DEF LockOf, Holds
<1>3. ASSUME NEW r \in Run, PublishGateway(r) \/ WriteGateway(r) \/ WriteRest(r)
                            \/ ReconcileMesh(r) \/ Allocate(r)
      PROVE  LockOf(q)'
    <2>1. UNCHANGED <<job, mem, lock, ledger>>
        BY <1>3 DEF PublishGateway, WriteGateway, WriteRest, ReconcileMesh, Allocate
    <2>2. PICK l : pc' = [pc EXCEPT ![r] = l]
                   /\ \/ pc[r] = "gateway" /\ l \in {"rest", "mesh"}
                      \/ pc[r] = "rest" /\ l = "mesh"
                      \/ pc[r] = "mesh" /\ l = IF job[r].kind = "apply" THEN "allocate" ELSE "out"
                      \/ pc[r] = "allocate" /\ l = "save"
        BY <1>3 DEF PublishGateway, WriteGateway, WriteRest, ReconcileMesh, Allocate
    <2> QED
        BY <1>0, <2>1, <2>2 DEF LockOf, Holds, ShapeOf
<1>4. ASSUME NEW r \in Run, Save(r) PROVE LockOf(q)'
    <2>1. /\ pc[r] = "save" /\ pc' = [pc EXCEPT ![r] = "saved"] /\ UNCHANGED <<job, mem, lock>>
        BY <1>4 DEF Save
    <2>2. lock = r
        BY <1>a, <2>1 DEF LockOf, Holds
    <2> QED
        BY <1>0, <2>1, <2>2 DEF LockOf, Holds
<1>5. ASSUME NEW r \in Run, LockRefused(r) \/ WriteOut(r) \/ Fail(r) \/ Crash(r)
      PROVE  LockOf(q)'
    <2>1. PICK l : /\ pc' = [pc EXCEPT ![r] = l] /\ job' = [job EXCEPT ![r] = Idle]
                   /\ mem' = [mem EXCEPT ![r] = EmptyLedger]
                   /\ IF lock = r THEN l \in {"unlock", "crashed"} ELSE l = "idle"
        <3>1. CASE LockRefused(r) \/ WriteOut(r)
            BY <1>a, <3>1 DEF LockRefused, WriteOut, Leave, LockOf, Holds, ShapeOf
        <3>2. CASE Fail(r)
            BY <1>a, <3>2 DEF Fail, Leave, LockOf, Holds, ShapeOf
        <3>3. CASE Crash(r)
            BY <3>3 DEF Crash, Leave
        <3> QED
            BY <1>5, <3>1, <3>2, <3>3
    <2>2. UNCHANGED <<lock, ledger>>
        BY <1>5 DEF LockRefused, WriteOut, Fail, Crash
    <2>4. CASE q = r
        BY <1>0, <2>1, <2>2, <2>4 DEF LockOf, Holds, Idle
    <2>5. CASE q # r
        BY <1>0, <2>1, <2>2, <2>5 DEF LockOf, Holds
    <2> QED
        BY <2>4, <2>5
<1>6. ASSUME NEW r \in Run, Unlock(r) PROVE LockOf(q)'
    <2>1. /\ pc[r] \in {"saved", "unlock"} /\ lock' = Nobody /\ UNCHANGED ledger
          /\ pc' = [pc EXCEPT ![r] = "idle"] /\ job' = [job EXCEPT ![r] = Idle]
          /\ mem' = [mem EXCEPT ![r] = EmptyLedger]
        BY <1>6 DEF Unlock, Unlocks, Leave
    <2>2. lock = r
        BY <1>a, <2>1 DEF LockOf, Holds
    <2> QED
        BY <1>0, <2>1, <2>2 DEF LockOf, Holds
<1>7. ASSUME RemoveLock PROVE LockOf(q)'
    <2>1. PICK r \in Run : pc[r] = "crashed" /\ lock = r /\ pc' = [pc EXCEPT ![r] = "idle"]
        BY <1>7 DEF RemoveLock
    <2>2. lock' = Nobody /\ UNCHANGED <<job, mem, ledger>>
        BY <1>7 DEF RemoveLock
    <2> QED
        BY <1>0, <2>1, <2>2 DEF LockOf, Holds
<1>8. ASSUME Commit \/ Repoint \/ HandEdit \/ UNCHANGED vars PROVE LockOf(q)'
    BY <1>8, <1>b DEF Commit, Repoint, HandEdit, vars
<1> QED
    BY <1>1, <1>2, <1>3, <1>4, <1>5, <1>6, <1>7, <1>8 DEF Next, Step, Done

(***************************************************************************)
(* What a mesh reconciliation decided, and on what grounds: with the lock, *)
(* and for an export without it, the ledger it goes by is the current one. *)
(***************************************************************************)
LEMMA Reconciled ==
    ASSUME FileType, Shape, LockInv, NEW r \in Run, ReconcileMesh(r)
    PROVE  LET f == FileOf[job[r].path]
               o == outcome'[r]
               s == Sel(job[r]).mesh
           IN  /\ pc[r] = "mesh" /\ job[r].kind \in {"apply", "export"}
               /\ outcome' = [outcome EXCEPT ![r] = o]
               /\ o \in {"NeverPublished", "NarrowedScope", "Published", "Unattributed",
                         "AlreadyRetracted", "Retracted"}
               /\ o = "NeverPublished" => s = {} /\ files[f] = NoDoc
               /\ o = "NarrowedScope" => ~CoversEnvironment(job[r])
               /\ RecordsMesh(o) => CoversEnvironment(job[r])
               /\ o \in {"Retracted", "AlreadyRetracted"} => s = {} /\ ledger.mesh = job[r].path
               /\ o = "AlreadyRetracted" => files[f] = Retraction
               /\ o = "Unattributed" => s = {} /\ ledger.mesh # job[r].path /\ files[f] # NoDoc
               /\ o = "Published" => files' = [files EXCEPT ![f] = Doc("mesh", s)]
               /\ o = "Retracted" => files' = [files EXCEPT ![f] = Retraction]
               /\ o \notin Writes => files' = files
               /\ ours' = IF o \in Writes THEN ours \cup {f} ELSE ours
               /\ calm' = (calm /\ job[r].kind = "apply")
<1> DEFINE f == FileOf[job[r].path]
           known == IF job[r].kind = "export" THEN ledger ELSE mem[r]
           o == MeshPlan(job[r], known.mesh, files[f])
<1>1. pc[r] = "mesh" /\ job[r].kind \in {"apply", "export"}
    BY DEF ReconcileMesh, Shape, ShapeOf
<1>2. known = ledger
    BY <1>1 DEF LockInv, LockOf, Holds
<1>3. /\ outcome' = [outcome EXCEPT ![r] = o]
      /\ CASE o = "Published" -> Publish(f, Doc("mesh", Sel(job[r]).mesh))
           [] o = "Retracted" -> Publish(f, Retraction)
           [] OTHER -> UNCHANGED files
      /\ ours' = IF o \in Writes THEN ours \cup {f} ELSE ours
      /\ calm' = (calm /\ job[r].kind = "apply")
    BY DEF ReconcileMesh
<1>4. outcome'[r] = o
    BY <1>3 DEF FileType
<1>5. /\ o \in {"NeverPublished", "NarrowedScope", "Published", "Unattributed",
                "AlreadyRetracted", "Retracted"}
      /\ o = "NeverPublished" => Sel(job[r]).mesh = {} /\ files[f] = NoDoc
      /\ o = "NarrowedScope" => ~CoversEnvironment(job[r])
      /\ RecordsMesh(o) => CoversEnvironment(job[r])
      /\ o \in {"Retracted", "AlreadyRetracted"} =>
             Sel(job[r]).mesh = {} /\ ledger.mesh = job[r].path
      /\ o = "AlreadyRetracted" => files[f] = Retraction
      /\ o = "Unattributed" =>
             Sel(job[r]).mesh = {} /\ ledger.mesh # job[r].path /\ files[f] # NoDoc
    <2> DEFINE none == Sel(job[r]).mesh = {}
               own == known.mesh = job[r].path
               gone == files[f] = NoDoc
    <2>1. CASE none /\ gone
        <3>1. o = "NeverPublished"
            BY <2>1 DEF MeshPlan
        <3> QED
            BY <2>1, <3>1 DEF RecordsMesh, Writes
    <2>2. CASE ~(none /\ gone) /\ ~CoversEnvironment(job[r])
        <3>1. o = "NarrowedScope"
            BY <2>2 DEF MeshPlan
        <3> QED
            BY <2>2, <3>1 DEF RecordsMesh, Writes
    <2>3. CASE CoversEnvironment(job[r]) /\ ~none
        <3>1. o = "Published"
            BY <2>3 DEF MeshPlan
        <3> QED
            BY <2>3, <3>1
    <2>4. CASE CoversEnvironment(job[r]) /\ none /\ ~gone /\ ~own
        <3>1. o = "Unattributed"
            BY <2>4 DEF MeshPlan
        <3> QED
            BY <1>2, <2>4, <3>1
    <2>5. CASE CoversEnvironment(job[r]) /\ none /\ ~gone /\ own /\ files[f] = Retraction
        <3>1. o = "AlreadyRetracted"
            BY <2>5 DEF MeshPlan
        <3> QED
            BY <1>2, <2>5, <3>1
    <2>6. CASE CoversEnvironment(job[r]) /\ none /\ ~gone /\ own /\ files[f] # Retraction
        <3>1. o = "Retracted"
            BY <2>6 DEF MeshPlan
        <3> QED
            BY <1>2, <2>6, <3>1
    <2> QED
        BY <2>1, <2>2, <2>3, <2>4, <2>5, <2>6
<1> HIDE DEF known, o, f
<1>6. /\ o = "Published" => files' = [files EXCEPT ![f] = Doc("mesh", Sel(job[r]).mesh)]
      /\ o = "Retracted" => files' = [files EXCEPT ![f] = Retraction]
      /\ o \notin Writes => files' = files
    BY <1>3, <1>5 DEF Publish, Writes
<1> QED
    BY <1>1, <1>3, <1>4, <1>5, <1>6 DEF f

(* Everything but a reconciliation, a save and a new run.                  *)
Quiet(r) ==
    \/ LockAndLoad(r) \/ LockRefused(r) \/ PublishGateway(r) \/ WriteGateway(r) \/ WriteRest(r)
    \/ Allocate(r) \/ WriteOut(r) \/ Unlock(r) \/ Fail(r) \/ Crash(r)

(* None of these brings a run to a step it did not work for.               *)
LEMMA QuietSteps ==
    ASSUME FileType, Shape, NEW r \in Run, Quiet(r)
    PROVE  /\ UNCHANGED <<repository, ledger, ours>>
           /\ \A q \in Run : q # r =>
                  pc'[q] = pc[q] /\ job'[q] = job[q] /\ outcome'[q] = outcome[q]
           /\ \/ /\ pc'[r] \notin {"mesh", "allocate", "save", "saved"} /\ outcome'[r] = "none"
                 /\ job'[r] \in {job[r], Idle}
              \/ /\ pc[r] \in {"gateway", "rest"} /\ pc'[r] = "mesh"
                 /\ job'[r] = job[r] /\ outcome'[r] = outcome[r] /\ calm' = calm
                 /\ files' = [files EXCEPT ![FileOf[GatewayPath]] = GatewayDoc(r)]
              \/ /\ pc[r] = "allocate" /\ pc'[r] = "save"
                 /\ job'[r] = job[r] /\ outcome'[r] = outcome[r] /\ UNCHANGED <<files, calm>>
<1> USE DEF Goto, Leave
<1>1. /\ pc \in [Run -> Steps] /\ job \in [Run -> Job] /\ outcome \in [Run -> Outcome]
      /\ ShapeOf(r)
    BY DEF FileType, Shape
<1>2. CASE LockAndLoad(r) \/ WriteGateway(r)
    BY <1>1, <1>2 DEF LockAndLoad, WriteGateway, ShapeOf
<1>3. CASE LockRefused(r) \/ WriteOut(r) \/ Unlock(r)
    BY <1>1, <1>3 DEF LockRefused, WriteOut, Unlock
<1>4. CASE PublishGateway(r) \/ WriteRest(r)
    BY <1>1, <1>4 DEF PublishGateway, WriteRest, Publish
<1>5. CASE Allocate(r)
    BY <1>1, <1>5 DEF Allocate
<1>6. CASE Fail(r)
    BY <1>1, <1>6 DEF Fail
<1>7. CASE Crash(r)
    BY <1>1, <1>7 DEF Crash
<1> QED
    BY <1>2, <1>3, <1>4, <1>5, <1>6, <1>7 DEF Quiet

LEMMA OursStep ==
    ASSUME FileType, Shape, LockInv, OursInv, [Next]_vars
    PROVE  OursInv'
<1> USE DEF RecordsMesh
<1>0. /\ pc \in [Run -> Steps] /\ job \in [Run -> Job] /\ outcome \in [Run -> Outcome]
      /\ NoPath \notin MeshPath
    BY FilesOfSpellings DEF FileType
<1>a. ASSUME UNCHANGED <<pc, job, outcome, ledger, ours>> PROVE OursInv'
    BY <1>a DEF OursInv
<1>1. ASSUME NEW r \in Run, StartApply(r) \/ StartExport(r) PROVE OursInv'
    <2>1. /\ UNCHANGED <<outcome, ledger, ours>> /\ pc'[r] \in {"lock", "mesh"}
          /\ \A q \in Run : q # r => pc'[q] = pc[q] /\ job'[q] = job[q]
        BY <1>0, <1>1 DEF StartApply, StartExport, Start, Goto
    <2> QED
        BY <2>1 DEF OursInv
<1>2. ASSUME NEW r \in Run, Quiet(r) PROVE OursInv'
    BY <1>2, QuietSteps DEF OursInv
<1>3. ASSUME NEW r \in Run, ReconcileMesh(r) PROVE OursInv'
    <2>1. /\ UNCHANGED <<job, ledger>> /\ \A q \in Run : q # r => pc'[q] = pc[q]
          /\ pc'[r] \in {"allocate", "out"}
        BY <1>0, <1>3 DEF ReconcileMesh, Goto
    <2>2. \A q \in Run : q # r => outcome'[q] = outcome[q]
        BY <1>0, <1>3, Reconciled
    <2>3. ours \subseteq ours' /\ (outcome'[r] \in Writes => FileOf[job[r].path] \in ours')
        BY <1>3, Reconciled
    <2>4. outcome'[r] = "AlreadyRetracted" => FileOf[job[r].path] \in ours
        <3>1. job[r].path # NoPath
            BY <1>0, <1>3 DEF ReconcileMesh, Shape, ShapeOf, Accepted
        <3> QED
            BY <1>3, <3>1, Reconciled DEF OursInv
    <2> QED
        BY <2>1, <2>2, <2>3, <2>4 DEF OursInv
<1>4. ASSUME NEW r \in Run, Save(r) PROVE OursInv'
    <2>1. /\ UNCHANGED <<job, outcome, ours>> /\ ledger' = Recorded(r) /\ pc[r] = "save"
          /\ pc'[r] = "saved" /\ \A q \in Run : q # r => pc'[q] = pc[q]
        BY <1>0, <1>4 DEF Save, Goto
    <2>2. ledger'.mesh = IF RecordsMesh(outcome[r]) THEN job[r].path ELSE ledger.mesh
        <3>1. mem[r] = ledger
            BY <2>1 DEF LockInv, LockOf, Holds
        <3> QED
            BY <2>1, <3>1 DEF Recorded
    <2> QED
        BY <2>1, <2>2 DEF OursInv
<1>5. ASSUME RemoveLock PROVE OursInv'
    <2>1. PICK r \in Run : pc' = [pc EXCEPT ![r] = "idle"] /\ UNCHANGED <<job, outcome, ledger, ours>>
        BY <1>5 DEF RemoveLock, Goto
    <2> QED
        BY <1>0, <2>1 DEF OursInv
<1>6. ASSUME Commit \/ Repoint \/ HandEdit \/ UNCHANGED vars PROVE OursInv'
    BY <1>6, <1>a DEF Commit, Repoint, HandEdit, vars
<1> QED
    BY <1>1, <1>2, <1>3, <1>4, <1>5, <1>6 DEF Next, Step, Done, Quiet

(* A regular destination never holds part of a document.                   *)
LEMMA WholeStep ==
    ASSUME FileType, Shape, LockInv, WholeInv, [Next]_vars
    PROVE  WholeInv'
<1> SUFFICES ASSUME Regular PROVE (\A f \in File : files'[f] # Torn) /\ (\A r \in Run : pc'[r] # "rest")
    BY DEF WholeInv
<1>0. /\ pc \in [Run -> Steps] /\ files \in [File -> Document]
      /\ (\A f \in File : files[f] # Torn) /\ (\A r \in Run : pc[r] # "rest")
    BY DEF FileType, WholeInv
<1>1. ASSUME NEW r \in Run PROVE GatewayDoc(r) # Torn
    BY DEF GatewayDoc, Doc, Torn
<1>2. /\ \A s : Doc("mesh", s) # Torn
      /\ Retraction # Torn /\ Doc("foreign", {}) # Torn
    BY DEF Retraction, Doc, Torn
<1>3. ASSUME NEW r \in Run, ReconcileMesh(r)
      PROVE  (\A f \in File : files'[f] # Torn) /\ (\A q \in Run : pc'[q] # "rest")
    <2>1. \A q \in Run : pc'[q] # "rest"
        BY <1>0, <1>3 DEF ReconcileMesh, Goto
    <2>2. \A f \in File : files'[f] # Torn
        <3> DEFINE g == FileOf[job[r].path]
                   d == Doc("mesh", Sel(job[r]).mesh)
        <3>1. d # Torn
            BY <1>2
        <3>2. \/ files' = files \/ files' = [files EXCEPT ![g] = d]
              \/ files' = [files EXCEPT ![g] = Retraction]
            BY <1>3, Reconciled DEF Writes
        <3> HIDE DEF g, d
        <3> QED
            BY <1>0, <1>2, <3>1, <3>2
    <2> QED
        BY <2>1, <2>2
<1>4. ASSUME NEW r \in Run,
             \/ StartApply(r) \/ StartExport(r) \/ LockAndLoad(r) \/ LockRefused(r) \/ Allocate(r)
             \/ Save(r) \/ WriteOut(r) \/ Unlock(r) \/ Fail(r) \/ Crash(r)
      PROVE  (\A f \in File : files'[f] # Torn) /\ (\A q \in Run : pc'[q] # "rest")
    <2>1. files' = files
        BY <1>4 DEF StartApply, StartExport, Start, LockAndLoad, LockRefused, Allocate, Save,
                    WriteOut, Unlock, Fail, Crash
    <2>2. PICK l : l # "rest" /\ pc' = [pc EXCEPT ![r] = l]
        BY <1>4 DEF StartApply, StartExport, LockAndLoad, LockRefused, Allocate, Save,
                    WriteOut, Unlock, Fail, Crash, Goto, Leave
    <2> QED
        BY <1>0, <2>1, <2>2
<1>5. ASSUME NEW r \in Run, PublishGateway(r) \/ WriteGateway(r) \/ WriteRest(r)
      PROVE  (\A f \in File : files'[f] # Torn) /\ (\A q \in Run : pc'[q] # "rest")
    BY <1>0, <1>1, <1>5 DEF PublishGateway, WriteGateway, WriteRest, DirectWrite, Publish, Goto
<1>6. ASSUME RemoveLock \/ Commit \/ Repoint \/ HandEdit \/ UNCHANGED vars
      PROVE  (\A f \in File : files'[f] # Torn) /\ (\A q \in Run : pc'[q] # "rest")
    <2>1. files' = files \/ files' = [files EXCEPT ![FileOf[aim]] = Doc("foreign", {})]
        BY <1>6 DEF RemoveLock, Commit, Repoint, HandEdit, Publish, vars
    <2>2. pc' = pc \/ \E r \in Run : pc' = [pc EXCEPT ![r] = "idle"]
        BY <1>6 DEF RemoveLock, Commit, Repoint, HandEdit, Goto, vars
    <2> QED
        BY <1>0, <1>2, <2>1, <2>2
<1> QED
    BY <1>3, <1>4, <1>5, <1>6 DEF Next, Step, Done

LEMMA SavedStep ==
    ASSUME FileType, Shape, LockInv, SavedInv, [Next]_vars
    PROVE  SavedInv'
<1> USE DEF CoversEnvironment
<1>0. /\ pc \in [Run -> Steps] /\ job \in [Run -> Job] /\ outcome \in [Run -> Outcome]
    BY DEF FileType
<1>a. ASSUME UNCHANGED <<job, ledger>>, \A q \in Run : pc'[q] = "saved" => pc[q] = "saved"
      PROVE  SavedInv'
    BY <1>a DEF SavedInv, Sel
<1>1. ASSUME NEW r \in Run, StartApply(r) \/ StartExport(r) PROVE SavedInv'
    <2>1. /\ ledger' = ledger /\ pc'[r] # "saved"
          /\ \A q \in Run : q # r => pc'[q] = pc[q] /\ job'[q] = job[q]
        BY <1>0, <1>1 DEF StartApply, StartExport, Start, Goto
    <2> QED
        BY <2>1 DEF SavedInv, Sel
<1>2. ASSUME NEW r \in Run, Quiet(r) PROVE SavedInv'
    <2>1. /\ ledger' = ledger /\ pc'[r] # "saved"
          /\ \A q \in Run : q # r => pc'[q] = pc[q] /\ job'[q] = job[q]
        BY <1>2, QuietSteps
    <2> QED
        BY <2>1 DEF SavedInv, Sel
<1>3. ASSUME NEW r \in Run, ReconcileMesh(r) PROVE SavedInv'
    BY <1>0, <1>3, <1>a DEF ReconcileMesh, Goto
<1>4. ASSUME NEW r \in Run, Save(r) PROVE SavedInv'
    <2>1. /\ pc[r] = "save" /\ job' = job /\ ledger' = Recorded(r)
          /\ \A q \in Run : q # r => pc'[q] = pc[q]
        BY <1>0, <1>4 DEF Save, Goto
    <2>2. \A q \in Run : q # r => pc[q] # "saved"
        BY <2>1 DEF LockInv, LockOf, Holds
    <2>3. ASSUME CoversEnvironment(job[r])
          PROVE  ledger'.keys \cap Select(EnvFilter, Namespace) = Sel(job[r]).gw
        <3>1. ledger'.keys = (mem[r].keys \ Select(job[r].filter, Namespace)) \cup Sel(job[r]).gw
            BY <2>1 DEF Recorded
        <3>2. job[r].gw \in SUBSET Namespace
            BY <1>0 DEF Job
        <3> QED
            BY <2>3, <3>1, <3>2 DEF Sel, Select
    <2> QED
        BY <2>1, <2>2, <2>3 DEF SavedInv, Sel
<1>5. ASSUME RemoveLock PROVE SavedInv'
    BY <1>0, <1>5, <1>a DEF RemoveLock, Goto
<1>6. ASSUME Commit \/ Repoint \/ HandEdit \/ UNCHANGED vars PROVE SavedInv'
    BY <1>6, <1>a DEF Commit, Repoint, HandEdit, vars
<1> QED
    BY <1>1, <1>2, <1>3, <1>4, <1>5, <1>6 DEF Next, Step, Done, Quiet

(* Under the lock a run is alone with the destinations.                    *)
LEMMA OneHolds ==
    ASSUME LockInv, NEW r \in Run, NEW q \in Run, Holds(q), Holds(r)
    PROVE  q = r
BY DEF LockInv, LockOf

LEMMA CalmStep ==
    ASSUME FileType, Shape, LockInv, CalmInv, [Next]_vars
    PROVE  CalmInv'
<1> DEFINE G == FileOf[GatewayPath]
           Kept(q) == job[q].kind = "apply" =>
                        /\ job[q].path = aim
                        /\ pc[q] \in Working => files[G] = GatewayDoc(q)
                        /\ pc[q] \in {"allocate", "save", "saved"} => Declares(q)
<1> SUFFICES ASSUME calm' PROVE RecordedOrAboutToBe' /\ \A q \in Run : Kept(q)'
    BY DEF CalmInv
<1> USE DEF RecordsMesh, CoversEnvironment
<1>0. /\ pc \in [Run -> Steps] /\ job \in [Run -> Job] /\ outcome \in [Run -> Outcome]
      /\ files \in [File -> Document] /\ \A r \in Run : ShapeOf(r)
    BY DEF FileType, Shape
<1>c. calm = TRUE => RecordedOrAboutToBe /\ \A q \in Run : Kept(q)
    BY DEF CalmInv
(* A run keeps what it works on while its files and its job stay.          *)
<1>k. ASSUME NEW q \in Run, Kept(q), job'[q] = job[q], aim' = aim,
             pc'[q] \in Working => files'[G] = files[G] /\ pc[q] \in Working,
             pc'[q] \in {"allocate", "save", "saved"} =>
                 /\ pc[q] \in {"allocate", "save", "saved"}
                 /\ files'[FileOf[job[q].path]] = files[FileOf[job[q].path]]
      PROVE  Kept(q)'
    BY <1>k DEF GatewayDoc, Declares, About, Sel
<1>i. ASSUME NEW q \in Run, job'[q] = Idle PROVE Kept(q)'
    BY <1>i DEF Idle
<1>w. ASSUME UNCHANGED <<aim, ledger>>, calm = TRUE,
             ~SamePath(aim) => files'[FileOf[aim]] = files[FileOf[aim]],
             \A q \in Run : pc[q] \in {"allocate", "save"} =>
                 pc'[q] \in {"allocate", "save"} /\ outcome'[q] = outcome[q]
      PROVE  RecordedOrAboutToBe'
    BY <1>c, <1>w DEF RecordedOrAboutToBe, SamePath
<1>1. ASSUME NEW r \in Run, StartApply(r) \/ StartExport(r)
      PROVE  RecordedOrAboutToBe' /\ \A q \in Run : Kept(q)'
    <2>0. PICK kind, l : /\ <<kind, l>> \in {<<"apply", "lock">>, <<"export", "mesh">>}
                         /\ Start(r, kind) /\ Goto(r, l)
        BY <1>1 DEF StartApply, StartExport
    <2>f. PICK f \in NamespaceFilters :
              job' = [job EXCEPT ![r] = [kind |-> kind, filter |-> f, gw |-> gw, mesh |-> mesh,
                                         path |-> aim]]
        BY <2>0 DEF Start
    <2>1. /\ UNCHANGED <<aim, ledger, files, outcome, calm>> /\ pc[r] = "idle"
          /\ \A q \in Run : q # r => pc'[q] = pc[q] /\ job'[q] = job[q]
          /\ job'[r].path = aim
        BY <1>0, <2>0, <2>f DEF Start, Goto
    <2>2. job'[r].kind = "apply" => pc'[r] = "lock"
        BY <1>0, <2>0, <2>f DEF Goto
    <2>3. RecordedOrAboutToBe'
        BY <1>w, <2>1
    <2>4. Kept(r)'
        BY <2>1, <2>2 DEF Working
    <2>5. \A q \in Run : q # r => Kept(q)'
        BY <1>c, <1>k, <2>1
    <2> QED
        BY <2>3, <2>4, <2>5
<1>2. ASSUME NEW r \in Run, LockAndLoad(r)
      PROVE  RecordedOrAboutToBe' /\ \A q \in Run : Kept(q)'
    <2>1. /\ UNCHANGED <<aim, ledger, files, outcome, calm, job>> /\ pc[r] = "lock"
          /\ pc'[r] = "gateway" /\ \A q \in Run : q # r => pc'[q] = pc[q]
        BY <1>0, <1>2 DEF LockAndLoad, Goto
    <2> QED
        BY <1>c, <1>k, <1>w, <2>1 DEF Working
<1>3. ASSUME NEW r \in Run, LockRefused(r) \/ WriteOut(r) \/ Unlock(r) \/ Fail(r) \/ Crash(r)
      PROVE  RecordedOrAboutToBe' /\ \A q \in Run : Kept(q)'
    <2>1. /\ UNCHANGED <<aim, ledger, files>> /\ calm = TRUE
          /\ pc[r] \notin {"allocate", "save"} /\ job'[r] = Idle
          /\ \A q \in Run : q # r => pc'[q] = pc[q] /\ job'[q] = job[q] /\ outcome'[q] = outcome[q]
        BY <1>0, <1>3 DEF LockRefused, WriteOut, Unlock, Fail, Crash, Leave, Goto
    <2>2. RecordedOrAboutToBe'
        BY <1>w, <2>1
    <2>3. \A q \in Run : q # r => Kept(q)'
        BY <1>c, <1>k, <2>1
    <2>4. Kept(r)'
        BY <1>i, <2>1
    <2> QED
        BY <2>2, <2>3, <2>4
<1>4. ASSUME NEW r \in Run, PublishGateway(r) \/ WriteGateway(r) \/ WriteRest(r)
      PROVE  RecordedOrAboutToBe' /\ \A q \in Run : Kept(q)'
    <2>1. PICK d, l : /\ files' = [files EXCEPT ![G] = d] /\ pc' = [pc EXCEPT ![r] = l]
                      /\ \/ l = "mesh" /\ d = GatewayDoc(r)
                         \/ l = "rest"
        BY <1>4 DEF PublishGateway, WriteGateway, WriteRest, Publish, Goto
    <2>2. UNCHANGED <<aim, ledger, outcome, calm, job>> /\ pc[r] \in {"gateway", "rest"}
        BY <1>4 DEF PublishGateway, WriteGateway, WriteRest
    <2>3. \A q \in Run : q # r /\ job[q].kind = "apply" => pc[q] \notin Working
        <3>1. Holds(r)
            BY <2>2 DEF Holds
        <3>2. \A q \in Run : job[q].kind = "apply" /\ pc[q] \in Working => Holds(q)
            BY DEF Holds, Working
        <3> QED
            BY <3>1, <3>2, OneHolds
    <2>4. RecordedOrAboutToBe'
        <3>1. ~SamePath(aim) => files'[FileOf[aim]] = files[FileOf[aim]]
            BY <1>0, <2>1, FilesOfSpellings DEF SamePath
        <3>2. \A q \in Run : pc[q] \in {"allocate", "save"} => q # r
            BY <2>2
        <3> QED
            BY <1>0, <1>w, <2>1, <2>2, <3>1, <3>2
    <2>5. Kept(r)'
        <3>1. l = "mesh" => files'[G] = GatewayDoc(r)
            BY <1>0, <2>1, FilesOfSpellings
        <3>2. GatewayDoc(r)' = GatewayDoc(r)
            BY <2>2 DEF GatewayDoc, Sel
        <3>3. pc'[r] = l /\ l \in {"mesh", "rest"} /\ job'[r] = job[r] /\ aim' = aim
            BY <1>0, <2>1, <2>2
        <3> QED
            BY <1>c, <2>2, <3>1, <3>2, <3>3 DEF Working
    <2>6. ASSUME NEW q \in Run, q # r PROVE Kept(q)'
        BY <1>0, <1>c, <2>1, <2>2, <2>3, <2>6 DEF Working
    <2> QED
        BY <2>4, <2>5, <2>6
<1>5. ASSUME NEW r \in Run, Allocate(r)
      PROVE  RecordedOrAboutToBe' /\ \A q \in Run : Kept(q)'
    <2>1. /\ UNCHANGED <<aim, ledger, files, outcome, calm, job>> /\ pc[r] = "allocate"
          /\ pc'[r] = "save" /\ \A q \in Run : q # r => pc'[q] = pc[q]
        BY <1>0, <1>5 DEF Allocate, Goto
    <2> QED
        BY <1>c, <1>k, <1>w, <2>1 DEF Working
<1>6. ASSUME NEW r \in Run, Save(r)
      PROVE  RecordedOrAboutToBe' /\ \A q \in Run : Kept(q)'
    <2>1. /\ UNCHANGED <<aim, files, outcome, calm, job>> /\ pc[r] = "save"
          /\ pc'[r] = "saved" /\ \A q \in Run : q # r => pc'[q] = pc[q]
          /\ ledger' = Recorded(r)
        BY <1>0, <1>6 DEF Save, Goto
    <2>2. \A q \in Run : Kept(q)'
        BY <1>c, <1>k, <2>1 DEF Working
    <2>3. job[r].path = aim /\ mem[r] = ledger
        BY <1>0, <1>c, <2>1 DEF ShapeOf, LockInv, LockOf, Holds
    <2>4. ledger'.mesh = IF RecordsMesh(outcome[r]) THEN aim ELSE ledger.mesh
        BY <2>1, <2>3 DEF Recorded
    <2>5. \A q \in Run : pc[q] \in {"allocate", "save"} => q = r
        BY <2>1, OneHolds DEF Holds
    <2>6. RecordedOrAboutToBe'
        BY <1>c, <2>1, <2>4, <2>5 DEF RecordedOrAboutToBe, SamePath
    <2> QED
        BY <2>2, <2>6
<1>7. ASSUME NEW r \in Run, ReconcileMesh(r)
      PROVE  RecordedOrAboutToBe' /\ \A q \in Run : Kept(q)'
    <2> DEFINE f == FileOf[job[r].path]
               o == outcome'[r]
    <2>1. /\ calm = TRUE /\ job[r].kind = "apply" /\ pc[r] = "mesh"
        BY <1>7, Reconciled
    <2>2. /\ UNCHANGED <<aim, ledger, job>> /\ pc'[r] = "allocate"
          /\ \A q \in Run : q # r => pc'[q] = pc[q]
        BY <1>0, <1>7, <2>1 DEF ReconcileMesh, Goto
    <2>3. job[r].path = aim /\ ~SamePath(aim) /\ f \in File /\ G \in File /\ f # G
          /\ files[G] = GatewayDoc(r)
        <3>1. job[r].path = aim /\ files[G] = GatewayDoc(r)
            BY <1>c, <2>1 DEF Working
        <3>2. Accepted(job[r])
            BY <1>0, <2>1 DEF ShapeOf
        <3> QED
            BY <2>1, <3>1, <3>2, FilesOfSpellings DEF Accepted, SamePath
    <2>4. \A q \in Run : q # r => ~Holds(q)
        BY <2>1, OneHolds DEF Holds
    <2>5. files'[G] = files[G]
        <3>1. \/ files' = files
              \/ files' = [files EXCEPT ![f] = Doc("mesh", Sel(job[r]).mesh)]
              \/ files' = [files EXCEPT ![f] = Retraction]
            BY <1>7, Reconciled DEF Writes
        <3> HIDE DEF f, G
        <3> QED
            BY <1>0, <2>3, <3>1
    <2>6. CoversEnvironment(job[r]) =>
              \/ files'[f] = Doc("mesh", Sel(job[r]).mesh)
              \/ Sel(job[r]).mesh = {} /\ files'[f] = NoDoc
        <3>1. o # "Unattributed" \/ ~CoversEnvironment(job[r])
            <4>1. ledger.mesh = aim \/ files[f] = NoDoc
                BY <1>c, <2>1, <2>3, <2>4 DEF RecordedOrAboutToBe, Holds
            <4> QED
                BY <1>7, <2>3, <4>1, Reconciled
        <3>2. CASE o = "Published"
            BY <1>0, <1>7, <2>3, <3>2, Reconciled
        <3>3. CASE o = "Retracted"
            <4>1. Sel(job[r]).mesh = {} /\ files' = [files EXCEPT ![f] = Retraction]
                BY <1>7, <3>3, Reconciled
            <4> HIDE DEF f
            <4>2. files'[f] = Retraction
                BY <1>0, <2>3, <4>1
            <4> QED
                BY <4>1, <4>2 DEF Retraction
        <3>4. CASE o = "AlreadyRetracted"
            BY <1>7, <3>4, Reconciled DEF Retraction, Writes
        <3>5. CASE o = "NeverPublished"
            BY <1>7, <3>5, Reconciled DEF Writes
        <3> QED
            BY <1>7, <3>1, <3>2, <3>3, <3>4, <3>5, Reconciled
    <2>7. Kept(r)'
        <3>1. GatewayDoc(r)' = GatewayDoc(r)
            BY <2>2 DEF GatewayDoc, Sel
        <3>2. Declares(r)'
            BY <2>2, <2>6 DEF Declares, About, Sel
        <3> QED
            BY <2>2, <2>3, <2>5, <3>1, <3>2
    <2>8. ASSUME NEW q \in Run, q # r PROVE Kept(q)'
        <3>1. job[q].kind = "apply" => pc[q] \notin Working
            BY <2>4, <2>8 DEF Holds, Working
        <3> QED
            BY <1>c, <2>1, <2>2, <2>8, <3>1 DEF Working
    <2>9. RecordedOrAboutToBe'
        <3>1. CASE RecordsMesh(o)
            BY <2>2, <3>1 DEF RecordedOrAboutToBe
        <3>2. CASE ~RecordsMesh(o)
            <4>1. files' = files
                BY <1>7, <3>2, Reconciled
            <4>2. ledger.mesh = aim \/ files[f] = NoDoc
                BY <1>c, <2>1, <2>3, <2>4 DEF RecordedOrAboutToBe, Holds
            <4> QED
                BY <2>2, <2>3, <4>1, <4>2 DEF RecordedOrAboutToBe
        <3> QED
            BY <3>1, <3>2
    <2> QED
        BY <2>7, <2>8, <2>9
<1>8. ASSUME RemoveLock
      PROVE  RecordedOrAboutToBe' /\ \A q \in Run : Kept(q)'
    <2>1. PICK r \in Run : pc[r] = "crashed" /\ pc' = [pc EXCEPT ![r] = "idle"]
        BY <1>8 DEF RemoveLock, Goto
    <2>2. UNCHANGED <<aim, ledger, files, outcome, calm, job>>
        BY <1>8 DEF RemoveLock
    <2> QED
        BY <1>0, <1>c, <1>k, <1>w, <2>1, <2>2 DEF Working
<1>9. ASSUME Commit \/ Repoint \/ HandEdit \/ UNCHANGED vars
      PROVE  RecordedOrAboutToBe' /\ \A q \in Run : Kept(q)'
    <2>1. UNCHANGED <<aim, ledger, files, outcome, calm, job, pc>>
        BY <1>9 DEF Commit, Repoint, HandEdit, vars
    <2> QED
        BY <1>c, <1>k, <1>w, <2>1
<1> HIDE DEF Kept
<1>10. ASSUME NEW r \in Run, Step(r) \/ Fail(r) \/ Crash(r)
       PROVE  RecordedOrAboutToBe' /\ \A q \in Run : Kept(q)'
    BY <1>2, <1>3, <1>4, <1>5, <1>6, <1>7, <1>10 DEF Step
<1> QED
    BY <1>1, <1>8, <1>9, <1>10 DEF Next, Done

(***************************************************************************)
(* The invariant holds from the start, whatever the runs do.               *)
(***************************************************************************)
LEMMA InitFiles ==
    ASSUME Init
    PROVE  FileInv
<1> USE FilesOfSpellings DEF Init
<1>1. FileType
    BY IdleIsJob, FilePublicationAssumption DEF FileType, NoDoc, Doc, Document, Outcome, Steps
<1>2. Shape /\ LockInv
    BY DEF Shape, ShapeOf, LockInv, LockOf, Holds, Idle
<1>3. OursInv /\ WholeInv
    BY DEF OursInv, WholeInv, EmptyLedger, NoDoc, Torn, Doc
<1>4. CalmInv
    BY FilePublicationAssumption DEF CalmInv, RecordedOrAboutToBe, Idle, Spelling, File
<1>5. SavedInv
    BY DEF SavedInv
<1> QED
    BY <1>1, <1>2, <1>3, <1>4, <1>5 DEF FileInv

LEMMA FilesInductive == Spec => []FileInv
<1>1. Init => FileInv
    BY InitFiles
<1>2. FileInv /\ [Next]_vars => FileInv'
    BY TypeStep, ShapeStep, LockStep, OursStep, WholeStep, CalmStep, SavedStep DEF FileInv
<1> QED
    BY <1>1, <1>2, PTL DEF Spec

(* Type correctness of publication in file mode.                           *)
THEOREM FileTypeCorrect == Spec => []TypeOK
<1>1. FileInv => TypeOK
    BY DEF FileInv, FileType, TypeOK, Document, LedgerType, Outcome
<1> QED
    BY <1>1, FilesInductive, PTL

(* Whatever fails and wherever a process dies, a regular destination of    *)
(* the gateway document holds a whole document (write_atomically).         *)
THEOREM DocumentsAreAlwaysWhole == Spec => []DocumentsStayWhole
<1>1. FileInv => DocumentsStayWhole
    BY FilesOfSpellings DEF FileInv, WholeInv, DocumentsStayWhole
<1> QED
    BY <1>1, FilesInductive, PTL

(* A run that completes while nobody but applies touched the destinations, *)
(* none of which failed between two writes, leaves the gateway document,   *)
(* the mesh document, a withdrawn one included, and the ledger as its      *)
(* checkout declares, however many runs and commits came before it.        *)
THEOREM CompletedRunsConverge == Spec => []CompletedRunConverges
<1>1. ASSUME FileInv PROVE CompletedRunConverges
    <2> SUFFICES ASSUME NEW r \in Run, pc[r] = "saved", calm, CoversEnvironment(job[r])
                 PROVE  LET s == Sel(job[r])
                        IN  /\ files[FileOf[GatewayPath]] = GatewayDoc(r)
                            /\ ledger.keys \cap Select(EnvFilter, Namespace) = s.gw
                            /\ files[FileOf[job[r].path]]
                                   \in {Doc("mesh", s.mesh)} \cup (IF s.mesh = {} THEN {NoDoc} ELSE {})
        BY DEF CompletedRunConverges
    <2>1. job[r].kind = "apply"
        BY <1>1 DEF FileInv, Shape, ShapeOf
    <2>2. files[FileOf[GatewayPath]] = GatewayDoc(r) /\ Declares(r)
        BY <1>1, <2>1 DEF FileInv, CalmInv, Working
    <2>3. ledger.keys \cap Select(EnvFilter, Namespace) = Sel(job[r]).gw
        BY <1>1 DEF FileInv, SavedInv
    <2> QED
        BY <2>2, <2>3 DEF Declares, About
<1> QED
    BY <1>1, FilesInductive, PTL

(* A run moves by its own steps, and only a reconciliation decides to      *)
(* write a mesh document.                                                  *)
LEMMA OwnSteps ==
    ASSUME FileType, [Next]_vars, NEW r \in Run, pc'[r] # pc[r] \/ outcome'[r] # outcome[r]
    PROVE  StartApply(r) \/ StartExport(r) \/ Step(r) \/ Fail(r) \/ Crash(r) \/ RemoveLock
<1>0. pc \in [Run -> Steps] /\ outcome \in [Run -> Outcome]
    BY DEF FileType
<1> USE DEF Goto, Leave
<1>1. ASSUME NEW q \in Run, q # r, StartApply(q) \/ StartExport(q) PROVE FALSE
    BY <1>0, <1>1 DEF StartApply, StartExport, Start
<1>2. ASSUME NEW q \in Run, q # r, Step(q) PROVE FALSE
    BY <1>0, <1>2 DEF Step, LockAndLoad, LockRefused, PublishGateway, WriteGateway, WriteRest,
                      ReconcileMesh, Allocate, Save, WriteOut, Unlock
<1>3. ASSUME NEW q \in Run, q # r, Fail(q) \/ Crash(q) PROVE FALSE
    BY <1>0, <1>3 DEF Fail, Crash
<1>4. ASSUME Commit \/ Repoint \/ HandEdit \/ UNCHANGED vars PROVE FALSE
    BY <1>4 DEF Commit, Repoint, HandEdit, vars
<1> QED
    BY <1>1, <1>2, <1>3, <1>4 DEF Next, Done

LEMMA OnlyReconciling ==
    ASSUME FileType, [Next]_vars, NEW r \in Run, outcome'[r] # outcome[r], outcome'[r] \in Writes
    PROVE  ReconcileMesh(r)
<1>0. outcome \in [Run -> Outcome] /\ "none" \notin Writes
    BY DEF FileType, Writes
<1>1. ASSUME StartApply(r) \/ StartExport(r) PROVE FALSE
    BY <1>1 DEF StartApply, StartExport, Start
<1>2. ASSUME \/ LockAndLoad(r) \/ PublishGateway(r) \/ WriteGateway(r) \/ WriteRest(r)
             \/ Allocate(r) \/ Save(r) \/ RemoveLock
      PROVE  FALSE
    BY <1>2 DEF LockAndLoad, PublishGateway, WriteGateway, WriteRest, Allocate, Save, RemoveLock
<1>3. ASSUME LockRefused(r) \/ WriteOut(r) \/ Unlock(r) \/ Fail(r) \/ Crash(r) PROVE FALSE
    <2>1. outcome' = [outcome EXCEPT ![r] = "none"]
        BY <1>3 DEF LockRefused, WriteOut, Unlock, Fail, Crash, Leave
    <2> QED
        BY <1>0, <2>1
<1> QED
    BY <1>1, <1>2, <1>3, OwnSteps DEF Step

(* A document that is written is about the whole environment.              *)
LEMMA WideDocuments ==
    ASSUME FileInv, [Next]_vars
    PROVE  DocumentsAreWide
<1> SUFFICES ASSUME NEW r \in Run
             PROVE  /\ pc[r] = "gateway" /\ pc'[r] = "mesh"
                           => files'[FileOf[GatewayPath]].ns = Select(EnvFilter, job[r].gw)
                    /\ outcome[r] # outcome'[r] /\ outcome'[r] \in Writes
                           => files'[FileOf[job[r].path]].ns = Select(EnvFilter, job[r].mesh)
    BY DEF DocumentsAreWide
<1>0. /\ pc \in [Run -> Steps] /\ files \in [File -> Document] /\ outcome \in [Run -> Outcome]
      /\ ShapeOf(r)
    BY DEF FileInv, FileType, Shape
<1>1. ASSUME pc[r] = "gateway", pc'[r] = "mesh"
      PROVE  files'[FileOf[GatewayPath]].ns = Select(EnvFilter, job[r].gw)
    <2>1. PublishGateway(r)
        <3> USE DEF Goto, Leave
        <3>1. ASSUME StartApply(r) \/ StartExport(r) PROVE FALSE
            BY <1>1, <3>1 DEF StartApply, StartExport, Start
        <3>2. ASSUME \/ LockAndLoad(r) \/ LockRefused(r) \/ WriteGateway(r) \/ WriteRest(r)
                     \/ ReconcileMesh(r) \/ Allocate(r) \/ Save(r) \/ WriteOut(r) \/ Unlock(r)
              PROVE  FALSE
            BY <1>0, <1>1, <3>2 DEF LockAndLoad, LockRefused, WriteGateway, WriteRest, ReconcileMesh,
                                    Allocate, Save, WriteOut, Unlock
        <3>3. ASSUME Fail(r) \/ Crash(r) \/ RemoveLock PROVE FALSE
            BY <1>0, <1>1, <3>3 DEF Fail, Crash, RemoveLock
        <3> QED
            BY <1>1, <3>1, <3>2, <3>3, OwnSteps DEF FileInv, Step
    <2>2. files'[FileOf[GatewayPath]] = GatewayDoc(r)
        BY <1>0, <2>1, FilesOfSpellings DEF PublishGateway, Publish
    <2>3. Accepted(job[r]) /\ job[r].kind = "apply"
        BY <1>0, <1>1 DEF ShapeOf
    <2>4. Sel(job[r]).gw = Select(EnvFilter, job[r].gw)
        <3>1. CASE CoversEnvironment(job[r])
            BY <3>1 DEF CoversEnvironment, Sel
        <3>2. CASE ~CoversEnvironment(job[r])
            <4>1. Sel(job[r]).gw = job[r].gw
                BY <2>3, <3>2 DEF Accepted, Narrowed
            <4>2. EnvFilter = NoNs
                BY <2>3, <3>2 DEF Accepted, NamespaceFilters, CoversEnvironment
            <4> QED
                BY <4>1, <4>2 DEF Select
        <3> QED
            BY <3>1, <3>2
    <2> QED
        BY <2>2, <2>4 DEF GatewayDoc, Doc
<1>2. ASSUME outcome[r] # outcome'[r], outcome'[r] \in Writes
      PROVE  files'[FileOf[job[r].path]].ns = Select(EnvFilter, job[r].mesh)
    <2>1. ReconcileMesh(r)
        BY <1>2, OnlyReconciling DEF FileInv
    <2>2. FileOf[job[r].path] \in File
        BY <1>0, <2>1, FilesOfSpellings DEF ReconcileMesh, ShapeOf, Accepted
    <2>3. CoversEnvironment(job[r])
        BY <1>2, <2>1, Reconciled DEF FileInv, RecordsMesh
    <2>4. files'[FileOf[job[r].path]].ns = Sel(job[r]).mesh
        <3> DEFINE f == FileOf[job[r].path]
        <3>1. CASE outcome'[r] = "Published"
            <4>1. files' = [files EXCEPT ![f] = Doc("mesh", Sel(job[r]).mesh)]
                BY <2>1, <3>1, Reconciled DEF FileInv
            <4> QED
                BY <1>0, <2>2, <4>1 DEF Doc
        <3>2. CASE outcome'[r] = "Retracted"
            <4>1. files' = [files EXCEPT ![f] = Retraction] /\ Sel(job[r]).mesh = {}
                BY <2>1, <3>2, Reconciled DEF FileInv
            <4> QED
                BY <1>0, <2>2, <4>1 DEF Retraction, Doc
        <3> QED
            BY <1>2, <3>1, <3>2 DEF Writes
    <2> QED
        BY <2>3, <2>4 DEF Sel, CoversEnvironment
<1> QED
    BY <1>1, <1>2

(***************************************************************************)
(* No run loses what an overlapping one recorded, replaces a document by   *)
(* its narrowed part, or retracts what no run published.                   *)
(***************************************************************************)
THEOREM RunsKeepEachOthersFiles == Spec => FilesAreOurs
<1>1. ASSUME FileInv, [Next]_vars PROVE OursOnly
    <2>1. NoLostRecord
        BY <1>1 DEF NoLostRecord, Save, FileInv, LockInv, LockOf, Holds
    <2>2. DocumentsAreWide
        BY <1>1, WideDocuments
    <2>3. RetractsOnlyPublished
        <3> SUFFICES ASSUME NEW r \in Run, outcome[r] # outcome'[r], outcome'[r] = "Retracted"
                     PROVE  FileOf[job[r].path] \in ours
            BY DEF RetractsOnlyPublished
        <3>1. ReconcileMesh(r)
            BY <1>1, OnlyReconciling DEF FileInv, Writes
        <3>2. ledger.mesh = job[r].path
            BY <1>1, <3>1, Reconciled DEF FileInv
        <3>3. job[r].path # NoPath
            BY <1>1, <3>1, FilesOfSpellings DEF ReconcileMesh, FileInv, Shape, ShapeOf, Accepted
        <3> QED
            BY <1>1, <3>2, <3>3 DEF FileInv, OursInv
    <2> QED
        BY <2>1, <2>2, <2>3 DEF OursOnly
<1> QED
    BY <1>1, FilesInductive, PTL DEF Spec, FilesAreOurs

-----------------------------------------------------------------------------
(* Validation of the documents before they are published.  Its components  *)
(* are Validator's; `grade`, `turn` and `spawns` are its next, pc, starts.  *)
CONSTANTS Repositories, StreamCap, Attempts, NoNamespace, Default, Mesh
VARIABLES declared, good, bad, grade, accepted, rejected, ended, turn, attempt, status,
          got, spec, refused, spawns, env, child, code, descendant, writers, bytes,
          reader, expired
V == INSTANCE Validator WITH next <- grade, pc <- turn, starts <- spawns

Supervised == {"poll", "check", "receive"}
JudgedPart == V!Passes[grade]

(* Where the loop is, and what is decided by then.                          *)
LoopInv ==
    /\ turn # "idle" <=> ended = "no"
    /\ turn # "idle" => grade \in DOMAIN V!Passes
    /\ turn = "locate" \/ ended # "no" => ~spec
    /\ refused # "no" => turn = "idle" /\ child = "reaped" /\ descendant # "group"
    /\ turn \in {"locate", "spawn"} => child = "none" /\ spawns = 0
    /\ ended = "verdict" => grade = Len(V!Passes) + 1
    /\ accepted \cup rejected = 1 .. (grade - 1)

(* A child grades the document of its pass; a pass ends with what its child *)
(* exited with, and no child is graded twice.                               *)
ChildInv ==
    /\ child = "none" =>
          /\ ~status /\ got = {}
          /\ \A s \in V!Stream : writers[s] = {} /\ bytes[s] = 0 /\ reader[s] = "reading"
    /\ status => child = "reaped"
    /\ turn \in Supervised =>
          /\ child # "none" /\ V!Graded = JudgedPart
          /\ child \in {"exited", "reaped"} =>
                /\ code = 0 => JudgedPart \in good
                /\ code = 1 => JudgedPart \in bad

(* A report is of a stream at its end, or past the cap; and a stream that   *)
(* was heard of stays as it was.                                            *)
StreamInv ==
    \A s \in V!Stream :
        /\ reader[s] = "sent" => writers[s] = {} \/ bytes[s] > StreamCap
        /\ reader[s] = "heard" => writers[s] = {} /\ bytes[s] <= StreamCap
        /\ s \in got => reader[s] = "heard" \/ \E t \in V!Stream : reader[t] = "lost"

VerdictInv ==
    /\ \A i \in accepted : V!Passes[i] \in good
    /\ \A i \in rejected : V!Passes[i] \in bad

ValidationInv == V!TypeOK /\ LoopInv /\ ChildInv /\ StreamInv /\ VerdictInv

LEMMA PassTypes ==
    ASSUME V!ValidatorAssumption, declared \in Repositories
    PROVE  /\ V!Passes \in Seq(V!Documented \cup {Default, Mesh}) /\ Len(V!Passes) \in Nat \ {0}
           /\ DOMAIN V!Passes = 1 .. Len(V!Passes)
           /\ \A i \in DOMAIN V!Passes : V!Passes[i] \in V!Documented \cup {Default, Mesh}
           /\ {declared.namespaces[i] : i \in DOMAIN declared.namespaces}
              \cup (IF declared.mesh THEN {Mesh} ELSE {}) \subseteq {V!Passes[i] : i \in DOMAIN V!Passes}
  <1>1. declared.namespaces \in Seq(V!Documented) /\ declared.mesh \in BOOLEAN
    BY DEF V!ValidatorAssumption
  <1>. DEFINE D == V!Documented \cup {Default, Mesh}
  <1>2. V!Gateway \in Seq(D) /\ Len(V!Gateway) \in Nat \ {0}
    <2>1. CASE declared.namespaces = <<>>
      BY <2>1 DEF V!Gateway
    <2>2. CASE declared.namespaces # <<>>
      <3>1. V!Gateway = declared.namespaces
        BY <2>2 DEF V!Gateway
      <3>2. declared.namespaces \in Seq(D)
        BY <1>1
      <3>3. Len(declared.namespaces) # 0
        BY <1>1, <2>2
      <3>. QED
        BY <1>1, <3>1, <3>2, <3>3
    <2>. QED
      BY <2>1, <2>2
  <1>3. \A i \in DOMAIN declared.namespaces : i \in DOMAIN V!Gateway /\ V!Gateway[i] = declared.namespaces[i]
    <2>1. CASE declared.namespaces = <<>>
      BY <2>1
    <2>2. CASE declared.namespaces # <<>>
      BY <2>2 DEF V!Gateway
    <2>. QED
      BY <2>1, <2>2
  <1>. HIDE DEF D
  <1>4. CASE declared.mesh
    <2>1. V!Passes = Append(V!Gateway, Mesh) /\ Mesh \in D
      BY <1>4 DEF V!Passes, D
    <2>2. V!Passes \in Seq(D) /\ Len(V!Passes) = Len(V!Gateway) + 1
      BY <1>2, <2>1
    <2>3. Len(V!Passes) \in DOMAIN V!Passes /\ V!Passes[Len(V!Passes)] = Mesh
      BY <1>2, <2>1, <2>2
    <2>4. \A i \in DOMAIN V!Gateway : i \in DOMAIN V!Passes /\ V!Passes[i] = V!Gateway[i]
      BY <1>2, <2>1, <2>2
    <2>5. \A i \in DOMAIN V!Passes : V!Passes[i] \in D
      BY <2>2
    <2>. QED
      BY <1>2, <1>3, <1>4, <2>2, <2>3, <2>4, <2>5 DEF D
  <1>5. CASE ~declared.mesh
    <2>1. V!Passes = V!Gateway
      BY <1>5 DEF V!Passes
    <2>2. \A i \in DOMAIN V!Passes : V!Passes[i] \in D
      BY <1>2, <2>1
    <2>. QED
      BY <1>2, <1>3, <1>5, <2>1, <2>2 DEF D
  <1>. QED
    BY <1>4, <1>5

(* What a supervised child grades is what its pass is of.                   *)
LEMMA GradesItsPass ==
    ASSUME V!ValidatorAssumption, declared \in Repositories, grade \in DOMAIN V!Passes,
           env = V!ChildNamespace
    PROVE  V!Graded = JudgedPart
  <1>1. V!Passes[grade] \in V!Documented \cup {Default, Mesh}
    BY PassTypes
  <1>2. V!Passes[grade] # NoNamespace
    BY <1>1 DEF V!ValidatorAssumption
  <1>. QED
    BY <1>2 DEF V!ChildNamespace, V!Graded, JudgedPart

(* Nothing is decided at first.                                            *)
LEMMA ValidationInit == ASSUME V!ValidatorAssumption, V!Init PROVE ValidationInv
  <1>1. declared \in Repositories
    BY DEF V!Init
  <1>2. Len(V!Passes) \in Nat \ {0} /\ DOMAIN V!Passes = 1 .. Len(V!Passes)
    BY <1>1, PassTypes
  <1>3. StreamCap \in Nat \ {0} /\ Attempts \in Nat \ {0}
    BY DEF V!ValidatorAssumption
  <1>4. V!TypeOK
    <2>1. /\ writers \in [V!Stream -> SUBSET {"child", "descendant"}]
          /\ bytes \in [V!Stream -> 0..(StreamCap + 1)]
          /\ reader \in [V!Stream -> {"reading", "sent", "cut", "lost", "heard"}]
      BY <1>3 DEF V!Init
    <2>2. status \in BOOLEAN /\ spec \in BOOLEAN /\ expired \in BOOLEAN
      BY DEF V!Init
    <2>3. /\ grade \in 1..(Len(V!Passes) + 1) /\ accepted \subseteq DOMAIN V!Passes /\ rejected \subseteq DOMAIN V!Passes
          /\ attempt \in 0..(Attempts - 1) /\ spawns \in 0..1 /\ code \in V!Codes
      BY <1>2, <1>3 DEF V!Init, V!Codes
    <2>4. /\ declared \in Repositories
          /\ good \subseteq V!Documented \cup {Default, Mesh} /\ bad \subseteq V!Documented \cup {Default, Mesh}
          /\ ended \in {"no", "verdict", "error"}
          /\ turn \in {"locate", "spawn", "poll", "check", "receive", "idle"}
          /\ got \subseteq V!Stream /\ refused \in {"no", "timeout", "overflow"}
          /\ env \in V!Documented \cup {Default, NoNamespace}
          /\ child \in {"none", "running", "exited", "reaped"}
          /\ descendant \in {"none", "group", "escaped", "gone"}
      BY DEF V!Init
    <2>. QED
      BY <2>1, <2>2, <2>3, <2>4 DEF V!TypeOK
  <1>5. LoopInv
    BY <1>2 DEF V!Init, LoopInv
  <1>6. ChildInv /\ StreamInv /\ VerdictInv
    BY DEF V!Init, ChildInv, StreamInv, VerdictInv, Supervised, V!Stream
  <1>. QED
    BY <1>4, <1>5, <1>6 DEF ValidationInv

(* The passes are the repository's.                                         *)
LEMMA SamePasses == ASSUME UNCHANGED declared PROVE V!Passes' = V!Passes /\ V!Gateway' = V!Gateway
  BY DEF V!Passes, V!Gateway

-----------------------------------------------------------------------------
(* The child's side: nothing it does moves the loop.                        *)

ChildSide ==
    \/ \E p \in {"child", "descendant"}, s \in V!Stream : V!Write(p, s) \/ V!Close(p, s)
    \/ V!Fork \/ V!Escape \/ V!DescendantEnds \/ V!Exit \/ V!Expire
    \/ \E s \in V!Stream : V!Report(s) \/ V!Cut(s) \/ V!Panic(s)

LEMMA OutsideType ==
    ASSUME V!ValidatorAssumption, ValidationInv, ended = "no", ChildSide
    PROVE  V!TypeOK' /\ UNCHANGED <<declared, V!overall, V!loop, env>>
  <1>1. V!TypeOK
    BY DEF ValidationInv
  <1>2. StreamCap \in Nat \ {0}
    BY DEF V!ValidatorAssumption
  <1>3. UNCHANGED <<declared, V!overall, V!loop, env>>
    BY DEF ChildSide, V!Write, V!Close, V!Fork, V!Escape, V!DescendantEnds, V!Exit, V!Expire, V!Report, V!Cut, V!Panic,
           V!repository, V!world
  <1>4. UNCHANGED <<declared, grade, accepted, rejected, ended, turn, attempt, status, got, spec,
                    refused, spawns, env>>
    BY <1>3 DEF V!overall, V!loop
  <1>5. V!Passes' = V!Passes
    BY <1>4, SamePasses
  <1>6. /\ declared' \in Repositories /\ grade' \in 1..(Len(V!Passes') + 1)
        /\ accepted' \subseteq DOMAIN V!Passes' /\ rejected' \subseteq DOMAIN V!Passes'
        /\ ended' \in {"no", "verdict", "error"}
        /\ turn' \in {"locate", "spawn", "poll", "check", "receive", "idle"}
        /\ attempt' \in 0..(Attempts - 1) /\ status' \in BOOLEAN
        /\ got' \subseteq V!Stream /\ spec' \in BOOLEAN
        /\ refused' \in {"no", "timeout", "overflow"} /\ spawns' \in 0..1
        /\ env' \in V!Documented \cup {Default, NoNamespace}
    BY <1>1, <1>4, <1>5 DEF V!TypeOK
  <1>7. V!Graded \in V!Documented \cup {Default, Mesh}
    <2>1. env \in V!Documented \cup {Default, NoNamespace}
      BY <1>1 DEF V!TypeOK
    <2>. QED
      BY <2>1 DEF V!Graded
  <1>8. /\ good' \subseteq V!Documented \cup {Default, Mesh} /\ bad' \subseteq V!Documented \cup {Default, Mesh}
        /\ code' \in V!Codes /\ child' \in {"none", "running", "exited", "reaped"}
    <2>1. CASE V!Exit
      BY <1>1, <1>7, <2>1 DEF V!Exit, V!TypeOK, V!Codes
    <2>2. CASE ~V!Exit
      <3>1. UNCHANGED <<good, bad, code, child>>
        BY <2>2 DEF ChildSide, V!Write, V!Close, V!Fork, V!Escape, V!DescendantEnds, V!Expire, V!Report, V!Cut, V!Panic,
                    V!repository, V!world
      <3>. QED
        BY <1>1, <3>1 DEF V!TypeOK
    <2>. QED
      BY <2>1, <2>2
  <1>9. /\ descendant' \in {"none", "group", "escaped", "gone"} /\ expired' \in BOOLEAN
        /\ writers' \in [V!Stream -> SUBSET {"child", "descendant"}]
        /\ bytes' \in [V!Stream -> 0..(StreamCap + 1)]
        /\ reader' \in [V!Stream -> {"reading", "sent", "cut", "lost", "heard"}]
    <2>. DEFINE OK == /\ descendant' \in {"none", "group", "escaped", "gone"} /\ expired' \in BOOLEAN
                      /\ writers' \in [V!Stream -> SUBSET {"child", "descendant"}]
                      /\ bytes' \in [V!Stream -> 0..(StreamCap + 1)]
                      /\ reader' \in [V!Stream -> {"reading", "sent", "cut", "lost", "heard"}]
    <2>0. /\ descendant \in {"none", "group", "escaped", "gone"} /\ expired \in BOOLEAN
          /\ writers \in [V!Stream -> SUBSET {"child", "descendant"}]
          /\ bytes \in [V!Stream -> 0..(StreamCap + 1)]
          /\ reader \in [V!Stream -> {"reading", "sent", "cut", "lost", "heard"}]
      BY <1>1 DEF V!TypeOK
    <2>1. ASSUME NEW p \in {"child", "descendant"}, NEW s \in V!Stream, V!Write(p, s) PROVE OK
      <3>1. bytes[s] + 1 \in 0..(StreamCap + 1)
        BY <1>2, <2>0, <2>1 DEF V!Write
      <3>2. bytes' = [bytes EXCEPT ![s] = bytes[s] + 1] /\ UNCHANGED <<descendant, writers, reader, expired>>
        BY <2>1 DEF V!Write
      <3>. QED
        BY <2>0, <3>1, <3>2
    <2>2. ASSUME NEW p \in {"child", "descendant"}, NEW s \in V!Stream, V!Close(p, s) PROVE OK
      BY <2>0, <2>2 DEF V!Close
    <2>3. CASE V!Fork
      BY <2>0, <2>3 DEF V!Fork
    <2>4. CASE V!Escape
      BY <2>0, <2>4 DEF V!Escape
    <2>5. CASE V!DescendantEnds
      BY <2>0, <2>5 DEF V!DescendantEnds
    <2>6. CASE V!Exit
      BY <2>0, <2>6 DEF V!Exit
    <2>7. CASE V!Expire
      BY <2>0, <2>7 DEF V!Expire, V!world
    <2>8. ASSUME NEW s \in V!Stream, V!Report(s) \/ V!Cut(s) \/ V!Panic(s) PROVE OK
      BY <2>0, <2>8 DEF V!Report, V!Cut, V!Panic
    <2>. QED
      BY <2>1, <2>2, <2>3, <2>4, <2>5, <2>6, <2>7, <2>8 DEF ChildSide
  <1>. QED
    BY <1>3, <1>6, <1>8, <1>9 DEF V!TypeOK

LEMMA OutsideStep ==
    ASSUME V!ValidatorAssumption, ValidationInv, ended = "no", ChildSide
    PROVE  ValidationInv'
  <1>. USE DEF ValidationInv
  <1>1. V!TypeOK' /\ UNCHANGED <<declared, V!overall, V!loop, env>>
    BY OutsideType
  <1>2. UNCHANGED <<declared, grade, accepted, rejected, ended, turn, attempt, status, got, spec,
                    refused, spawns, env>>
    BY <1>1 DEF V!overall, V!loop
  <1>3. V!Passes' = V!Passes /\ JudgedPart' = JudgedPart /\ V!Graded' = V!Graded
    BY <1>2, SamePasses DEF JudgedPart, V!Graded
  <1>4. /\ good \subseteq good' /\ bad \subseteq bad' /\ (child' = "none" <=> child = "none")
        /\ (child' = "reaped" <=> child = "reaped")
    BY DEF ChildSide, V!Write, V!Close, V!Fork, V!Escape, V!DescendantEnds, V!Exit, V!Expire, V!Report, V!Cut, V!Panic,
           V!repository, V!world
  <1>5. LoopInv'
    <2>1. refused = "no"
      BY DEF LoopInv
    <2>. QED
      BY <1>2, <1>3, <1>4, <2>1 DEF LoopInv
  <1>6. VerdictInv'
    BY <1>2, <1>3, <1>4 DEF VerdictInv
  <1>7. turn \in Supervised <=> child # "none"
    BY DEF LoopInv, ChildInv, Supervised, V!TypeOK
  <1>8. ASSUME child' \in {"exited", "reaped"}, turn \in Supervised
        PROVE  (code' = 0 => JudgedPart \in good') /\ (code' = 1 => JudgedPart \in bad')
    <2>1. CASE V!Exit
      BY <1>8, <2>1 DEF V!Exit, ChildInv
    <2>2. CASE ~V!Exit
      <3>1. UNCHANGED <<good, bad, code, child>>
        BY <2>2 DEF ChildSide, V!Write, V!Close, V!Fork, V!Escape, V!DescendantEnds, V!Expire, V!Report, V!Cut, V!Panic,
                    V!repository, V!world
      <3>. QED
        BY <1>8, <3>1 DEF ChildInv
    <2>. QED
      BY <2>1, <2>2
  <1>9. ASSUME child = "none", NEW s \in V!Stream
        PROVE  writers'[s] = {} /\ bytes'[s] = 0 /\ reader'[s] = "reading"
    <2>1. \A t \in V!Stream : writers[t] = {} /\ bytes[t] = 0 /\ reader[t] = "reading"
      BY <1>9 DEF ChildInv
    <2>2. UNCHANGED <<bytes, reader>>
      BY <1>9, <2>1 DEF ChildSide, V!Write, V!Close, V!Fork, V!Escape, V!DescendantEnds, V!Exit, V!Expire, V!Report,
                        V!Cut, V!Panic, V!world
    <2>3. writers'[s] = {}
      BY <1>9, <2>1 DEF ChildSide, V!Write, V!Close, V!Fork, V!Escape, V!DescendantEnds, V!Exit, V!Expire, V!Report,
                        V!Cut, V!Panic, V!world, V!TypeOK
    <2>. QED
      BY <2>1, <2>2, <2>3
  <1>10. ChildInv'
    BY <1>2, <1>3, <1>4, <1>8, <1>9 DEF ChildInv, Supervised
  <1>11. ASSUME NEW s \in V!Stream
         PROVE  /\ reader'[s] = "sent" => writers'[s] = {} \/ bytes'[s] > StreamCap
                /\ reader'[s] = "heard" => writers'[s] = {} /\ bytes'[s] <= StreamCap
                /\ reader[s] = "heard" => reader'[s] = "heard"
                /\ reader[s] = "lost" => reader'[s] = "lost"
    <2>0. /\ reader[s] = "sent" => writers[s] = {} \/ bytes[s] > StreamCap
          /\ reader[s] = "heard" => writers[s] = {} /\ bytes[s] <= StreamCap
          /\ StreamCap \in Nat /\ bytes[s] \in Nat
          /\ writers \in [V!Stream -> SUBSET {"child", "descendant"}]
          /\ bytes \in [V!Stream -> 0..(StreamCap + 1)]
          /\ reader \in [V!Stream -> {"reading", "sent", "cut", "lost", "heard"}]
      BY DEF StreamInv, V!TypeOK, V!ValidatorAssumption
    <2>. DEFINE OK ==
            /\ reader'[s] = "sent" => writers'[s] = {} \/ bytes'[s] > StreamCap
            /\ reader'[s] = "heard" => writers'[s] = {} /\ bytes'[s] <= StreamCap
            /\ reader[s] = "heard" => reader'[s] = "heard"
            /\ reader[s] = "lost" => reader'[s] = "lost"
    <2>1. ASSUME NEW p \in {"child", "descendant"}, NEW t \in V!Stream, V!Write(p, t) PROVE OK
      <3>1. writers[t] # {} /\ bytes[t] <= StreamCap /\ UNCHANGED <<writers, reader>>
            /\ bytes' = [bytes EXCEPT ![t] = bytes[t] + 1]
        BY <2>1 DEF V!Write
      <3>2. CASE s = t
        BY <2>0, <3>1, <3>2
      <3>3. CASE s # t
        BY <2>0, <3>1, <3>3
      <3>. QED
        BY <3>2, <3>3
    <2>2. ASSUME NEW p \in {"child", "descendant"}, NEW t \in V!Stream, V!Close(p, t) PROVE OK
      <3>1. writers' = [writers EXCEPT ![t] = @ \ {p}] /\ UNCHANGED <<bytes, reader>>
        BY <2>2 DEF V!Close
      <3>. QED
        BY <2>0, <3>1
    <2>3. CASE V!Fork
      BY <2>0, <2>3 DEF V!Fork
    <2>4. CASE V!Escape
      BY <2>0, <2>4 DEF V!Escape
    <2>5. CASE V!DescendantEnds
      BY <2>0, <2>5 DEF V!DescendantEnds
    <2>6. CASE V!Exit
      BY <2>0, <2>6 DEF V!Exit
    <2>7. CASE V!Expire
      BY <2>0, <2>7 DEF V!Expire, V!world
    <2>8. ASSUME NEW t \in V!Stream, V!Report(t) \/ V!Cut(t) \/ V!Panic(t) PROVE OK
      BY <2>0, <2>8 DEF V!Report, V!Cut, V!Panic
    <2>. QED
      BY <2>1, <2>2, <2>3, <2>4, <2>5, <2>6, <2>7, <2>8 DEF ChildSide
  <1>12. StreamInv'
    BY <1>2, <1>11 DEF StreamInv
  <1>. QED
    BY <1>1, <1>5, <1>6, <1>10, <1>12

-----------------------------------------------------------------------------
(* The supervisor's side.                                                   *)

ValidationVars == <<declared, good, bad, grade, accepted, rejected, ended, turn, attempt, status, got, spec,
                refused, spawns, env, child, code, descendant, writers, bytes, reader, expired>>

(* A step of the loop that leaves the child, the verdicts and the streams. *)
LEMMA QuietStep ==
    ASSUME V!ValidatorAssumption, ValidationInv, UNCHANGED <<V!repository, V!overall, V!world, expired, refused, spawns, status>>,
           turn # "idle", turn' \in {"locate", "spawn", "poll", "check", "receive"},
           attempt' \in 0..(Attempts - 1), spec' \in BOOLEAN, got' \subseteq V!Stream,
           \/ turn = "locate" /\ turn' = "spawn" /\ got' = got
           \/ turn = "spawn" /\ turn' = "spawn" /\ got' = got
           \/ turn \in Supervised /\ turn' \in Supervised,
           \A s \in got' : s \in got \/ \A t \in V!Stream : reader[t] \in {"heard", "lost"}
    PROVE  ValidationInv'
  <1>. USE DEF ValidationInv
  <1>1. UNCHANGED <<declared, good, bad, grade, accepted, rejected, ended, env, child, code, descendant,
                    writers, bytes, reader, expired, refused, spawns, status>>
    BY DEF V!repository, V!overall, V!world
  <1>2. V!Passes' = V!Passes /\ JudgedPart' = JudgedPart /\ V!Graded' = V!Graded
    BY <1>1, SamePasses DEF JudgedPart, V!Graded
  <1>3. V!TypeOK'
    BY <1>1, <1>2 DEF V!TypeOK
  <1>4. LoopInv'
    BY <1>1, <1>2 DEF LoopInv, Supervised
  <1>5. child = "none" => got' = {}
    <2>1. CASE turn \in Supervised
      BY <2>1 DEF ChildInv
    <2>2. CASE turn \notin Supervised
      BY <2>2 DEF ChildInv
    <2>. QED
      BY <2>1, <2>2
  <1>6. turn' \in Supervised => turn \in Supervised
    BY DEF Supervised
  <1>7. ChildInv'
    BY <1>1, <1>2, <1>5, <1>6 DEF ChildInv
  <1>8. StreamInv'
    BY <1>1 DEF StreamInv
  <1>9. VerdictInv'
    BY <1>1, <1>2 DEF VerdictInv
  <1>. QED
    BY <1>3, <1>4, <1>7, <1>8, <1>9

LEMMA LocateStep == ASSUME V!ValidatorAssumption, ValidationInv, V!Locate PROVE ValidationInv'
  <1>1. UNCHANGED <<V!repository, V!overall, V!world, expired, refused, spawns, status, attempt, got>>
        /\ turn = "locate" /\ turn' = "spawn" /\ spec' = TRUE
    BY DEF V!Locate
  <1>2. attempt \in 0..(Attempts - 1) /\ got \subseteq V!Stream
    BY DEF ValidationInv, V!TypeOK
  <1>. QED
    BY <1>1, <1>2, QuietStep

LEMMA BusyStep == ASSUME V!ValidatorAssumption, ValidationInv, V!SpawnBusy PROVE ValidationInv'
  <1>1. UNCHANGED <<V!repository, V!overall, V!world, expired, refused, spawns, status, spec, got>>
        /\ turn = "spawn" /\ turn' = "spawn" /\ attempt' = attempt + 1 /\ attempt + 1 < Attempts
    BY DEF V!SpawnBusy
  <1>2. attempt \in 0..(Attempts - 1) /\ got \subseteq V!Stream /\ spec \in BOOLEAN
        /\ Attempts \in Nat
    BY DEF ValidationInv, V!TypeOK, V!ValidatorAssumption
  <1>3. attempt' \in 0..(Attempts - 1)
    BY <1>1, <1>2
  <1>. QED
    BY <1>1, <1>2, <1>3, QuietStep

LEMMA WaitStep == ASSUME V!ValidatorAssumption, ValidationInv, V!Wait PROVE ValidationInv'
  <1>1. UNCHANGED <<V!repository, V!overall, V!world, expired, refused, spawns, status, spec, got, attempt>>
        /\ turn = "check" /\ turn' = "receive"
    BY DEF V!Wait
  <1>2. attempt \in 0..(Attempts - 1) /\ got \subseteq V!Stream /\ spec \in BOOLEAN
    BY DEF ValidationInv, V!TypeOK
  <1>. QED
    BY <1>1, <1>2, QuietStep DEF Supervised

LEMMA ReceiveNothingStep == ASSUME V!ValidatorAssumption, ValidationInv, V!ReceiveNothing PROVE ValidationInv'
  <1>1. UNCHANGED <<V!repository, V!overall, V!world, expired, refused, spawns, status, spec, attempt>>
        /\ turn = "receive" /\ turn' = "poll"
        /\ got' = IF \A s \in V!Stream : reader[s] \in {"heard", "lost"} THEN V!Stream ELSE got
    BY DEF V!ReceiveNothing
  <1>2. attempt \in 0..(Attempts - 1) /\ got \subseteq V!Stream /\ spec \in BOOLEAN
    BY DEF ValidationInv, V!TypeOK
  <1>3. got' \subseteq V!Stream
        /\ \A s \in got' : s \in got \/ \A t \in V!Stream : reader[t] \in {"heard", "lost"}
    BY <1>1, <1>2
  <1>. QED
    BY <1>1, <1>2, <1>3, QuietStep DEF Supervised

LEMMA SpawnValidator == ASSUME V!ValidatorAssumption, ValidationInv, V!Spawn PROVE ValidationInv'
  <1>. USE DEF ValidationInv
  <1>1. /\ turn = "spawn" /\ turn' = "poll" /\ spawns' = spawns + 1 /\ env' = V!ChildNamespace
        /\ attempt' = 0
        /\ child' = "running" /\ writers' = [s \in V!Stream |-> {"child"}]
        /\ UNCHANGED <<declared, good, bad, grade, accepted, rejected, ended, status, got, spec,
                       refused, code, descendant, bytes, reader, expired>>
    BY DEF V!Spawn, V!repository, V!overall
  <1>2. V!Passes' = V!Passes /\ V!ChildNamespace' = V!ChildNamespace
    BY <1>1, SamePasses DEF V!ChildNamespace
  <1>3. child = "none" /\ spawns = 0 /\ grade \in DOMAIN V!Passes /\ ended = "no" /\ refused = "no"
    BY <1>1 DEF LoopInv
  <1>4. V!Passes[grade] \in V!Documented \cup {Default, Mesh}
    BY <1>3, PassTypes DEF V!TypeOK
  <1>5. env' \in V!Documented \cup {Default, NoNamespace}
    BY <1>1, <1>4 DEF V!ChildNamespace
  <1>6. V!TypeOK'
    <2>1. attempt' \in 0..(Attempts - 1)
      BY <1>1 DEF V!ValidatorAssumption
    <2>. QED  BY <1>1, <1>2, <1>3, <1>5, <2>1 DEF V!TypeOK
  <1>7. LoopInv'
    BY <1>1, <1>2, <1>3 DEF LoopInv
  <1>8. V!Passes[grade] # NoNamespace
    BY <1>4 DEF V!ValidatorAssumption
  <1>9. V!Graded' = JudgedPart'
    BY <1>1, <1>2, <1>8 DEF V!Graded, JudgedPart, V!ChildNamespace
  <1>10. ChildInv'
    BY <1>1, <1>3, <1>9 DEF ChildInv
  <1>11. StreamInv'
    BY <1>1, <1>3 DEF StreamInv, ChildInv
  <1>12. VerdictInv'
    BY <1>1, <1>2 DEF VerdictInv
  <1>. QED
    BY <1>6, <1>7, <1>10, <1>11, <1>12

LEMMA PollStep == ASSUME V!ValidatorAssumption, ValidationInv, V!Poll PROVE ValidationInv'
  <1>. USE DEF ValidationInv
  <1>1. /\ turn = "poll" /\ turn' = "check"
        /\ UNCHANGED <<declared, good, bad, grade, accepted, rejected, ended, attempt, got, spec, refused,
                       spawns, env, code, descendant, writers, bytes, reader, expired>>
    BY DEF V!Poll, V!repository, V!overall
  <1>2. \/ child = "exited" /\ status' = TRUE /\ child' = "reaped"
        \/ UNCHANGED <<status, child>>
    BY DEF V!Poll
  <1>3. V!Passes' = V!Passes /\ JudgedPart' = JudgedPart /\ V!Graded' = V!Graded
    BY <1>1, SamePasses DEF JudgedPart, V!Graded
  <1>4. V!TypeOK'
    <2>1. status' \in BOOLEAN
      BY <1>2 DEF V!TypeOK
    <2>2. child' \in {"none", "running", "exited", "reaped"}
      BY <1>2 DEF V!TypeOK
    <2>. QED
      BY <1>1, <1>3, <2>1, <2>2 DEF V!TypeOK
  <1>5. LoopInv'
    BY <1>1, <1>2, <1>3 DEF LoopInv
  <1>6. ChildInv'
    BY <1>1, <1>2, <1>3 DEF ChildInv, Supervised
  <1>7. StreamInv'
    BY <1>1 DEF StreamInv
  <1>8. VerdictInv'
    BY <1>1, <1>3 DEF VerdictInv
  <1>. QED
    BY <1>4, <1>5, <1>6, <1>7, <1>8

LEMMA HearStep ==
    ASSUME V!ValidatorAssumption, ValidationInv, NEW s \in V!Stream, V!Receive(s), ~V!Overflows(s) PROVE ValidationInv'
  <1>. USE DEF ValidationInv
  <1>1. /\ turn = "receive" /\ turn' = "poll" /\ reader[s] \in {"sent", "cut"}
        /\ reader[s] = "sent" => bytes[s] <= StreamCap
        /\ got' = got \cup {s}
        /\ reader' = [reader EXCEPT ![s] = IF reader[s] = "sent" THEN "heard" ELSE "lost"]
        /\ UNCHANGED <<declared, good, bad, grade, accepted, rejected, ended, attempt, status, spec, refused,
                       spawns, env, child, code, descendant, writers, bytes, expired>>
    <2>1. StreamCap \in Nat /\ bytes[s] \in Nat
      BY DEF V!TypeOK, V!ValidatorAssumption
    <2>. QED
      BY <2>1 DEF V!Receive, V!Overflows, V!repository, V!overall
  <1>2. V!Passes' = V!Passes /\ JudgedPart' = JudgedPart /\ V!Graded' = V!Graded
    BY <1>1, SamePasses DEF JudgedPart, V!Graded
  <1>3. V!TypeOK'
    BY <1>1, <1>2 DEF V!TypeOK
  <1>4. LoopInv'
    BY <1>1, <1>2 DEF LoopInv
  <1>5. ChildInv'
    BY <1>1, <1>2 DEF ChildInv, Supervised
  <1>6. reader[s] = "sent" => writers[s] = {}
    <2>1. StreamCap \in Nat /\ bytes[s] \in Nat
      BY DEF V!TypeOK, V!ValidatorAssumption
    <2>. QED
      BY <1>1, <2>1 DEF StreamInv
  <1>7. reader \in [V!Stream -> {"reading", "sent", "cut", "lost", "heard"}]
    BY DEF V!TypeOK
  <1>8. /\ reader'[s] = IF reader[s] = "sent" THEN "heard" ELSE "lost"
        /\ \A t \in V!Stream : t # s => reader'[t] = reader[t]
    BY <1>1, <1>7
  <1>9. \A t \in V!Stream : reader[t] = "lost" => reader'[t] = "lost"
    BY <1>1, <1>8
  <1>10. StreamInv'
    <2>. SUFFICES ASSUME NEW t \in V!Stream
                  PROVE  /\ reader'[t] = "sent" => writers[t] = {} \/ bytes[t] > StreamCap
                         /\ reader'[t] = "heard" => writers[t] = {} /\ bytes[t] <= StreamCap
                         /\ t \in got' => reader'[t] = "heard" \/ \E u \in V!Stream : reader'[u] = "lost"
      BY <1>1 DEF StreamInv
    <2>1. CASE t = s
      BY <1>1, <1>6, <1>8, <2>1
    <2>2. CASE t # s
      BY <1>1, <1>8, <1>9, <2>2 DEF StreamInv
    <2>. QED
      BY <2>1, <2>2
  <1>11. VerdictInv'
    BY <1>1, <1>2 DEF VerdictInv
  <1>. QED
    BY <1>3, <1>4, <1>5, <1>10, <1>11

(* The loop gives up, with or without killing what it started.              *)
LEMMA FailStep ==
    ASSUME V!ValidatorAssumption, ValidationInv, V!Fail, turn # "idle",
           \/ UNCHANGED <<refused, V!world, expired>>
           \/ V!KillTree /\ turn \in Supervised /\ refused' \in {"timeout", "overflow"}
    PROVE  ValidationInv'
  <1>. USE DEF ValidationInv
  <1>1. /\ ended' = "error" /\ turn' = "idle" /\ spec' = FALSE
        /\ UNCHANGED <<declared, good, bad, grade, accepted, rejected, attempt, status, got, spawns,
                       env, code, bytes, reader, expired>>
    BY DEF V!Fail, V!repository, V!world, V!KillTree
  <1>2. /\ refused = "no" /\ \A s \in V!Stream : writers'[s] \subseteq writers[s]
        /\ \/ UNCHANGED <<refused, child, descendant, writers>>
           \/ /\ refused' \in {"timeout", "overflow"} /\ child # "none" /\ child' = "reaped"
              /\ descendant' \in {"none", "escaped", "gone"}
    <2>1. refused = "no"
      BY DEF LoopInv
    <2>2. CASE UNCHANGED <<refused, V!world, expired>>
      BY <2>1, <2>2 DEF V!world
    <2>3. CASE V!KillTree /\ turn \in Supervised /\ refused' \in {"timeout", "overflow"}
      BY <2>1, <2>3 DEF V!KillTree, ChildInv, V!TypeOK
    <2>. QED
      BY <2>2, <2>3
  <1>3. V!Passes' = V!Passes
    BY <1>1, SamePasses
  <1>4. writers' \in [V!Stream -> SUBSET {"child", "descendant"}]
    BY <1>2 DEF V!KillTree, V!world, V!TypeOK
  <1>5. V!TypeOK'
    BY <1>1, <1>2, <1>3, <1>4 DEF V!TypeOK
  <1>6. LoopInv'
    BY <1>1, <1>2, <1>3 DEF LoopInv
  <1>7. ChildInv'
    BY <1>1, <1>2 DEF ChildInv, Supervised
  <1>8. StreamInv'
    BY <1>1, <1>2 DEF StreamInv
  <1>9. VerdictInv'
    BY <1>1, <1>3 DEF VerdictInv
  <1>. QED
    BY <1>5, <1>6, <1>7, <1>8, <1>9

LEMMA FinishStep == ASSUME V!ValidatorAssumption, ValidationInv, turn = "check", V!Complete, code \in {0, 1},
                           V!Verdict, V!NoChild PROVE ValidationInv'
  <1>. USE DEF ValidationInv
  <1>1. /\ accepted' = IF code = 0 THEN accepted \cup {grade} ELSE accepted
        /\ rejected' = IF code = 1 THEN rejected \cup {grade} ELSE rejected
        /\ grade' = grade + 1
        /\ attempt' = 0 /\ status' = FALSE /\ got' = {} /\ spec' = FALSE
        /\ refused' = "no" /\ spawns' = 0 /\ UNCHANGED <<declared, good, bad>>
    BY DEF V!Verdict, V!repository
  <1>2. /\ env' = NoNamespace /\ child' = "none" /\ code' = 0 /\ descendant' = "none"
        /\ writers' = [s \in V!Stream |-> {}] /\ bytes' = [s \in V!Stream |-> 0]
        /\ reader' = [s \in V!Stream |-> "reading"] /\ expired' = FALSE
    BY DEF V!NoChild
  <1>3. V!Passes' = V!Passes /\ Len(V!Passes) \in Nat \ {0} /\ DOMAIN V!Passes = 1 .. Len(V!Passes)
    BY <1>1, PassTypes, SamePasses DEF V!TypeOK
  <1>4. grade \in DOMAIN V!Passes /\ grade \in Nat \ {0} /\ ended = "no"
    BY <1>3 DEF LoopInv
  <1>5. \/ grade = Len(V!Passes) /\ ended' = "verdict" /\ turn' = "idle"
        \/ grade # Len(V!Passes) /\ turn' = "locate" /\ ended' = "no"
    BY <1>4 DEF V!Verdict
  <1>6. child = "reaped"
    BY DEF V!Complete, ChildInv
  <1>7. (code = 0 => V!Passes[grade] \in good) /\ (code = 1 => V!Passes[grade] \in bad)
    BY <1>6 DEF ChildInv, Supervised, JudgedPart
  <1>8. V!TypeOK'
    <2>1. grade' \in 1..(Len(V!Passes) + 1)
      BY <1>1, <1>3, <1>4
    <2>2. accepted' \subseteq DOMAIN V!Passes /\ rejected' \subseteq DOMAIN V!Passes
      BY <1>1, <1>4 DEF V!TypeOK
    <2>3. /\ writers' \in [V!Stream -> SUBSET {"child", "descendant"}]
          /\ bytes' \in [V!Stream -> 0..(StreamCap + 1)]
          /\ reader' \in [V!Stream -> {"reading", "sent", "cut", "lost", "heard"}]
      BY <1>2 DEF V!ValidatorAssumption
    <2>4. 0 \in 0 .. (Attempts - 1)
      BY DEF V!ValidatorAssumption
    <2>5. /\ declared' \in Repositories
          /\ good' \subseteq V!Documented \cup {Default, Mesh} /\ bad' \subseteq V!Documented \cup {Default, Mesh}
      BY <1>1 DEF V!TypeOK
    <2>6. status' \in BOOLEAN /\ spec' \in BOOLEAN /\ expired' \in BOOLEAN
      BY <1>1, <1>2
    <2>7. /\ ended' \in {"no", "verdict", "error"}
          /\ turn' \in {"locate", "spawn", "poll", "check", "receive", "idle"}
      BY <1>5
    <2>8. /\ got' \subseteq V!Stream /\ refused' \in {"no", "timeout", "overflow"} /\ spawns' \in 0..1
          /\ env' \in V!Documented \cup {Default, NoNamespace}
          /\ child' \in {"none", "running", "exited", "reaped"} /\ code' \in V!Codes
          /\ descendant' \in {"none", "group", "escaped", "gone"} /\ attempt' \in 0..(Attempts - 1)
      BY <1>1, <1>2, <2>4 DEF V!Codes
    <2>. QED
      BY <1>3, <2>1, <2>2, <2>3, <2>5, <2>6, <2>7, <2>8 DEF V!TypeOK
  <1>9. accepted' \cup rejected' = 1 .. (grade' - 1)
    <2>1. accepted \cup rejected = 1 .. (grade - 1)
      BY DEF LoopInv
    <2>2. accepted' \cup rejected' = accepted \cup rejected \cup {grade}
      BY <1>1
    <2>3. grade' - 1 = grade /\ 1 .. grade = (1 .. (grade - 1)) \cup {grade}
      BY <1>1, <1>4
    <2>. QED
      BY <2>1, <2>2, <2>3
  <1>10. LoopInv'
    BY <1>1, <1>2, <1>3, <1>4, <1>5, <1>9 DEF LoopInv
  <1>11. ChildInv'
    BY <1>1, <1>2, <1>5 DEF ChildInv, Supervised
  <1>12. StreamInv'
    BY <1>1, <1>2 DEF StreamInv
  <1>13. VerdictInv'
    BY <1>1, <1>3, <1>7 DEF VerdictInv
  <1>. QED
    BY <1>8, <1>10, <1>11, <1>12, <1>13

(* Every step of a validation.                                             *)
LEMMA ValidationStep == ASSUME V!ValidatorAssumption, ValidationInv, [V!Next]_V!vars PROVE ValidationInv'
  <1>1. ASSUME ended = "no", ChildSide PROVE ValidationInv'
    BY <1>1, OutsideStep
  <1>2. CASE V!Locate
    BY <1>2, LocateStep
  <1>3. CASE V!BinaryNotFound
    BY <1>3, FailStep DEF V!BinaryNotFound
  <1>4. CASE V!Spawn
    BY <1>4, SpawnValidator
  <1>5. CASE V!SpawnBusy
    BY <1>5, BusyStep
  <1>6. CASE V!SpawnFails
    BY <1>6, FailStep DEF V!SpawnFails
  <1>7. CASE V!Poll
    BY <1>7, PollStep
  <1>7a. CASE V!PollFails
    BY <1>7a, FailStep DEF V!PollFails
  <1>8. CASE V!Finish
    <2>1. CASE code \in {0, 1}
      BY <1>8, <2>1, FinishStep DEF V!Finish
    <2>2. CASE code \notin {0, 1}
      BY <1>8, <2>2, FailStep DEF V!Finish
    <2>. QED
      BY <2>1, <2>2
  <1>9. CASE V!TimeOut
    BY <1>9, FailStep DEF V!TimeOut, Supervised
  <1>10. CASE V!Wait
    BY <1>10, WaitStep
  <1>11. ASSUME NEW s \in V!Stream, V!Receive(s) PROVE ValidationInv'
    <2>1. CASE V!Overflows(s)
      BY <1>11, <2>1, FailStep DEF V!Receive, Supervised
    <2>2. CASE ~V!Overflows(s)
      BY <1>11, <2>2, HearStep
    <2>. QED
      BY <2>1, <2>2
  <1>12. CASE V!ReceiveNothing
    BY <1>12, ReceiveNothingStep
  <1>13. CASE UNCHANGED V!vars
    <2>1. UNCHANGED ValidationVars
      BY <1>13 DEF V!vars, V!repository, V!overall, V!loop, V!world, ValidationVars
    <2>2. V!Passes' = V!Passes /\ JudgedPart' = JudgedPart /\ V!Graded' = V!Graded
      BY <2>1, SamePasses DEF JudgedPart, V!Graded, ValidationVars
    <2>3. V!TypeOK'
      BY <2>1, <2>2 DEF ValidationInv, V!TypeOK, ValidationVars
    <2>4. LoopInv'
      BY <2>1, <2>2 DEF ValidationInv, LoopInv, ValidationVars
    <2>5. ChildInv' /\ StreamInv' /\ VerdictInv'
      BY <2>1, <2>2 DEF ValidationInv, ChildInv, StreamInv, VerdictInv, ValidationVars
    <2>. QED
      BY <2>3, <2>4, <2>5 DEF ValidationInv
  <1>. QED
    BY <1>1, <1>2, <1>3, <1>4, <1>5, <1>6, <1>7, <1>7a, <1>8, <1>9, <1>10, <1>11, <1>12, <1>13
       DEF V!Next, ChildSide, V!Done

(* What the invariant says of a verdict.                                   *)
LEMMA WholeVerdicts == ASSUME V!ValidatorAssumption, ValidationInv PROVE V!DocumentsAreWhole
  <1>. USE DEF ValidationInv
  <1>1. V!AcceptedIsGood
    <2>. SUFFICES ASSUME ended = "verdict", rejected = {}
                  PROVE  {declared.namespaces[i] : i \in DOMAIN declared.namespaces}
                         \cup (IF declared.mesh THEN {Mesh} ELSE {}) \subseteq good
      BY DEF V!AcceptedIsGood
    <2>1. /\ DOMAIN V!Passes = 1 .. Len(V!Passes) /\ Len(V!Passes) \in Nat
          /\ {declared.namespaces[i] : i \in DOMAIN declared.namespaces}
             \cup (IF declared.mesh THEN {Mesh} ELSE {}) \subseteq {V!Passes[i] : i \in DOMAIN V!Passes}
      BY PassTypes DEF V!TypeOK
    <2>2. accepted = DOMAIN V!Passes
      <3>1. grade = Len(V!Passes) + 1 /\ accepted = 1 .. (grade - 1)
        BY DEF LoopInv
      <3>2. grade - 1 = Len(V!Passes)
        BY <2>1, <3>1
      <3>. QED
        BY <2>1, <3>1, <3>2
    <2>3. \A i \in DOMAIN V!Passes : V!Passes[i] \in good
      BY <2>2 DEF VerdictInv
    <2>. QED
      BY <2>1, <2>3
  <1>2. V!VerdictIsWhole
    BY DEF V!VerdictIsWhole, V!Complete, ChildInv, StreamInv
  <1>3. V!RejectedIsBad
    BY DEF V!RejectedIsBad, VerdictInv
  <1>4. V!RefusalLeavesNothing /\ V!NoSpecIsLeft
    BY DEF V!RefusalLeavesNothing, V!NoSpecIsLeft, LoopInv
  <1>. QED
    BY <1>1, <1>2, <1>3, <1>4 DEF V!DocumentsAreWhole

(* Whatever the child, its descendants and its pipes do, and whatever the   *)
(* parent's own namespace filter, a validation accepts only what was graded *)
(* good, in full unless a reader failed, rejects only what was graded bad,  *)
(* and leaves neither the spec file nor the group of a validator it refused *)
(* behind (run_validate_command, output_bounded_with).                      *)
THEOREM VerdictsAreAlwaysWhole == ASSUME V!ValidatorAssumption PROVE V!Spec => []V!DocumentsAreWhole
  <1>1. V!Init => ValidationInv
    BY ValidationInit
  <1>2. ValidationInv /\ [V!Next]_V!vars => ValidationInv'
    BY ValidationStep
  <1>3. ValidationInv => V!DocumentsAreWhole
    BY WholeVerdicts
  <1>. QED
    BY <1>1, <1>2, <1>3, PTL DEF V!Spec

=============================================================================
