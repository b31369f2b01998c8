-------------------------- MODULE FilePublication --------------------------
(***************************************************************************)
(* Apply and export of an environment in file mode (cmd_apply and          *)
(* cmd_export, main.rs; apply/file_target.rs; StateFile::lock and save,    *)
(* state.rs).  A run publishes the gateway document, then reconciles the   *)
(* mesh document, and records in the ledger which path the mesh document   *)
(* was published at: only a recorded path is retracted when the repository *)
(* declares no mesh fragment any more.                                     *)
(*                                                                         *)
(* Runs share one machine: its ledger, its lock file and the destinations. *)
(* Gateway resources and mesh fragments are counted by namespace.          *)
(***************************************************************************)
EXTENDS Naturals

CONSTANTS
    Run, Namespace, NoNs,
    EnvFilter,          \* the environment's own namespace_filter, or NoNs
    GatewayPath,        \* FERRUM_FILE_OUTPUT_PATH
    MeshPath,           \* spellings FERRUM_MESH_FILE_OUTPUT_PATH may take
    FileOf,             \* [spelling -> the file it resolves to]
    Regular,            \* the gateway destination is a regular file
    Nobody, NoPath,
    MaxStarts, MaxEdits, MaxFaults      \* bounds: runs, others' edits, failures

Spelling == MeshPath \cup {GatewayPath}
File == {FileOf[p] : p \in Spelling}
ASSUME FilePublicationAssumption ==
    /\ NoNs \notin Namespace /\ EnvFilter \in Namespace \cup {NoNs}
    /\ Nobody \notin Run /\ NoPath \notin Spelling /\ Regular \in BOOLEAN
    /\ DOMAIN FileOf = Spelling /\ {MaxStarts, MaxEdits, MaxFaults} \subseteq Nat

VARIABLES
    gw, mesh, aim,          \* the repository and the configured mesh path
    files,                  \* the destinations
    ledger, lock,           \* .state/<env>.json and .state/<env>.lock
    pc, job, mem, outcome,  \* per run
    ours,                   \* ghost: the mesh files a run ever wrote
    calm,                   \* ghost: no export, hand edit, repointing or lost record
    starts, edits, faults

repository == <<gw, mesh, aim>>
run == <<pc, job, mem, outcome>>
ghosts == <<ours, calm>>
bounds == <<starts, edits, faults>>
vars == <<repository, files, ledger, lock, run, ghosts, bounds>>

Doc(kind, ns) == [kind |-> kind, ns |-> ns]
NoDoc == Doc("none", {})
Retraction == Doc("mesh", {})       \* {version, mesh: {}}
Torn == Doc("torn", {})
Select(filter, nss) == IF filter = NoNs THEN nss ELSE nss \cap {filter}
EmptyLedger == [keys |-> {}, mesh |-> NoPath]
Idle == [kind |-> "none", filter |-> NoNs, gw |-> {}, mesh |-> {}, path |-> NoPath]
Steps == {"idle", "lock", "gateway", "rest", "mesh", "allocate", "save", "unlock",
          "saved", "out", "crashed"}

Init ==
    /\ gw \in SUBSET Namespace /\ mesh \in SUBSET Namespace /\ aim \in MeshPath
    /\ files = [f \in File |-> NoDoc] /\ ledger = EmptyLedger /\ lock = Nobody
    /\ pc = [r \in Run |-> "idle"] /\ job = [r \in Run |-> Idle]
    /\ mem = [r \in Run |-> EmptyLedger] /\ outcome = [r \in Run |-> "none"]
    /\ ours = {} /\ calm = TRUE
    /\ starts = 0 /\ edits = 0 /\ faults = 0

-----------------------------------------------------------------------------
(* What a run sees and may do.                                             *)

(* FERRUM_NAMESPACE only fills in where the environment has no filter.     *)
NamespaceFilters == IF EnvFilter = NoNs THEN Namespace \cup {NoNs} ELSE {EnvFilter}
CoversEnvironment(j) == j.filter = EnvFilter
Sel(j) == [gw |-> Select(j.filter, j.gw), mesh |-> Select(j.filter, j.mesh)]
EmptyDesired(j) == /\ j.filter # NoNs /\ j.gw \cup j.mesh # {}
                   /\ Sel(j).gw \cup Sel(j).mesh = {}
Narrowed(j) == /\ ~CoversEnvironment(j)
               /\ <<Sel(j).gw, Sel(j).mesh>> # <<j.gw, j.mesh>>
SamePath_Spelled(p) == p = GatewayPath   \* mutant: paths compared as text
SamePath(p) == FileOf[p] = FileOf[GatewayPath]

MeshPlan(j, recorded, doc) ==
    IF Sel(j).mesh = {} /\ doc = NoDoc THEN "NeverPublished"
    ELSE IF ~CoversEnvironment(j) THEN "NarrowedScope"
    ELSE IF Sel(j).mesh # {} THEN "Published"
    ELSE IF recorded # j.path THEN "Unattributed"
    ELSE IF doc = Retraction THEN "AlreadyRetracted" ELSE "Retracted"
Writes == {"Published", "Retracted"}

RecordsMesh(o) == o \in Writes \cup {"AlreadyRetracted"}
(* record and record_mesh_publication.                                     *)
Recorded(r) ==
    [keys |-> (mem[r].keys \ Select(job[r].filter, Namespace)) \cup Sel(job[r]).gw,
     mesh |-> IF RecordsMesh(outcome[r]) THEN job[r].path ELSE mem[r].mesh]

-----------------------------------------------------------------------------

Goto(r, l) == pc' = [pc EXCEPT ![r] = l]
Leave(r, l) == /\ Goto(r, l) /\ job' = [job EXCEPT ![r] = Idle]
               /\ mem' = [mem EXCEPT ![r] = EmptyLedger]
               /\ outcome' = [outcome EXCEPT ![r] = "none"]
Start(r, kind) ==
    /\ pc[r] = "idle" /\ starts < MaxStarts /\ starts' = starts + 1
    /\ \E f \in NamespaceFilters, allowEmpty \in BOOLEAN :
          LET j == [kind |-> kind, filter |-> f, gw |-> gw, mesh |-> mesh, path |-> aim]
          IN  /\ EmptyDesired(j) => allowEmpty
              /\ job' = [job EXCEPT ![r] = j]
              /\ kind = "apply" => ~Narrowed(j) /\ ~SamePath(aim)
    /\ UNCHANGED <<repository, files, ledger, lock, mem, outcome, ghosts, edits, faults>>
StartApply(r) == Start(r, "apply") /\ Goto(r, "lock")
(* An export has built its payload before it touches the mesh document.    *)
StartExport(r) == Start(r, "export") /\ Goto(r, "mesh")

(* create_new of the lock file; the ledger is read under it.               *)
MayLock_Unlocked == TRUE   \* mutant: an existing lock file is opened
MayLock == lock = Nobody
LockAndLoad(r) ==
    /\ pc[r] = "lock" /\ MayLock
    /\ lock' = r /\ mem' = [mem EXCEPT ![r] = ledger] /\ Goto(r, "gateway")
    /\ UNCHANGED <<repository, files, ledger, job, outcome, ghosts, bounds>>
LockRefused(r) ==
    /\ pc[r] = "lock" /\ ~MayLock /\ Leave(r, "idle")
    /\ UNCHANGED <<repository, files, ledger, lock, ghosts, bounds>>

Publish(f, d) == files' = [files EXCEPT ![f] = d]
GatewayDoc(r) == Doc("gateway", Sel(job[r]).gw)
(* A destination that is no regular file cannot be replaced.               *)
DirectWrite == ~Regular
(* A temporary file, synced and renamed: nothing is seen of it before.     *)
PublishGateway(r) ==
    /\ pc[r] = "gateway" /\ ~DirectWrite
    /\ Publish(FileOf[GatewayPath], GatewayDoc(r)) /\ Goto(r, "mesh")
    /\ UNCHANGED <<repository, ledger, lock, job, mem, outcome, ghosts, bounds>>
WriteGateway(r) ==
    /\ pc[r] = "gateway" /\ DirectWrite
    /\ Publish(FileOf[GatewayPath], Torn) /\ Goto(r, "rest")
    /\ UNCHANGED <<repository, ledger, lock, job, mem, outcome, ghosts, bounds>>
WriteRest(r) ==
    /\ pc[r] = "rest" /\ Publish(FileOf[GatewayPath], GatewayDoc(r)) /\ Goto(r, "mesh")
    /\ UNCHANGED <<repository, ledger, lock, job, mem, outcome, ghosts, bounds>>

(* Both commands; an export reads the ledger for it and takes no lock.     *)
ReconcileMesh(r) ==
    /\ pc[r] = "mesh"
    /\ LET f == FileOf[job[r].path]
           known == IF job[r].kind = "export" THEN ledger ELSE mem[r]
           o == MeshPlan(job[r], known.mesh, files[f])
       IN  /\ outcome' = [outcome EXCEPT ![r] = o]
           /\ CASE o = "Published" -> Publish(f, Doc("mesh", Sel(job[r]).mesh))
                [] o = "Retracted" -> Publish(f, Retraction)
                [] OTHER -> UNCHANGED files
           /\ ours' = IF o \in Writes THEN ours \cup {f} ELSE ours
    /\ calm' = (calm /\ job[r].kind = "apply")
    /\ Goto(r, IF job[r].kind = "apply" THEN "allocate" ELSE "out")
    /\ UNCHANGED <<repository, ledger, lock, job, mem, bounds>>

Allocate(r) ==
    /\ pc[r] = "allocate" /\ Goto(r, "save")
    /\ UNCHANGED <<repository, files, ledger, lock, job, mem, outcome, ghosts, bounds>>
(* The state is renamed into place, too.                                   *)
Save(r) ==
    /\ pc[r] = "save" /\ ledger' = Recorded(r) /\ Goto(r, "saved")
    /\ UNCHANGED <<repository, files, lock, job, mem, outcome, ghosts, bounds>>
(* The gateway document of an export goes to a path of its own.            *)
WriteOut(r) ==
    /\ pc[r] = "out" /\ Leave(r, "idle")
    /\ UNCHANGED <<repository, files, ledger, lock, ghosts, bounds>>

(* An error return, and a preview without --auto-approve: the guard's drop *)
(* removes the lock file.                                                  *)
Fail(r) ==
    /\ pc[r] \in {"gateway", "rest", "mesh", "allocate", "save", "out"}
    /\ faults < MaxFaults /\ faults' = faults + 1
    /\ Leave(r, IF job[r].kind = "apply" THEN "unlock" ELSE "idle")
    /\ calm' = (calm /\ pc[r] = "gateway")
    /\ UNCHANGED <<repository, files, ledger, lock, ours, starts, edits>>
Unlocks(r) == pc[r] \in {"saved", "unlock"}
Unlock(r) ==
    /\ pc[r] \in {"saved", "unlock"}
    /\ lock' = IF Unlocks(r) THEN Nobody ELSE lock
    /\ Leave(r, "idle") /\ UNCHANGED <<repository, files, ledger, ghosts, bounds>>

Crash(r) ==
    /\ pc[r] \notin {"idle", "crashed"} /\ faults < MaxFaults /\ faults' = faults + 1
    /\ Leave(r, IF lock = r THEN "crashed" ELSE "idle")
    /\ calm' = (calm /\ pc[r] \in {"lock", "gateway", "saved", "unlock"})
    /\ UNCHANGED <<repository, files, ledger, lock, ours, starts, edits>>
(* The operator reads the process id in the lock file first.               *)
RemoveLock ==
    /\ \E r \in Run : pc[r] = "crashed" /\ lock = r /\ Goto(r, "idle")
    /\ lock' = Nobody
    /\ UNCHANGED <<repository, files, ledger, job, mem, outcome, ghosts, bounds>>

-----------------------------------------------------------------------------

Edit == edits < MaxEdits /\ edits' = edits + 1
Commit ==
    /\ Edit /\ gw' \in SUBSET Namespace /\ mesh' \in SUBSET Namespace
    /\ <<gw', mesh'>> # <<gw, mesh>>
    /\ UNCHANGED <<aim, files, ledger, lock, run, ghosts, starts, faults>>
Repoint ==
    /\ Edit /\ aim' \in MeshPath \ {aim} /\ calm' = FALSE
    /\ UNCHANGED <<gw, mesh, files, ledger, lock, run, ours, starts, faults>>
HandEdit ==
    /\ Edit /\ FileOf[aim] # FileOf[GatewayPath] /\ Publish(FileOf[aim], Doc("foreign", {})) /\ calm' = FALSE
    /\ UNCHANGED <<repository, ledger, lock, run, ours, starts, faults>>

Step(r) ==
    \/ LockAndLoad(r) \/ LockRefused(r) \/ PublishGateway(r) \/ WriteGateway(r)
    \/ WriteRest(r) \/ ReconcileMesh(r) \/ Allocate(r) \/ Save(r) \/ WriteOut(r)
    \/ Unlock(r)
Done == starts = MaxStarts /\ (\A r \in Run : pc[r] = "idle") /\ UNCHANGED vars
Next ==
    \/ \E r \in Run : StartApply(r) \/ StartExport(r) \/ Step(r) \/ Fail(r) \/ Crash(r)
    \/ RemoveLock \/ Commit \/ Repoint \/ HandEdit \/ Done
(* A process runs on, and an operator who finds the refusal looks into it. *)
Spec == Init /\ [][Next]_vars /\ WF_vars(RemoveLock) /\ \A r \in Run : WF_vars(Step(r))

-----------------------------------------------------------------------------
(* Properties.                                                             *)

TypeOK ==
    /\ gw \cup mesh \subseteq Namespace /\ aim \in MeshPath
    /\ \A f \in File : files[f].kind \in {"none", "gateway", "mesh", "torn", "foreign"}
                       /\ files[f].ns \subseteq Namespace
    /\ ledger.keys \subseteq Namespace /\ ledger.mesh \in MeshPath \cup {NoPath}
    /\ lock \in Run \cup {Nobody} /\ pc \in [Run -> Steps]
    /\ \A r \in Run : outcome[r] \in Writes \cup {"none", "NeverPublished", "NarrowedScope",
                                                  "Unattributed", "AlreadyRetracted"}
    /\ ours \subseteq File /\ calm \in BOOLEAN
    /\ starts \in 0..MaxStarts /\ edits \in 0..MaxEdits /\ faults \in 0..MaxFaults

(* Whatever fails and wherever a process dies, a regular destination holds *)
(* a whole document (write_atomically).                                    *)
DocumentsStayWhole == Regular => files[FileOf[GatewayPath]] # Torn

(* A document is about the whole environment: a run that was narrowed to   *)
(* a namespace never replaces it with its part.                            *)
DocumentsAreWide ==
    \A r \in Run :
      /\ pc[r] = "gateway" /\ pc'[r] = "mesh"
             => files'[FileOf[GatewayPath]].ns = Select(EnvFilter, job[r].gw)
      /\ outcome[r] # outcome'[r] /\ outcome'[r] \in Writes
             => files'[FileOf[job[r].path]].ns = Select(EnvFilter, job[r].mesh)

(* A retraction rewrites only a destination some run published.            *)
RetractsOnlyPublished ==
    \A r \in Run : outcome[r] # outcome'[r] /\ outcome'[r] = "Retracted"
          => FileOf[job[r].path] \in ours

(* The ledger a run writes continues the one it read: no two applies of an *)
(* environment lose each other's records.                                  *)
NoLostRecord == \A r \in Run : Save(r) => ledger = mem[r]

(* What one run may do to what others published and recorded.              *)
OursOnly == NoLostRecord /\ DocumentsAreWide /\ RetractsOnlyPublished
FilesAreOurs == [][OursOnly]_vars

(* A completed run leaves the destinations and the ledger as its checkout  *)
(* declares, a withdrawn mesh included: the documents went to two files,   *)
(* and what a retraction needs to know was kept.                           *)
CompletedRunConverges ==
    \A r \in Run : pc[r] = "saved" /\ calm /\ CoversEnvironment(job[r])
        => LET s == Sel(job[r])
           IN  /\ files[FileOf[GatewayPath]] = GatewayDoc(r)
               /\ ledger.keys \cap Select(EnvFilter, Namespace) = s.gw
               /\ files[FileOf[job[r].path]]
                      \in {Doc("mesh", s.mesh)} \cup (IF s.mesh = {} THEN {NoDoc} ELSE {})

=============================================================================
