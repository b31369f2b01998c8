---------------------------- MODULE ApplyProofs ----------------------------
(***************************************************************************)
(* Proofs about Apply for every instance.  First its writes: type          *)
(* correctness; in shared mode the repository owns, and deletes, only what *)
(* it wrote; a run reverts no edit it did not plan against, and never      *)
(* writes a row an API spec took over (Preconditions in                    *)
(* src/apply/api_target.rs).  Then a whole run (src/main.rs cmd_apply,     *)
(* src/state.rs): every create is in the saved ledger, the deletes stay    *)
(* within the confirmed share and wait for the writes, a run that reports  *)
(* success leaves its ledger settled, and one nothing disturbs converges.  *)
(***************************************************************************)
EXTENDS Apply, FiniteSetTheorems, TLAPS

(***************************************************************************)
(* What the ledger operations and the plan return, preserve and bound, for *)
(* every ledger, document and view.                                        *)
(***************************************************************************)

(* Every ledger operation of an apply yields a ledger.                     *)
LEMMA LedgerOpsAreLedgers ==
    ASSUME NEW l \in LedgerType, NEW ops \in SUBSET Op, NEW declared \in SUBSET Key,
           NEW liveKeys \in SUBSET Key, NEW read \in SUBSET Namespace
    PROVE  /\ RecordOps(l, ops, declared) \in LedgerType
           /\ ReserveAdds(l, ops) \in LedgerType
           /\ ReconcilePending(l, declared, read) \in LedgerType
           /\ ReconcileAbsent(l, declared, liveKeys, read) \in LedgerType
  BY DEF LedgerType, RecordOps, ReserveAdds, ReconcilePending, ReconcileAbsent,
         KeysOf, Op

(***************************************************************************)
(* No ledger operation but recording adds a managed key, and recording     *)
(* adds only keys of adds and updates that landed (state.rs record_op).    *)
(***************************************************************************)
LEMMA OnlyRecordingManages ==
    ASSUME NEW l \in LedgerType, NEW ops \in SUBSET Op, NEW declared \in SUBSET Key,
           NEW liveKeys \in SUBSET Key, NEW read \in SUBSET Namespace
    PROVE  /\ ReserveAdds(l, ops).managed = l.managed
           /\ ReconcilePending(l, declared, read).managed = l.managed
           /\ ReconcileAbsent(l, declared, liveKeys, read).managed \subseteq l.managed
           /\ RecordOps(l, ops, declared).managed \subseteq
                  l.managed \cup KeysOf(ops, {"Add", "Modify"})
  BY DEF LedgerType, RecordOps, ReserveAdds, ReconcilePending, ReconcileAbsent

(* A plan consists of operations.                                          *)
LEMMA PlanType ==
    ASSUME NEW d \in Document, NEW v \in View, NEW l \in LedgerType
    PROVE  /\ Diff(d, v, l.managed) \in SUBSET Op
           /\ PlannedOps(d, v, l) \in SUBSET Op
           /\ AdoptionCandidates(d, v, l) \in SUBSET Key
  <1>1. Declared(d) \in SUBSET Key /\ Live(v) \in SUBSET Key /\ SpecOwned(v) \in SUBSET Key
    BY DEF Declared, Live, SpecOwned
  <1>2. Diff(d, v, l.managed) \in SUBSET Op
    BY <1>1 DEF Diff, Adds, Modifies, Deletes, Op, Action
  <1>3. PendingAssertions(d, v, l) \in SUBSET Op
    BY <1>1 DEF PendingAssertions, Op, Action
  <1>. QED
    BY <1>1, <1>2, <1>3 DEF PlannedOps, AdoptionCandidates

(* In shared mode a plan deletes only managed keys (the delete fence).     *)
LEMMA SharedDeletesAreManaged ==
    ASSUME NEW d \in Document, NEW v \in View, NEW l \in LedgerType, Mode = "shared",
           NEW o \in PlannedOps(d, v, l), o.act = "Delete"
    PROVE  o.key \in l.managed
  <1>1. o \in Diff(d, v, l.managed)
    BY DEF PlannedOps, PendingAssertions
  <1>2. o.key \in Deletes(d, v, l.managed)
    BY <1>1 DEF Diff
  <1>. QED
    BY <1>2 DEF Deletes

(* Whatever a plan adds or updates is declared.                            *)
LEMMA PlannedWritesAreDeclared ==
    ASSUME NEW d, NEW v, NEW l,
           NEW o \in PlannedOps(d, v, l), o.act # "Delete"
    PROVE  o.key \in Declared(d)
  <1>1. CASE o \in Diff(d, v, l.managed)
    <2>1. \/ o \in [key : Adds(d, v), act : {"Add"}]
          \/ o \in [key : Modifies(d, v), act : {"Modify"}]
      BY <1>1 DEF Diff
    <2>. QED
      BY <2>1 DEF Adds, Modifies
  <1>2. CASE o \in PendingAssertions(d, v, l)
    BY <1>2 DEF PendingAssertions
  <1>. QED
    BY <1>1, <1>2 DEF PlannedOps

(***************************************************************************)
(* A plan has one operation per key, updates and deletes only rows of the  *)
(* view, and touches a spec-owned row only as the confirmed prune.         *)
(***************************************************************************)
LEMMA PlanPerKey ==
    ASSUME NEW d, NEW v, NEW l, NEW o \in PlannedOps(d, v, l)
    PROVE  /\ \A p \in PlannedOps(d, v, l) : o.key = p.key => o = p
           /\ o.act # "Add" => o.key \in Live(v)
           /\ o.key \in SpecOwned(v) =>
                  o.act = "Delete" /\ Mode = "exclusive" /\ PruneSpecOwned
  <1>. DEFINE D == Diff(d, v, l.managed)
              A == PendingAssertions(d, v, l)
  <1>1. ASSUME NEW p \in D
        PROVE  \/ p.key \in Adds(d, v) /\ p = [key |-> p.key, act |-> "Add"]
               \/ p.key \in Modifies(d, v) /\ p = [key |-> p.key, act |-> "Modify"]
               \/ p.key \in Deletes(d, v, l.managed) /\ p = [key |-> p.key, act |-> "Delete"]
    BY DEF Diff
  <1>2. ASSUME NEW p \in A
        PROVE  /\ p = [key |-> p.key, act |-> "Modify"]
               /\ p.key \in Live(v) \ SpecOwned(v)
               /\ p.key \notin KeysOf(D, Action)
    BY DEF PendingAssertions
  <1>3. ASSUME NEW p \in D PROVE p.key \in KeysOf(D, Action)
    BY <1>1 DEF KeysOf, Action
  <1>4. PlannedOps(d, v, l) = D \cup A
    BY DEF PlannedOps
  <1>5. /\ Adds(d, v) \cap Modifies(d, v) = {}
        /\ Adds(d, v) \cap Deletes(d, v, l.managed) = {}
        /\ Modifies(d, v) \cap Deletes(d, v, l.managed) = {}
        /\ Adds(d, v) \cap SpecOwned(v) = {} /\ Modifies(d, v) \cap SpecOwned(v) = {}
        /\ Modifies(d, v) \subseteq Live(v) /\ Deletes(d, v, l.managed) \subseteq Live(v)
        /\ Deletes(d, v, l.managed) \cap SpecOwned(v) # {} =>
               Mode = "exclusive" /\ PruneSpecOwned
    BY DEF Adds, Modifies, Deletes, SpecOwned
  <1>6. \A p \in PlannedOps(d, v, l) : o.key = p.key => o = p
    BY <1>1, <1>2, <1>3, <1>4, <1>5
  <1>7. o.act # "Add" => o.key \in Live(v)
    BY <1>1, <1>2, <1>4, <1>5
  <1>8. o.key \in SpecOwned(v) => o.act = "Delete" /\ Mode = "exclusive" /\ PruneSpecOwned
    BY <1>1, <1>2, <1>4, <1>5
  <1>. QED
    BY <1>6, <1>7, <1>8

-----------------------------------------------------------------------------

USE DEF Untouched, keptByWrites, gatewayVars, ledgerVars, viewVars, freshVars,
        progressVars, resultVars, historyVars, budgetVars

(***************************************************************************)
(* What the types of a step rest on: the operation a run holds is one it   *)
(* has to do, what it has to write is declared, and a tag that still names *)
(* its row means that the row is there.                                    *)
(***************************************************************************)
Holding == {"readback", "verify", "assert", "confirm", "write", "replay", "claim"}
Quiet   == {"idle", "read", "plan", "namespaces"}

OpsInv ==
    /\ pc \in Holding => op \in todo
    /\ pc \in Quiet => todo = {}
    /\ \A o \in todo : o.act # "Delete" => o.key \in Declared(desired)
    /\ pc \in {"confirm", "write"} /\ tag => live[op.key] # NoRow

(***************************************************************************)
(* The delete fence: in shared mode what a ledger manages, what a run      *)
(* wrote and what it still has to delete was claimed.                      *)
(***************************************************************************)
FenceInv ==
    /\ ManagedIsClaimed
    /\ Mode = "shared" =>
         /\ KeysOf(applied, {"Add", "Modify"}) \subseteq claimed
         /\ KeysOf(todo, {"Delete"}) \subseteq claimed

IInv == TypeOK /\ OpsInv /\ FenceInv

----------------------------------------------------------------------------
(* The parts of the assumption on the constants that types need.           *)
LEMMA ConstantTypes ==
    /\ MaxChanges \in Nat /\ MaxFaults \in Nat
    /\ InitialViews \subseteq View /\ Written \subseteq Content
  BY ApplyAssumption

(* The initial state is one in which no run is under way.                  *)
LEMMA TypeInit == Init => TypeOK
  <1>. SUFFICES ASSUME Init PROVE TypeOK
    OBVIOUS
  <1>1. EmptyLedger \in LedgerType /\ NoDoc \in Document /\ Unread \in View
    BY DEF EmptyLedger, LedgerType, NoDoc, Document, Unread, View
  <1>2. live \in View
    BY ConstantTypes DEF Init
  <1>3. origin \in [Key -> {"repo", "other", "none"}]
    BY DEF Init
  <1>4. changes \in 0..MaxChanges /\ faults \in 0..MaxFaults
    BY ConstantTypes DEF Init
  <1>5. /\ landing \in Document /\ desired \in Document /\ plan \in View
        /\ disk \in LedgerType /\ committed \in LedgerType /\ mem \in LedgerType
    BY <1>1 DEF Init
  <1>6. /\ pc \in Steps /\ op \in Op \cup {NoOp} /\ cur \in Namespace \cup {NoNamespace}
        /\ nss = {} /\ blocked = {} /\ left = {}
        /\ todo = {} /\ applied = {} /\ bad = {}
        /\ evidence = {} /\ confirmed = {} /\ claimed = {} /\ forgotten = {}
    BY DEF Init, Steps
  <1>7. tag \in BOOLEAN /\ failed \in BOOLEAN /\ stale \in BOOLEAN /\ calm \in BOOLEAN
    BY DEF Init
  <1>. QED
    BY <1>2, <1>3, <1>4, <1>5, <1>6, <1>7 DEF TypeOK

(* The budgets stay within their bounds.                                   *)
LEMMA FaultType ==
    ASSUME TypeOK, Fault
    PROVE  changes' \in 0..MaxChanges /\ faults' \in 0..MaxFaults /\ calm' \in BOOLEAN
  <1>1. faults \in 0..MaxFaults /\ changes \in 0..MaxChanges
    BY DEF TypeOK
  <1>2. changes' = changes /\ faults' = faults + 1 /\ faults < MaxFaults
    BY DEF Fault
  <1>3. changes' \in 0..MaxChanges /\ faults' \in 0..MaxFaults
    BY <1>1, <1>2, ConstantTypes
  <1>. QED
    BY <1>3, Zenon DEF Fault

(* A backup of a gateway's rows is a view of rows.                        *)
LEMMA BackupType ==
    ASSUME NEW v \in View PROVE Backup(v) \in View
  BY ApplyAssumption DEF View, Row, Backup, Archival

(* The steps before the first write keep the types.                        *)
LEMMA TypePlanning ==
    ASSUME TypeOK, Begin \/ ReadBackup \/ Abort \/ Reconcile \/ Refuse \/ Journal
    PROVE  TypeOK'
  <1>1. CASE Begin
    <2>1. PICK d \in Documents, f \in Filters :
            /\ nss' = ResolvedNamespaces(Mode, Owned, f, Declared(d), disk)
            /\ desired' = [k \in Key |-> IF NsOf[k] \in nss' THEN d[k] ELSE Undeclared]
      BY <1>1 DEF Begin
    <2>2. d \in Document /\ f \in SUBSET Namespace /\ Owned \in SUBSET Namespace
      BY ApplyAssumption
    <2>3. nss' \in SUBSET Namespace
      BY <2>1, <2>2, NsOfAssumption DEF ResolvedNamespaces, TypeOK, LedgerType, Declared
    <2>4. desired' \in Document
      BY <2>1, <2>2 DEF Document
    <2>. QED
      BY <1>1, <2>3, <2>4 DEF Begin, TypeOK, Steps
  <1>2. CASE ReadBackup
    <2>1. plan' \in View
      BY <1>2, BackupType DEF TypeOK, ReadBackup, View
    <2>. QED
      BY <1>2, <2>1 DEF TypeOK, ReadBackup, Consumers
  <1>3. CASE Abort
    BY <1>3, FaultType DEF TypeOK, Abort, Steps
  <1>4. CASE Reconcile
    <2>1. Declared(desired) \in SUBSET Key /\ Live(plan) \in SUBSET Key
      BY DEF Declared, Live
    <2>2. mem' \in LedgerType
      BY <1>4, <2>1, LedgerOpsAreLedgers DEF Reconcile, TypeOK
    <2>3. blocked' \in SUBSET Namespace
      BY <1>4, <2>1, NsOfAssumption DEF Reconcile, SpecConflicts
    <2>4. forgotten' \in SUBSET Key
      BY <1>4 DEF Reconcile, Forgotten, TypeOK, LedgerType
    <2>. QED
      BY <1>4, <2>2, <2>3, <2>4 DEF Reconcile, TypeOK, Steps
  <1>5. CASE Refuse
    BY <1>5 DEF TypeOK, Refuse, Steps
  <1>6. CASE Journal
    <2>1. mem' \in LedgerType
      BY <1>6, PlanType, LedgerOpsAreLedgers DEF Journal, TypeOK
    <2>. QED
      BY <1>6, <2>1 DEF Journal, TypeOK, Steps
  <1>. QED
    BY <1>1, <1>2, <1>3, <1>4, <1>5, <1>6

(* A row inserted or stored for a declared key is a row.                   *)
LEMMA TypeInsert ==
    ASSUME TypeOK, NEW k \in Key, k \in Declared(desired), Insert(k)
    PROVE  live' \in View /\ origin' \in [Key -> {"repo", "other", "none"}]
  BY DiffAssumption DEF TypeOK, Insert, View, Row, Declared, Document

(* So is what the conditional write a run holds leaves.                    *)
LEMMA TypeStore ==
    ASSUME TypeOK, OpsInv, pc = "write", tag, Store(op)
    PROVE  live' \in View /\ origin' \in [Key -> {"repo", "other", "none"}]
  <1>1. op \in Op /\ op \in todo /\ live[op.key] \in Row
    BY DEF TypeOK, OpsInv, Holding, View, Op
  <1>2. op.act # "Delete" => desired[op.key] \in Content
    BY <1>1 DEF TypeOK, OpsInv, Declared, Document, Op
  <1>. QED
    BY <1>1, <1>2 DEF TypeOK, Store, View, Row, Op

(* An operation's end, and a run's, keep the types.                        *)
LEMMA TypeEnds ==
    ASSUME TypeOK, NEW o \in Op
    PROVE  /\ Finish(o) => /\ todo' \in SUBSET Op /\ op' \in Op \cup {NoOp}
                           /\ pc' \in Steps /\ tag' \in BOOLEAN
           /\ Fail(o, TRUE) \/ Fail(o, FALSE) \/ Fail(o, stale) \/ Land(o) =>
                  /\ applied' \in SUBSET Op /\ bad' \in SUBSET Op
                  /\ failed' \in BOOLEAN /\ stale' \in BOOLEAN
           /\ Stop => /\ todo' \in SUBSET Op /\ op' \in Op \cup {NoOp}
                      /\ pc' \in Steps /\ tag' \in BOOLEAN /\ failed' \in BOOLEAN
           /\ \A s \in Steps : Hold(o, s) =>
                  /\ op' \in Op \cup {NoOp} /\ pc' \in Steps /\ tag' \in BOOLEAN
  BY DEF TypeOK, Finish, Fail, Land, Stop, Hold, Steps

(* Journaled or not, a create keeps the types.                             *)
LEMMA TypeCreating ==
    ASSUME TypeOK, OpsInv,
           \/ SkipBlocked \/ StartNamespace \/ Defer \/ Withhold
           \/ CreateAccepted \/ CreateRefused \/ CreateUnanswered
           \/ Readback \/ VerifyAbsent \/ VerifyExact \/ VerifyUnproven
           \/ AssertCreated \/ AssertRefused
    PROVE  TypeOK'
  <1>1. CASE SkipBlocked
    BY <1>1 DEF SkipBlocked, TypeOK
  <1>2. CASE StartNamespace
    BY <1>2, PlanType DEF StartNamespace, TypeOK, Steps
  <1>3. CASE Defer
    BY <1>3, TypeEnds DEF Defer, Foremost, Finish, TypeOK
  <1>4. CASE Withhold
    BY <1>4, TypeEnds DEF Withhold, Foremost, Finish, Fail, TypeOK
  <1>5. CASE CreateAccepted
    <2>1. PICK o \in todo : /\ o.act = "Add" /\ Insert(o.key) /\ Finish(o) /\ Land(o)
                            /\ claimed' = claimed \cup {o.key}
                            /\ forgotten' = forgotten \ {o.key}
      BY <1>5 DEF CreateAccepted
    <2>2. o \in Op /\ o.key \in Key /\ o.key \in Declared(desired)
      BY <2>1 DEF TypeOK, OpsInv, Op
    <2>3. live' \in View /\ origin' \in [Key -> {"repo", "other", "none"}]
      BY <2>1, <2>2, TypeInsert
    <2>4. /\ todo' \in SUBSET Op /\ op' \in Op \cup {NoOp}
          /\ pc' \in Steps /\ tag' \in BOOLEAN
      BY <2>1, <2>2, TypeEnds
    <2>5. /\ applied' \in SUBSET Op /\ bad' \in SUBSET Op
          /\ failed' \in BOOLEAN /\ stale' \in BOOLEAN
      BY <2>1, <2>2, TypeEnds
    <2>6. claimed' \in SUBSET Key /\ forgotten' \in SUBSET Key
      BY <2>1, <2>2 DEF TypeOK
    <2>7. landing' = landing /\ UNCHANGED <<left, cur, evidence, confirmed>>
      BY <1>5, <2>1 DEF CreateAccepted, Insert, Finish
    <2>. QED
      BY <1>5, <2>3, <2>4, <2>5, <2>6, <2>7 DEF CreateAccepted, TypeOK
  <1>6. CASE CreateRefused
    <2>1. changes' \in 0..MaxChanges /\ faults' \in 0..MaxFaults /\ calm' \in BOOLEAN
      BY <1>6, FaultType DEF CreateRefused, TypeOK
    <2>. QED
      BY <1>6, <2>1, TypeEnds DEF CreateRefused, Finish, Fail, TypeOK
  <1>7. CASE CreateUnanswered
    <2>1. PICK o \in todo :
            /\ o.act = "Add"
            /\ \/ Insert(o.key)
               \/ /\ landing' = [landing EXCEPT ![o.key] = desired[o.key]]
                  /\ UNCHANGED <<live, origin>>
               \/ UNCHANGED gatewayVars
            /\ forgotten' = forgotten \ {o.key}
            /\ op' = o /\ pc' = "readback" /\ Fault
      BY <1>7 DEF CreateUnanswered
    <2>2. o \in Op /\ o.key \in Key /\ o.key \in Declared(desired)
      BY <2>1 DEF TypeOK, OpsInv, Op
    <2>3. /\ live' \in View /\ origin' \in [Key -> {"repo", "other", "none"}]
          /\ landing' \in Document
      BY <2>1, <2>2, TypeInsert DEF Insert, TypeOK, Document
    <2>. QED
      BY <1>7, <2>1, <2>2, <2>3, FaultType DEF CreateUnanswered, TypeOK, Steps
  <1>8. CASE Readback
    BY <1>8 DEF Readback, TypeOK, Steps
  <1>9. CASE VerifyAbsent
    BY <1>9, TypeEnds DEF VerifyAbsent, Finish, Fail, TypeOK, OpsInv, Holding
  <1>10. CASE VerifyExact
    BY <1>10 DEF VerifyExact, TypeOK, Steps
  <1>11. CASE VerifyUnproven
    <2>1. changes' \in 0..MaxChanges /\ faults' \in 0..MaxFaults /\ calm' \in BOOLEAN
      BY <1>11, FaultType DEF VerifyUnproven, TypeOK
    <2>. QED
      BY <1>11, <2>1 DEF VerifyUnproven, Stop, TypeOK, Steps
  <1>12. CASE AssertCreated
    <2>1. op \in todo /\ op \in Op /\ op.key \in Key
      BY <1>12 DEF AssertCreated, OpsInv, Holding, TypeOK, Op
    <2>. QED
      BY <1>12, <2>1, TypeEnds DEF AssertCreated, Finish, Land, TypeOK
  <1>13. CASE AssertRefused
    <2>1. changes' \in 0..MaxChanges /\ faults' \in 0..MaxFaults /\ calm' \in BOOLEAN
      BY <1>13, FaultType DEF AssertRefused, TypeOK
    <2>. QED
      BY <1>13, <2>1 DEF AssertRefused, Stop, TypeOK, Steps
  <1>. QED
    BY <1>1, <1>2, <1>3, <1>4, <1>5, <1>6, <1>7, <1>8, <1>9, <1>10, <1>11, <1>12, <1>13

(* Updates and deletes keep the types.                                     *)
LEMMA TypeWriting ==
    ASSUME TypeOK, OpsInv,
           \/ ReadRow \/ ReadFails \/ Confirm
           \/ WriteRow \/ WriteRefused \/ WriteUnanswered
           \/ WriteCommittedThenRetried \/ WriteStopsRun \/ Replay
    PROVE  TypeOK'
  <1>. DEFINE Ended == /\ todo' \in SUBSET Op /\ op' \in Op \cup {NoOp}
                       /\ pc' \in Steps /\ tag' \in BOOLEAN
                       /\ applied' \in SUBSET Op /\ bad' \in SUBSET Op
                       /\ failed' \in BOOLEAN /\ stale' \in BOOLEAN
                       /\ UNCHANGED <<left, cur, evidence, confirmed>>
  <1>0. /\ \A o \in Op : Finish(o) /\ (Fail(o, TRUE) \/ Fail(o, FALSE) \/ Land(o)) => Ended
        /\ \A o \in Op : Fail(o, live[o.key] # NoRow) => Fail(o, TRUE) \/ Fail(o, FALSE)
        /\ Stop => Ended
        /\ \A o \in Op : Hold(o, "write") \/ Hold(o, "confirm") => Ended
    BY DEF TypeOK, Finish, Fail, Land, Stop, Hold, Steps
  <1>1. CASE ReadRow
    <2>1. PICK o \in todo :
            \/ Finish(o) /\ (Fail(o, TRUE) \/ Fail(o, FALSE) \/ Land(o))
            \/ Hold(o, "write") \/ Hold(o, "confirm")
      BY <1>1 DEF ReadRow
    <2>2. Ended
      BY <1>0, <2>1 DEF TypeOK
    <2>. QED
      BY <1>1, <2>2 DEF ReadRow, TypeOK
  <1>2. CASE ReadFails
    <2>1. Ended
      BY <1>0, <1>2 DEF ReadFails, TypeOK, OpsInv, Holding
    <2>. QED
      BY <1>2, <2>1, FaultType DEF ReadFails, TypeOK
  <1>3. CASE Confirm
    <2>1. Ended
      BY <1>0, <1>3 DEF Confirm, TypeOK, OpsInv, Holding, Steps
    <2>. QED
      BY <1>3, <2>1 DEF Confirm, TypeOK
  <1>4. CASE WriteRow
    <2>1. op \in Op /\ op.key \in Key
      BY <1>4 DEF WriteRow, OpsInv, Holding, TypeOK, Op
    <2>2. Ended
      BY <1>0, <1>4, <2>1 DEF WriteRow
    <2>. QED
      BY <1>4, <2>1, <2>2, TypeStore DEF WriteRow, Store, TypeOK
  <1>5. CASE WriteRefused
    <2>1. Ended
      BY <1>0, <1>5 DEF WriteRefused, TypeOK, OpsInv, Holding
    <2>. QED
      BY <1>5, <2>1 DEF WriteRefused, TypeOK
  <1>6. CASE WriteUnanswered
    <2>1. Ended
      BY <1>0, <1>6 DEF WriteUnanswered, TypeOK, OpsInv, Holding
    <2>2. /\ live' \in View /\ origin' \in [Key -> {"repo", "other", "none"}]
          /\ landing' \in Document
      BY <1>6, TypeStore DEF WriteUnanswered, Store, TypeOK
    <2>. QED
      BY <1>6, <2>1, <2>2, FaultType DEF WriteUnanswered, TypeOK
  <1>7. CASE WriteCommittedThenRetried
    <2>1. /\ live' \in View /\ origin' \in [Key -> {"repo", "other", "none"}]
          /\ landing' \in Document
      BY <1>7, TypeStore DEF WriteCommittedThenRetried, Store, TypeOK
    <2>. QED
      BY <1>7, <2>1, FaultType DEF WriteCommittedThenRetried, TypeOK, Steps
  <1>8. CASE Replay
    <2>1. op \in Op /\ op.key \in Key
      BY <1>8 DEF Replay, OpsInv, Holding, TypeOK, Op
    <2>2. Ended
      BY <1>0, <1>8, <2>1 DEF Replay
    <2>. QED
      BY <1>8, <2>1, <2>2 DEF Replay, TypeOK
  <1>9. CASE WriteStopsRun
    <2>1. Ended
      BY <1>0, <1>9 DEF WriteStopsRun
    <2>2. /\ live' \in View /\ origin' \in [Key -> {"repo", "other", "none"}]
          /\ landing' \in Document /\ forgotten' \in SUBSET Key
      <3>1. CASE \E o \in todo : /\ o.act = "Add" /\ (Insert(o.key) \/ UNCHANGED gatewayVars)
                                /\ forgotten' = forgotten \ {o.key}
        <4>1. PICK o \in todo : /\ o.act = "Add" /\ (Insert(o.key) \/ UNCHANGED gatewayVars)
                                /\ forgotten' = forgotten \ {o.key}
          BY <3>1
        <4>2. o.key \in Key /\ o.key \in Declared(desired)
          BY <4>1 DEF TypeOK, OpsInv, Op
        <4>. QED
          BY <4>1, <4>2, TypeInsert DEF Insert, TypeOK
      <3>2. CASE /\ pc = "write" /\ UNCHANGED forgotten
                 /\ (tag /\ Store(op)) \/ UNCHANGED gatewayVars
        BY <3>2, TypeStore DEF Store, TypeOK
      <3>. QED
        BY <1>9, <3>1, <3>2 DEF WriteStopsRun
    <2>. QED
      BY <1>9, <2>1, <2>2, FaultType DEF WriteStopsRun, TypeOK
  <1>. QED
    BY <1>1, <1>2, <1>3, <1>4, <1>5, <1>6, <1>7, <1>8, <1>9

(* Adoption, the end of a run and its loss keep the types.                 *)
LEMMA TypeEnding ==
    ASSUME TypeOK, OpsInv,
           \/ EndNamespace \/ StartAdoption \/ AdoptionUnconfirmed
           \/ ReadCandidate \/ Claim \/ ClaimRefused \/ ClaimFails \/ EndAdoption
           \/ EndNamespaces \/ Record \/ Publish \/ Crash \/ Lose
    PROVE  TypeOK'
  <1>0. /\ [key : Candidates, act : {"Modify"}] \in SUBSET Op
        /\ pc \in Holding => op \in todo /\ op \in Op /\ op.key \in Key
        /\ EmptyLedger \in LedgerType /\ NoDoc \in Document /\ Unread \in View
    BY DEF Candidates, AdoptionCandidates, Declared, Op, Action, OpsInv, TypeOK,
           EmptyLedger, LedgerType, NoDoc, Document, Unread, View
  <1>1. CASE EndNamespace
    BY <1>0, <1>1 DEF EndNamespace, TypeOK, Steps
  <1>3. CASE StartAdoption
    BY <1>0, <1>3 DEF StartAdoption, TypeOK, Steps, Candidates, AdoptionCandidates, Declared
  <1>4. CASE AdoptionUnconfirmed
    BY <1>4, FaultType DEF AdoptionUnconfirmed, Stop, TypeOK, Steps
  <1>5. CASE ReadCandidate
    BY <1>5 DEF ReadCandidate, Hold, Skip, TypeOK, Steps
  <1>6. CASE Claim
    BY <1>0, <1>6 DEF Claim, Holding, TypeOK, Steps
  <1>7. CASE ClaimRefused
    BY <1>7 DEF ClaimRefused, Skip, TypeOK, Steps
  <1>8. CASE ClaimFails
    BY <1>8, FaultType DEF ClaimFails, Stop, TypeOK, Steps
  <1>9. CASE EndAdoption
    BY <1>9 DEF EndAdoption, TypeOK, Steps
  <1>10. CASE EndNamespaces
    BY <1>10 DEF EndNamespaces, TypeOK, Steps
  <1>11. CASE Record
    <2>1. mem' \in LedgerType
      BY <1>11, LedgerOpsAreLedgers DEF Record, TypeOK, Declared
    <2>. QED
      BY <1>11, <2>1 DEF Record, TypeOK, Steps
  <1>12. CASE Publish
    BY <1>0, <1>12 DEF Publish, Reset, TypeOK, Steps
  <1>13. CASE Crash
    BY <1>13, FaultType DEF Crash, TypeOK, Steps
  <1>14. CASE Lose
    <2>1. forgotten' \in SUBSET Key
      BY <1>14 DEF Lose, TypeOK, LedgerType
    <2>. QED
      BY <1>0, <1>14, <2>1, FaultType DEF Lose, Reset, TypeOK, Steps
  <1>. QED
    BY <1>1, <1>3, <1>4, <1>5, <1>6, <1>7, <1>8, <1>9, <1>10, <1>11, <1>12,
       <1>13, <1>14

(* So do the writes that are not the run's.                                *)
LEMMA TypeEnvironment ==
    ASSUME TypeOK, Environment
    PROVE  TypeOK'
  <1>. DEFINE Who == {"repo", "other", "none"}
  <1>1. ASSUME NEW k \in Key, Disturb(k)
        PROVE  evidence' \in SUBSET Key /\ tag' \in BOOLEAN /\ calm' \in BOOLEAN
    BY <1>1 DEF Disturb, TypeOK
  <1>2. ASSUME NEW k \in Key, NEW who \in Who, Arrives(k, who)
        PROVE  origin' \in [Key -> Who]
    BY <1>2 DEF Arrives, TypeOK
  <1>3. ASSUME NEW k \in Key, OtherWrite(k),
               live' \in View, origin' \in [Key -> Who]
        PROVE  TypeOK'
    <2>1. changes' \in 0..MaxChanges
      BY <1>3, ConstantTypes DEF OtherWrite, TypeOK
    <2>. QED
      BY <1>1, <1>3, <2>1 DEF OtherWrite, Disturb, TypeOK
  <1>4. CASE AdminPut
    <2>1. PICK k \in Key, c \in Written :
            /\ live' = [live EXCEPT ![k] =
                  [content |-> c, spec |-> IF live[k] = NoRow THEN Unowned ELSE live[k].spec]]
            /\ Arrives(k, "other") /\ OtherWrite(k)
      BY <1>4 DEF AdminPut
    <2>2. live' \in View
      BY <2>1, ConstantTypes DEF TypeOK, View, Row
    <2>. QED
      BY <1>2, <1>3, <2>1, <2>2
  <1>5. CASE AdminDelete
    <2>1. PICK k \in Key : /\ live' = [live EXCEPT ![k] = NoRow]
                           /\ origin' = [origin EXCEPT ![k] = "none"]
                           /\ OtherWrite(k)
      BY <1>5 DEF AdminDelete, Live
    <2>2. live' \in View /\ origin' \in [Key -> Who]
      BY <2>1 DEF TypeOK, View
    <2>. QED
      BY <1>3, <2>1, <2>2
  <1>6. CASE SpecImport
    <2>1. PICK k \in Key, c \in Written, s \in SpecId :
            /\ live' = [live EXCEPT ![k] = [content |-> c, spec |-> s]]
            /\ origin' = [origin EXCEPT ![k] = "other"]
            /\ OtherWrite(k)
      BY <1>6 DEF SpecImport
    <2>2. live' \in View /\ origin' \in [Key -> Who]
      BY <2>1, ConstantTypes DEF TypeOK, View, Row
    <2>. QED
      BY <1>3, <2>1, <2>2
  <1>7. CASE LateCommit
    <2>1. PICK k \in Declared(landing) :
        /\ landing' = [landing EXCEPT ![k] = Undeclared]
        /\ \/ /\ live' = [live EXCEPT ![k] = [content |-> landing[k], spec |-> Unowned]]
              /\ Arrives(k, "repo") /\ Disturb(k)
           \/ UNCHANGED <<live, origin, ledgerVars, viewVars, mem, freshVars,
                          progressVars, resultVars, historyVars, faults, calm>>
        /\ UNCHANGED changes
      BY <1>7 DEF LateCommit
    <2>2. k \in Key /\ landing[k] \in Content
      BY DEF Declared, TypeOK, Document
    <2>3. landing' \in Document
      BY <2>1, <2>2 DEF TypeOK, Document
    <2>4. CASE /\ live' = [live EXCEPT ![k] = [content |-> landing[k], spec |-> Unowned]]
               /\ Arrives(k, "repo") /\ Disturb(k)
      <3>1. live' \in View /\ origin' \in [Key -> Who]
        BY <1>2, <2>2, <2>4 DEF TypeOK, View, Row
      <3>. QED
        BY <1>1, <2>1, <2>2, <2>3, <2>4, <3>1 DEF Disturb, TypeOK
    <2>5. CASE UNCHANGED <<live, origin, ledgerVars, viewVars, mem, freshVars,
                           progressVars, resultVars, historyVars, faults, calm>>
      BY <2>1, <2>3, <2>5 DEF TypeOK
    <2>. QED
      BY <2>1, <2>4, <2>5
  <1>. QED
    BY <1>4, <1>5, <1>6, <1>7 DEF Environment

(* Every step keeps the types.                                             *)
LEMMA TypeNext ==
    ASSUME TypeOK, OpsInv, [Next]_vars
    PROVE  TypeOK'
  <1>1. CASE Next
    BY <1>1, TypePlanning, TypeCreating, TypeWriting, TypeEnding, TypeEnvironment
    DEF Next, RunStep
  <1>2. CASE UNCHANGED vars
    BY <1>2 DEF vars, TypeOK
  <1>. QED
    BY <1>1, <1>2

----------------------------------------------------------------------------
(* What a run holds. *)

(***************************************************************************)
(* An operation's end takes it off the list and holds nothing; so the rest *)
(* of OpsInv follows from what the document and the list were.             *)
(***************************************************************************)
LEMMA OpsEnd ==
    ASSUME OpsInv, todo' \subseteq todo, UNCHANGED desired,
           pc' \notin Holding, pc' \in Quiet => todo' = {}
    PROVE  OpsInv'
  BY DEF OpsInv, Holding, Declared

(* A step that keeps or clears the list and does not take hold.            *)
LEMMA OpsHold ==
    ASSUME OpsInv, UNCHANGED <<todo, desired>>, op' \in todo, pc' \notin Quiet,
           pc' \in {"confirm", "write"} /\ tag' => live'[op'.key] # NoRow
    PROVE  OpsInv'
  BY DEF OpsInv, Declared

(* Every step keeps what is known of the operations of a run.              *)
LEMMA OpsNext ==
    ASSUME TypeOK, OpsInv, [Next]_vars
    PROVE  OpsInv'
  <1>1. CASE Begin
    BY <1>1 DEF Begin, OpsInv, Holding, Quiet
  <1>2. CASE \/ ReadBackup \/ Abort \/ Reconcile \/ Refuse \/ Journal
             \/ SkipBlocked \/ EndNamespace \/ AdoptionUnconfirmed
             \/ ClaimFails \/ EndAdoption \/ EndNamespaces \/ Record \/ Crash
    BY <1>2, OpsEnd
    DEF OpsInv, ReadBackup, Abort, Reconcile, Refuse, Journal, SkipBlocked, EndNamespace,
        AdoptionUnconfirmed, ClaimFails, EndAdoption,
        EndNamespaces, Record, Crash, Stop, Holding, Quiet
  <1>3. CASE StartNamespace
    <2>1. \A o \in todo' : o.act # "Delete" => o.key \in Declared(desired)
      BY <1>3, PlannedWritesAreDeclared DEF StartNamespace
    <2>. QED
      BY <1>3, <2>1 DEF StartNamespace, OpsInv, Holding, Quiet, Declared
  <1>4. CASE \/ Defer \/ Withhold \/ CreateAccepted \/ CreateRefused
    BY <1>4, OpsEnd
    DEF Defer, Withhold, CreateAccepted, CreateRefused, Finish, Holding, Quiet
  <1>5. CASE CreateUnanswered
    BY <1>5, OpsHold DEF CreateUnanswered, Quiet
  <1>6. CASE Readback
    BY <1>6, OpsHold DEF Readback, OpsInv, Holding, Quiet
  <1>7. CASE \/ VerifyAbsent \/ VerifyUnproven \/ AssertCreated \/ AssertRefused
    BY <1>7, OpsEnd
    DEF VerifyAbsent, VerifyUnproven, AssertCreated, AssertRefused, Finish, Stop,
        Holding, Quiet
  <1>8. CASE VerifyExact
    BY <1>8, OpsHold DEF VerifyExact, OpsInv, Holding, Quiet
  <1>9. CASE ReadRow
    <2>1. PICK o \in todo :
            \/ Finish(o)
            \/ live[o.key] # NoRow /\ (Hold(o, "write") \/ Hold(o, "confirm"))
      BY <1>9 DEF ReadRow
    <2>2. CASE Finish(o)
      BY <1>9, <2>2, OpsEnd DEF ReadRow, Finish, Holding, Quiet
    <2>3. CASE live[o.key] # NoRow /\ (Hold(o, "write") \/ Hold(o, "confirm"))
      BY <1>9, <2>1, <2>3, OpsHold DEF ReadRow, Hold, Quiet
    <2>. QED
      BY <2>1, <2>2, <2>3
  <1>10. CASE ReadFails \/ WriteStopsRun
    BY <1>10, OpsEnd DEF ReadFails, WriteStopsRun, Finish, Stop, Holding, Quiet
  <1>11. CASE Confirm
    <2>1. CASE pc' = "write" /\ UNCHANGED <<todo, op, freshVars>>
      BY <1>11, <2>1, OpsHold DEF Confirm, OpsInv, Holding, Quiet
    <2>2. CASE Finish(op)
      BY <1>11, <2>2, OpsEnd DEF Confirm, Finish, Holding, Quiet
    <2>. QED
      BY <1>11, <2>1, <2>2 DEF Confirm
  <1>12. CASE \/ WriteRow \/ WriteRefused \/ WriteUnanswered \/ Replay
    BY <1>12, OpsEnd
    DEF WriteRow, WriteRefused, WriteUnanswered, Replay, Finish, Holding, Quiet
  <1>13. CASE WriteCommittedThenRetried
    BY <1>13, OpsHold DEF WriteCommittedThenRetried, OpsInv, Holding, Quiet
  <1>14. CASE StartAdoption
    BY <1>14 DEF StartAdoption, OpsInv, Holding, Quiet, Candidates, AdoptionCandidates, Declared
  <1>15. CASE ReadCandidate
    <2>1. PICK o \in todo : Hold(o, "claim") \/ Skip(o)
      BY <1>15 DEF ReadCandidate
    <2>2. CASE Hold(o, "claim")
      BY <1>15, <2>1, <2>2, OpsHold DEF ReadCandidate, Hold, Quiet
    <2>3. CASE Skip(o)
      BY <1>15, <2>3, OpsEnd DEF ReadCandidate, Skip, Holding, Quiet
    <2>. QED
      BY <2>1, <2>2, <2>3
  <1>16. CASE Claim \/ ClaimRefused
    BY <1>16, OpsEnd DEF Claim, ClaimRefused, Skip, Holding, Quiet
  <1>17. CASE Publish \/ Lose
    BY <1>17 DEF Publish, Lose, Reset, OpsInv, Holding, Quiet
  <1>18. CASE Environment
    <2>1. UNCHANGED <<viewVars, progressVars>>
      BY <1>18
      DEF Environment, AdminPut, AdminDelete, SpecImport, LateCommit, OtherWrite, Disturb
    <2>2. \/ live' = live /\ tag' = tag
          \/ \E k \in Key : \E r : live' = [live EXCEPT ![k] = r] /\ tag' = (tag /\ op.key # k)
      BY <1>18
      DEF Environment, AdminPut, AdminDelete, SpecImport, LateCommit, OtherWrite, Disturb,
          Live, Declared
    <2>3. pc \in {"confirm", "write"} => op.key \in Key
      BY DEF OpsInv, Holding, Quiet, TypeOK, Op
    <2>4. pc' \in {"confirm", "write"} /\ tag' => live'[op.key] # NoRow
      BY <2>1, <2>2, <2>3 DEF OpsInv, TypeOK, View
    <2>. QED
      BY <2>1, <2>4 DEF OpsInv, Declared
  <1>19. CASE UNCHANGED vars
    BY <1>19 DEF vars, OpsInv, Declared
  <1>. QED
    BY <1>1, <1>2, <1>3, <1>4, <1>5, <1>6, <1>7, <1>8, <1>9, <1>10, <1>11, <1>12,
       <1>13, <1>14, <1>15, <1>16, <1>17, <1>18, <1>19
    DEF Next, RunStep

----------------------------------------------------------------------------
(* The delete fence. *)

(* A step that records, lists and unclaims nothing keeps the fence.        *)
LEMMA FenceKept ==
    ASSUME FenceInv, claimed \subseteq claimed', UNCHANGED <<ledgerVars, mem>>,
           todo' \subseteq todo, applied' \subseteq applied
    PROVE  FenceInv'
  BY DEF FenceInv, ManagedIsClaimed, KeysOf

(* One that landed an operation does when a write was claimed with it.     *)
LEMMA FenceLand ==
    ASSUME FenceInv, claimed \subseteq claimed', UNCHANGED <<ledgerVars, mem>>,
           todo' \subseteq todo, NEW o \in todo, applied' = applied \cup {o},
           o.act = "Delete" \/ o.key \in claimed'
    PROVE  FenceInv'
  BY DEF FenceInv, ManagedIsClaimed, KeysOf

(* One that rewrites the ledger does when it manages only claimed keys.    *)
LEMMA FenceLedger ==
    ASSUME FenceInv, UNCHANGED <<claimed, todo, applied>>,
           Mode = "shared" =>
               mem'.managed \cup disk'.managed \cup committed'.managed \subseteq claimed
    PROVE  FenceInv'
  BY DEF FenceInv, ManagedIsClaimed, KeysOf

(* Every step keeps the delete fence.                                      *)
LEMMA FenceNext ==
    ASSUME TypeOK, OpsInv, FenceInv, [Next]_vars
    PROVE  FenceInv'
  <1>1. CASE Begin
    BY <1>1, FenceLedger DEF Begin, FenceInv, ManagedIsClaimed
  <1>2. CASE Reconcile
    <2>1. /\ mem'.managed \subseteq mem.managed /\ disk' = mem'
          /\ UNCHANGED <<committed, claimed, todo, applied>>
      BY <1>2 DEF Reconcile, ReconcilePending, ReconcileAbsent, TypeOK, LedgerType
    <2>. QED
      BY <2>1, FenceLedger DEF FenceInv, ManagedIsClaimed
  <1>3. CASE Journal
    <2>1. /\ mem'.managed = mem.managed /\ disk' = mem'
          /\ UNCHANGED <<committed, claimed, todo, applied>>
      BY <1>3 DEF Journal, ReserveAdds, TypeOK, LedgerType
    <2>. QED
      BY <2>1, FenceLedger DEF FenceInv, ManagedIsClaimed
  <1>4. CASE Record
    <2>1. mem'.managed \subseteq mem.managed \cup KeysOf(applied, {"Add", "Modify"})
      BY <1>4 DEF Record, RecordOps
    <2>. QED
      BY <1>4, <2>1, FenceLedger DEF Record, FenceInv, ManagedIsClaimed
  <1>5. CASE StartNamespace
    <2>1. ASSUME Mode = "shared" PROVE KeysOf(todo', {"Delete"}) \subseteq mem.managed
      BY <1>5, <2>1, SharedDeletesAreManaged DEF StartNamespace, KeysOf, TypeOK
    <2>. QED
      BY <1>5, <2>1 DEF StartNamespace, FenceInv, ManagedIsClaimed
  <1>6. CASE CreateAccepted
    <2>1. PICK o \in todo : Finish(o) /\ Land(o) /\ claimed' = claimed \cup {o.key}
      BY <1>6 DEF CreateAccepted
    <2>. QED
      BY <1>6, <2>1, FenceLand DEF CreateAccepted, Finish, Land
  <1>7. CASE ReadRow
    <2>1. PICK o \in todo :
            \/ o.act = "Delete" /\ Finish(o) /\ Land(o)
            \/ Finish(o) /\ Fail(o, TRUE)
            \/ Hold(o, "write") \/ Hold(o, "confirm")
      BY <1>7 DEF ReadRow
    <2>2. CASE o.act = "Delete" /\ Finish(o) /\ Land(o)
      BY <1>7, <2>2, FenceLand DEF ReadRow, Finish, Land
    <2>3. CASE Finish(o) /\ Fail(o, TRUE)
      BY <1>7, <2>3, FenceKept DEF ReadRow, Finish, Fail
    <2>4. CASE Hold(o, "write") \/ Hold(o, "confirm")
      BY <1>7, <2>4, FenceKept DEF ReadRow, Hold
    <2>. QED
      BY <2>1, <2>2, <2>3, <2>4
  <1>8. CASE AssertCreated \/ WriteRow
    BY <1>8, FenceLand DEF AssertCreated, WriteRow, Finish, Land, OpsInv, Holding
  <1>9. CASE WriteRefused
    <2>1. \/ op.act = "Delete" /\ Land(op)
          \/ Fail(op, TRUE) \/ Fail(op, FALSE)
      BY <1>9 DEF WriteRefused
    <2>2. CASE op.act = "Delete" /\ Land(op)
      BY <1>9, <2>2, FenceLand DEF WriteRefused, Finish, Land, OpsInv, Holding
    <2>3. CASE Fail(op, TRUE) \/ Fail(op, FALSE)
      BY <1>9, <2>3, FenceKept DEF WriteRefused, Finish, Fail
    <2>. QED
      BY <2>1, <2>2, <2>3
  <1>10. CASE Replay
    <2>1. \/ Land(op) /\ claimed' = claimed \cup {op.key}
          \/ Fail(op, live[op.key] # NoRow) /\ UNCHANGED claimed
      BY <1>10 DEF Replay
    <2>2. CASE Land(op) /\ claimed' = claimed \cup {op.key}
      BY <1>10, <2>2, FenceLand DEF Replay, Finish, Land, OpsInv, Holding
    <2>3. CASE Fail(op, live[op.key] # NoRow) /\ UNCHANGED claimed
      BY <1>10, <2>3, FenceKept DEF Replay, Finish, Fail
    <2>. QED
      BY <2>1, <2>2, <2>3
  <1>11. CASE Claim
    BY <1>11, FenceLand DEF Claim, OpsInv, Holding
  <1>12. CASE EndNamespace
    BY <1>12 DEF EndNamespace, FenceInv, ManagedIsClaimed
  <1>13. CASE StartAdoption
    BY <1>13 DEF StartAdoption, FenceInv, ManagedIsClaimed, KeysOf
  <1>14. CASE Publish
    BY <1>14 DEF Publish, Reset, EmptyLedger, FenceInv, ManagedIsClaimed, KeysOf
  <1>15. CASE Lose
    BY <1>15 DEF Lose, Reset, EmptyLedger, FenceInv, ManagedIsClaimed, KeysOf
  <1>16. CASE \/ ReadBackup \/ Abort \/ Refuse \/ SkipBlocked \/ Defer \/ Withhold
              \/ CreateRefused \/ CreateUnanswered \/ Readback \/ VerifyAbsent
              \/ VerifyExact \/ VerifyUnproven \/ AssertRefused
    BY <1>16, FenceKept
    DEF ReadBackup, Abort, Refuse, SkipBlocked, Defer, Withhold, CreateRefused,
        CreateUnanswered, Readback, VerifyAbsent, VerifyExact, VerifyUnproven,
        AssertRefused, Finish, Fail, Stop
  <1>17. CASE \/ ReadFails \/ Confirm \/ WriteUnanswered \/ WriteCommittedThenRetried
              \/ WriteStopsRun \/ AdoptionUnconfirmed \/ ReadCandidate \/ ClaimRefused
              \/ ClaimFails \/ EndAdoption \/ EndNamespaces \/ Crash
    BY <1>17, FenceKept
    DEF ReadFails, Confirm, WriteUnanswered, WriteCommittedThenRetried, WriteStopsRun,
        AdoptionUnconfirmed, ReadCandidate, ClaimRefused, ClaimFails, EndAdoption,
        EndNamespaces, Crash, Finish, Fail, Stop, Hold, Skip
  <1>18. CASE Environment
    BY <1>18, FenceKept
    DEF Environment, AdminPut, AdminDelete, SpecImport, LateCommit, OtherWrite, Disturb
  <1>19. CASE UNCHANGED vars
    BY <1>19, FenceKept DEF vars
  <1>. QED
    BY <1>1, <1>2, <1>3, <1>4, <1>5, <1>6, <1>7, <1>8, <1>9, <1>10, <1>11, <1>12,
       <1>13, <1>14, <1>15, <1>16, <1>17, <1>18, <1>19
    DEF Next, RunStep

----------------------------------------------------------------------------
(* The writes. *)

(***************************************************************************)
(* Whoever changes a row: the run, by a create of a free id or by the      *)
(* conditional write of the operation it holds, or somebody else.          *)
(***************************************************************************)
LEMMA WriteSteps ==
    ASSUME TypeOK, OpsInv, [Next]_vars, NEW k \in Key, Writes(k)
    PROVE  \/ live[k] = NoRow /\ live'[k] # NoRow
           \/ pc = "write" /\ tag /\ op \in todo /\ op.key = k /\ Store(op)
  <1>1. ~(UNCHANGED live) /\ ~(UNCHANGED pc)
    BY DEF Writes
  <1>2. ASSUME NEW o \in todo, o.act = "Add", live[o.key] = NoRow, Insert(o.key)
        PROVE  live[k] = NoRow /\ live'[k] # NoRow
    <2>1. o.key \in Key /\ desired[o.key] \in Content
      BY <1>2 DEF OpsInv, TypeOK, Op, Declared, Document
    <2>2. [content |-> desired[o.key], spec |-> Unowned] # NoRow
      BY <2>1, DiffAssumption DEF Row
    <2>. QED
      BY <1>2, <2>1, <2>2 DEF Insert, Writes, TypeOK, View
  <1>3. ASSUME pc = "write", tag, Store(op)
        PROVE  op \in todo /\ op.key = k
    BY <1>3 DEF Store, Writes, OpsInv, Holding, TypeOK, View, Op
  <1>4. CASE CreateAccepted
    BY <1>1, <1>2, <1>4 DEF CreateAccepted
  <1>5. CASE CreateUnanswered
    BY <1>1, <1>2, <1>5 DEF CreateUnanswered
  <1>5a. CASE WriteStopsRun
    BY <1>1, <1>2, <1>3, <1>5a DEF WriteStopsRun
  <1>6. CASE WriteRow \/ WriteUnanswered \/ WriteCommittedThenRetried
    BY <1>1, <1>3, <1>6 DEF WriteRow, WriteUnanswered, WriteCommittedThenRetried
  <1>7. CASE \/ Begin \/ ReadBackup \/ Abort \/ Reconcile \/ Refuse \/ Journal
             \/ SkipBlocked \/ StartNamespace \/ Defer \/ Withhold \/ CreateRefused
             \/ Readback \/ VerifyAbsent \/ VerifyExact \/ VerifyUnproven
             \/ AssertCreated \/ AssertRefused
    BY <1>1, <1>7
    DEF Begin, ReadBackup, Abort, Reconcile, Refuse, Journal, SkipBlocked,
        StartNamespace, Defer, Withhold, CreateRefused, Readback, VerifyAbsent,
        VerifyExact, VerifyUnproven, AssertCreated, AssertRefused
  <1>8. CASE \/ ReadRow \/ ReadFails \/ Confirm \/ WriteRefused \/ Replay
             \/ EndNamespace \/ StartAdoption
             \/ AdoptionUnconfirmed \/ ReadCandidate \/ Claim \/ ClaimRefused
             \/ ClaimFails \/ EndAdoption \/ EndNamespaces \/ Record
             \/ Publish \/ Crash \/ Lose
    BY <1>1, <1>8
    DEF ReadRow, ReadFails, Confirm, WriteRefused, Replay, EndNamespace,
        StartAdoption, AdoptionUnconfirmed, ReadCandidate, Claim,
        ClaimRefused, ClaimFails, EndAdoption, EndNamespaces, Record, Publish,
        Crash, Lose
  <1>9. CASE Environment
    BY <1>1, <1>9
    DEF Environment, AdminPut, AdminDelete, SpecImport, LateCommit, OtherWrite, Disturb
  <1>10. CASE UNCHANGED vars
    BY <1>1, <1>10 DEF vars
  <1>. QED
    BY <1>4, <1>5, <1>5a, <1>6, <1>7, <1>8, <1>9, <1>10 DEF Next, RunStep

(* So a row the run makes go is the one of the delete it holds.            *)
LEMMA RunDeletes ==
    ASSUME IInv, [Next]_vars, NEW k \in Key, Writes(k), live'[k] = NoRow
    PROVE  pc = "write" /\ op \in todo /\ op.key = k /\ op.act = "Delete"
  <1>1. pc = "write" /\ tag /\ op \in todo /\ op.key = k /\ Store(op)
    BY WriteSteps DEF IInv
  <1>2. ASSUME op.act # "Delete" PROVE FALSE
    <2>1. desired[k] \in Content /\ live[k] \in Row
      BY <1>1, <1>2 DEF IInv, OpsInv, TypeOK, Declared, Document, View
    <2>2. live'[k] \in Row
      BY <1>1, <1>2, <2>1 DEF Store, IInv, TypeOK, View, Row
    <2>. QED
      BY <2>2, DiffAssumption
  <1>. QED
    BY <1>1, <1>2

----------------------------------------------------------------------------
(* The theorems. *)

(***************************************************************************)
(* The invariant holds initially and every step keeps it.                  *)
(***************************************************************************)
LEMMA Inductive == Spec => []IInv
  <1>1. Init => IInv
    <2>1. Init => OpsInv /\ FenceInv
      BY DEF Init, OpsInv, Holding, Quiet, FenceInv, ManagedIsClaimed, EmptyLedger, KeysOf
    <2>. QED
      BY <2>1, TypeInit DEF IInv
  <1>2. IInv /\ [Next]_vars => IInv'
    BY TypeNext, OpsNext, FenceNext DEF IInv
  <1>. QED
    BY <1>1, <1>2, PTL DEF Spec

(* Type correctness of an apply and the gateway it writes to.              *)
THEOREM TypeCorrect == Spec => []TypeOK
  <1>1. IInv => TypeOK
    BY DEF IInv
  <1>. QED
    BY <1>1, Inductive, PTL

(***************************************************************************)
(* Whatever crashes, is lost or races, no ledger of a shared-mode          *)
(* environment gives authority over a key the gateway never acknowledged a *)
(* repository write of (the delete fence's contents, src/state.rs).        *)
(***************************************************************************)
THEOREM ManagedIsAlwaysClaimed == Spec => []ManagedIsClaimed
  <1>1. IInv => ManagedIsClaimed
    BY DEF IInv, FenceInv
  <1>. QED
    BY <1>1, Inductive, PTL

(***************************************************************************)
(* So a shared-mode run deletes only rows under keys the repository wrote  *)
(* with an acknowledgement, and leaves those of other writers alone.       *)
(***************************************************************************)
THEOREM OnlyClaimedIsDeleted == Spec => DeletesOnlyClaimed
  <1>1. ASSUME IInv, [Next]_vars, NEW k \in Key, Writes(k), live'[k] = NoRow,
               Mode = "shared"
        PROVE  k \in claimed
    BY <1>1, RunDeletes DEF IInv, FenceInv, KeysOf
  <1>2. IInv /\ [Next]_vars =>
          [\A k \in Key :
              Writes(k) /\ live'[k] = NoRow /\ Mode = "shared" => k \in claimed]_vars
    BY <1>1
  <1>. QED
    BY <1>2, Inductive, PTL DEF Spec, DeletesOnlyClaimed

----------------------------------------------------------------------------
(* The precondition of every write: a held tag is worth what it was.       *)

(* The namespace a run writes is off its list.                             *)
CurInv ==
    /\ cur \notin left
    /\ pc \in Quiet => cur = NoNamespace

(***************************************************************************)
(* What a run still has to do: one operation per key, in a namespace it    *)
(* left the list of, on a row its backup showed, and on a spec-owned one   *)
(* only the prune the operator confirmed.                                  *)
(***************************************************************************)
TodoInv ==
    /\ \A o, p \in todo : o.key = p.key => o = p
    /\ \A o \in todo :
         /\ NsOf[o.key] \notin left
         /\ o.act # "Add" => o.key \in Live(plan)
         /\ o.key \in SpecOwned(plan) =>
                o.act = "Delete" /\ Mode = "exclusive" /\ PruneSpecOwned

(* The keys whose rows the run has not written.                            *)
Writing == {"select", "readback", "verify", "assert", "confirm", "write", "replay"}

Unwritten(k) ==
    \/ pc \in {"read", "plan"}
    \/ pc \notin {"idle", "record", "publish"} /\ NsOf[k] \in left
    \/ /\ pc \in Writing
       /\ k \in KeysOf(todo, Action)
       /\ pc = "replay" => k # op.key

(***************************************************************************)
(* The plan shows rows in normal form; a consumer whose evidence stands is *)
(* still the planned row until the run writes it; and a row whose tag      *)
(* still names it when the write goes out is the planned row.              *)
(***************************************************************************)
FreshInv ==
    /\ pc = "idle" => evidence = {}
    /\ \A k \in Live(plan) : Norm[plan[k].content] = plan[k].content
    /\ \A k \in evidence : Unwritten(k) => live[k] # NoRow /\ Archival(live[k]) = plan[k]
    /\ pc = "write" /\ tag => Archival(live[op.key]) = plan[op.key]

----------------------------------------------------------------------------
(* What a run still has to do. *)

(* Every step keeps the namespace being written off the list.              *)
LEMMA CurNext ==
    ASSUME TypeOK, CurInv, [Next]_vars
    PROVE  CurInv'
  <1>0. NoNamespace \notin Namespace /\ left \subseteq Namespace
    BY ApplyAssumption DEF TypeOK
  <1>1. CASE Begin \/ Journal
    <2>1. cur' = NoNamespace /\ left' \subseteq Namespace
      <3>1. TypeOK' /\ cur' = cur /\ pc \in Quiet
        BY <1>1, TypePlanning DEF Begin, Journal, Quiet
      <3>. QED
        BY <3>1 DEF CurInv, TypeOK
    <2>. QED
      BY <1>0, <2>1 DEF CurInv
  <1>2. CASE StartNamespace
    BY <1>2 DEF StartNamespace, CurInv, Quiet
  <1>3. CASE \/ EndNamespace \/ AdoptionUnconfirmed \/ EndAdoption
             \/ Publish \/ Lose
    BY <1>0, <1>3
    DEF EndNamespace, AdoptionUnconfirmed, EndAdoption, Publish,
        Lose, Reset, Stop, CurInv, Quiet
  <1>4. CASE \/ ReadBackup \/ Abort \/ Reconcile \/ Refuse \/ SkipBlocked
             \/ Defer \/ Withhold \/ CreateAccepted \/ CreateRefused
             \/ CreateUnanswered \/ Readback \/ VerifyAbsent \/ VerifyExact
             \/ VerifyUnproven \/ AssertCreated \/ AssertRefused
    BY <1>4
    DEF ReadBackup, Abort, Reconcile, Refuse, SkipBlocked, Defer, Withhold,
        CreateAccepted, CreateRefused, CreateUnanswered, Readback, VerifyAbsent,
        VerifyExact, VerifyUnproven, AssertCreated, AssertRefused, Finish, Stop,
        CurInv, Quiet
  <1>5. CASE \/ ReadRow \/ ReadFails \/ Confirm \/ WriteRow \/ WriteRefused
             \/ WriteUnanswered \/ WriteCommittedThenRetried \/ WriteStopsRun
             \/ Replay \/ StartAdoption \/ ReadCandidate \/ Claim \/ ClaimRefused
             \/ ClaimFails \/ EndNamespaces \/ Record \/ Crash
    BY <1>5
    DEF ReadRow, ReadFails, Confirm, WriteRow, WriteRefused, WriteUnanswered,
        WriteCommittedThenRetried, WriteStopsRun, Replay, StartAdoption, ReadCandidate, Claim,
        ClaimRefused, ClaimFails, EndNamespaces, Record, Crash, Finish, Stop,
        Hold, Skip, CurInv, Quiet
  <1>6. CASE Environment
    BY <1>6
    DEF Environment, AdminPut, AdminDelete, SpecImport, LateCommit, OtherWrite,
        Disturb, CurInv
  <1>7. CASE UNCHANGED vars
    BY <1>7 DEF vars, CurInv
  <1>. QED
    BY <1>1, <1>2, <1>3, <1>4, <1>5, <1>6, <1>7 DEF Next, RunStep

(* A step that adds nothing to the list keeps TodoInv.                     *)
LEMMA TodoKept ==
    ASSUME TodoInv, todo' \subseteq todo, left' \subseteq left, UNCHANGED plan
    PROVE  TodoInv'
  BY DEF TodoInv, Live, SpecOwned

(* One that ends with an empty list has nothing to keep.                   *)
LEMMA TodoEmpty ==
    ASSUME todo' = {} PROVE TodoInv'
  BY DEF TodoInv

(* Every step keeps what is known of the operations still to do.           *)
LEMMA TodoNext ==
    ASSUME TypeOK, OpsInv, CurInv, TodoInv, [Next]_vars
    PROVE  TodoInv'
  <1>1. CASE Begin \/ ReadBackup \/ Reconcile \/ Refuse \/ Journal \/ Publish \/ Lose
    BY <1>1, TodoEmpty
    DEF Begin, ReadBackup, Reconcile, Refuse, Journal, Publish, Lose, Reset, OpsInv, Quiet
  <1>2. CASE StartNamespace
    <2>1. PICK ns \in left :
            /\ left' = left \ {ns}
            /\ todo' = {o \in PlannedOps(desired, plan, mem) : NsOf[o.key] = ns}
      BY <1>2 DEF StartNamespace
    <2>2. plan' = plan
      BY <1>2 DEF StartNamespace
    <2>. QED
      BY <2>1, <2>2, PlanPerKey DEF TodoInv, Live, SpecOwned
  <1>3. CASE StartAdoption
    <2>1. /\ todo' = [key : Candidates, act : {"Modify"}]
          /\ UNCHANGED <<plan, left>>
      BY <1>3 DEF StartAdoption
    <2>2. Candidates \subseteq Live(plan) \ SpecOwned(plan)
      BY DEF Candidates, AdoptionCandidates
    <2>3. \A k \in Candidates : NsOf[k] \notin left
      BY DEF Candidates, CurInv
    <2>. QED
      BY <2>1, <2>2, <2>3 DEF TodoInv, Live, SpecOwned
  <1>4. CASE \/ Abort \/ SkipBlocked \/ Defer \/ Withhold \/ CreateAccepted
             \/ CreateRefused \/ CreateUnanswered \/ Readback \/ VerifyAbsent
             \/ VerifyExact \/ VerifyUnproven \/ AssertCreated \/ AssertRefused
    BY <1>4, TodoKept
    DEF Abort, SkipBlocked, Defer, Withhold, CreateAccepted, CreateRefused,
        CreateUnanswered, Readback, VerifyAbsent, VerifyExact, VerifyUnproven,
        AssertCreated, AssertRefused, Finish, Stop
  <1>5. CASE \/ ReadRow \/ ReadFails \/ Confirm \/ WriteRow \/ WriteRefused
             \/ WriteUnanswered \/ WriteCommittedThenRetried \/ WriteStopsRun
             \/ Replay \/ EndNamespace \/ AdoptionUnconfirmed
             \/ ReadCandidate \/ Claim \/ ClaimRefused \/ ClaimFails
             \/ EndAdoption \/ EndNamespaces \/ Record \/ Crash
    BY <1>5, TodoKept
    DEF ReadRow, ReadFails, Confirm, WriteRow, WriteRefused, WriteUnanswered,
        WriteCommittedThenRetried, WriteStopsRun, Replay, EndNamespace,
        AdoptionUnconfirmed, ReadCandidate, Claim, ClaimRefused, ClaimFails,
        EndAdoption, EndNamespaces, Record, Crash, Finish, Stop, Hold, Skip
  <1>6. CASE Environment
    BY <1>6, TodoKept
    DEF Environment, AdminPut, AdminDelete, SpecImport, LateCommit, OtherWrite, Disturb
  <1>7. CASE UNCHANGED vars
    BY <1>7, TodoKept DEF vars
  <1>. QED
    BY <1>1, <1>2, <1>3, <1>4, <1>5, <1>6, <1>7 DEF Next, RunStep

----------------------------------------------------------------------------
(* What a run still knows of the rows. *)

(* The rows left unwritten after a step that is not planning were before.  *)
LEMMA StillUnwritten ==
    ASSUME OpsInv, TodoInv, NEW k, Unwritten(k)',
           pc \notin {"idle", "record", "publish"}, pc' \notin {"read", "plan"},
           left' \subseteq left, todo' \subseteq todo,
           pc' \in Writing => pc \in Writing,
           pc = "replay" => todo' = todo \ {op}
    PROVE  Unwritten(k)
  <1>1. CASE NsOf[k] \in left'
    BY <1>1 DEF Unwritten
  <1>2. CASE pc' \in Writing /\ k \in KeysOf(todo', Action)
    <2>1. k \in KeysOf(todo, Action)
      BY <1>2 DEF KeysOf
    <2>2. ASSUME pc = "replay" PROVE k # op.key
      BY <1>2, <2>2 DEF KeysOf, OpsInv, Holding, TodoInv
    <2>. QED
      BY <1>2, <2>1, <2>2 DEF Unwritten
  <1>. QED
    BY <1>1, <1>2 DEF Unwritten

(* A step that changes no row keeps what is known of the unwritten ones.   *)
LEMMA FreshKept ==
    ASSUME FreshInv, UNCHANGED <<live, plan, evidence>>,
           \A k \in evidence : Unwritten(k)' => Unwritten(k),
           pc' # "idle",
           pc' = "write" /\ tag' => Archival(live'[op'.key]) = plan'[op'.key]
    PROVE  FreshInv'
  BY DEF FreshInv, Live, Archival

(* One that writes the row of an operation and lets go of it does, too.    *)
LEMMA FreshWritten ==
    ASSUME FreshInv, UNCHANGED <<plan, evidence>>, NEW k0,
           \A k \in Key \ {k0} : live'[k] = live[k], evidence \subseteq Key,
           \A k \in evidence : Unwritten(k)' => Unwritten(k) /\ k # k0,
           pc' \notin {"idle", "write"}
    PROVE  FreshInv'
  BY DEF FreshInv, Live, Archival

(* Every step keeps what the run knows of the rows it has not written.     *)
LEMMA FreshNext ==
    ASSUME TypeOK, OpsInv, CurInv, TodoInv, FreshInv, [Next]_vars
    PROVE  FreshInv'
  <1>1. CASE Begin
    BY <1>1 DEF Begin, FreshInv, Live
  <1>2. CASE ReadBackup
    <2>1. PICK ns \in left :
            /\ plan' = [k \in Key |-> IF NsOf[k] = ns THEN Backup(live)[k] ELSE plan[k]]
            /\ evidence' = evidence \cup (Consumers \cap KeysIn({ns}) \cap Live(live))
      BY <1>2 DEF ReadBackup
    <2>2. ASSUME NEW k \in Key, live[k] # NoRow
          PROVE  /\ Backup(live)[k] = Archival(live[k])
                 /\ Norm[Archival(live[k]).content] = Archival(live[k]).content
      BY <2>2, ApplyAssumption DEF Backup, Archival, TypeOK, View, Row
    <2>3. \A k \in Key : live[k] = NoRow => Backup(live)[k] = NoRow
      BY DEF Backup
    <2>4. ASSUME NEW k \in Live(plan') PROVE Norm[plan'[k].content] = plan'[k].content
      BY <2>1, <2>2, <2>3, <2>4 DEF FreshInv, Live
    <2>5. ASSUME NEW k \in evidence' PROVE live[k] # NoRow /\ Archival(live[k]) = plan'[k]
      <3>1. k \in Key /\ pc = "read"
        BY <1>2, <2>1, <2>5 DEF ReadBackup, Consumers, TypeOK
      <3>2. CASE k \in evidence
        BY <2>1, <2>2, <3>1, <3>2 DEF FreshInv, Unwritten
      <3>3. CASE NsOf[k] = ns /\ live[k] # NoRow
        BY <2>1, <2>2, <3>1, <3>3
      <3>. QED
        BY <2>1, <2>5, <3>2, <3>3 DEF KeysIn, Live
    <2>. QED
      BY <1>2, <2>4, <2>5 DEF ReadBackup, FreshInv, Live, Archival
  <1>3. CASE Reconcile \/ Refuse \/ Journal
    BY <1>3, FreshKept DEF Reconcile, Refuse, Journal, Unwritten, Writing
  <1>4. CASE Abort \/ Crash
    BY <1>4, FreshKept DEF Abort, Crash, Unwritten, Writing
  <1>5. CASE StartNamespace
    <2>1. PICK ns \in left :
            /\ left' = left \ {ns}
            /\ todo' = {o \in PlannedOps(desired, plan, mem) : NsOf[o.key] = ns}
      BY <1>5 DEF StartNamespace
    <2>2. \A k : Unwritten(k)' => Unwritten(k)
      BY <1>5, <2>1 DEF StartNamespace, Unwritten, Writing, KeysOf
    <2>. QED
      BY <1>5, <2>2, FreshKept DEF StartNamespace
  <1>6. CASE \/ SkipBlocked \/ Defer \/ Withhold \/ CreateRefused \/ Readback
             \/ VerifyAbsent \/ VerifyExact \/ VerifyUnproven \/ AssertCreated
             \/ AssertRefused
    <2>1. \A k : Unwritten(k)' => Unwritten(k)
      BY <1>6, StillUnwritten
      DEF SkipBlocked, Defer, Withhold, CreateRefused, Readback, VerifyAbsent,
          VerifyExact, VerifyUnproven, AssertCreated, AssertRefused, Finish, Stop,
          Writing
    <2>. QED
      BY <1>6, <2>1, FreshKept
      DEF SkipBlocked, Defer, Withhold, CreateRefused, Readback, VerifyAbsent,
          VerifyExact, VerifyUnproven, AssertCreated, AssertRefused, Finish, Stop
  <1>7. CASE ReadFails \/ WriteRefused \/ Replay
    <2>1. \A k : Unwritten(k)' => Unwritten(k)
      BY <1>7, StillUnwritten DEF ReadFails, WriteRefused, Replay, Finish, Stop, Writing
    <2>. QED
      BY <1>7, <2>1, FreshKept DEF ReadFails, WriteRefused, Replay, Finish, Stop
  <1>7a. CASE \/ EndNamespace \/ AdoptionUnconfirmed \/ ReadCandidate
              \/ Claim \/ ClaimRefused \/ ClaimFails \/ EndAdoption
              \/ EndNamespaces \/ Record
    <2>1. /\ pc \notin {"idle", "read", "plan", "publish"}
          /\ pc' \notin Writing \cup {"idle", "read", "plan"}
          /\ left' = left
          /\ pc = "record" => pc' = "publish"
          /\ UNCHANGED <<live, plan, evidence>>
      BY <1>7a
      DEF EndNamespace, AdoptionUnconfirmed, ReadCandidate, Claim,
          ClaimRefused, ClaimFails, EndAdoption, EndNamespaces, Record, Stop, Hold,
          Skip, Writing
    <2>2. \A k : Unwritten(k)' => Unwritten(k)
      BY <2>1 DEF Unwritten
    <2>. QED
      BY <2>1, <2>2, FreshKept DEF Writing
  <1>8. CASE StartAdoption
    <2>1. \A k : Unwritten(k)' => Unwritten(k)
      BY <1>8 DEF StartAdoption, Unwritten, Writing
    <2>. QED
      BY <1>8, <2>1, FreshKept DEF StartAdoption
  <1>9. CASE ReadRow
    <2>1. PICK o \in todo :
            \/ Finish(o)
            \/ Hold(o, "confirm")
            \/ /\ Hold(o, "write")
               /\ o.act # "Add" /\ live[o.key] # NoRow /\ ~OwnerChanged(o)
               /\ IF o.key \in Consumers THEN o.key \in evidence
                  ELSE live[o.key].content = plan[o.key].content
      BY <1>9 DEF ReadRow
    <2>2. \A k : Unwritten(k)' => Unwritten(k)
      BY <1>9, <2>1, StillUnwritten DEF ReadRow, Finish, Hold, Writing
    <2>3. CASE Finish(o) \/ Hold(o, "confirm")
      BY <1>9, <2>2, <2>3, FreshKept DEF ReadRow, Finish, Hold
    <2>4. CASE /\ Hold(o, "write")
               /\ o.act # "Add" /\ live[o.key] # NoRow /\ ~OwnerChanged(o)
               /\ IF o.key \in Consumers THEN o.key \in evidence
                  ELSE live[o.key].content = plan[o.key].content
      <3>1. /\ o.key \in Key /\ o.key \in Live(plan)
            /\ live[o.key] \in Row /\ plan[o.key] \in Row
        BY <2>4 DEF TodoInv, TypeOK, Op, Live, View
      <3>2. ASSUME o.key \in evidence PROVE Archival(live[o.key]) = plan[o.key]
        <4>1. pc = "select" /\ o.key \in KeysOf(todo, Action)
          BY <1>9 DEF ReadRow, KeysOf, TypeOK, Op
        <4>. QED
          BY <3>2, <4>1 DEF FreshInv, Unwritten, Writing
      <3>3. ASSUME live[o.key].content = plan[o.key].content
            PROVE  Archival(live[o.key]) = plan[o.key]
        <4>1. live[o.key] = plan[o.key]
          BY <2>4, <3>1, <3>3 DEF OwnerChanged, Row
        <4>2. Norm[plan[o.key].content] = plan[o.key].content
          BY <3>1 DEF FreshInv
        <4>. QED
          BY <3>1, <4>1, <4>2 DEF Archival, Row
      <3>4. Archival(live[o.key]) = plan[o.key]
        BY <2>4, <3>2, <3>3
      <3>. QED
        BY <1>9, <2>2, <2>4, <3>4, FreshKept DEF ReadRow, Hold
    <2>. QED
      BY <2>1, <2>3, <2>4
  <1>10. CASE Confirm
    <2>1. \A k : Unwritten(k)' => Unwritten(k)
      BY <1>10, StillUnwritten DEF Confirm, Finish, Writing
    <2>2. CASE Finish(op)
      BY <1>10, <2>1, <2>2, FreshKept DEF Confirm, Finish
    <2>3. CASE Confirmed(op) /\ UNCHANGED <<todo, op, freshVars>>
      <3>1. tag => Archival(live[op.key]) = plan[op.key]
        BY <1>10, <2>3 DEF Confirm, Confirmed, Backup, OpsInv, Holding, TypeOK, Op
      <3>. QED
        BY <1>10, <2>1, <2>3, <3>1, FreshKept DEF Confirm
    <2>. QED
      BY <1>10, <2>2, <2>3 DEF Confirm
  <1>11. CASE CreateAccepted \/ CreateUnanswered
    <2>1. PICK o \in todo : /\ (Insert(o.key) /\ live[o.key] = NoRow) \/ UNCHANGED live
                            /\ todo' \subseteq todo
      BY <1>11 DEF CreateAccepted, CreateUnanswered, Finish
    <2>2. \A k : Unwritten(k)' => Unwritten(k)
      BY <1>11, StillUnwritten DEF CreateAccepted, CreateUnanswered, Finish, Writing
    <2>3. CASE UNCHANGED live
      BY <1>11, <2>2, <2>3, FreshKept DEF CreateAccepted, CreateUnanswered, Finish
    <2>4. CASE Insert(o.key) /\ live[o.key] = NoRow
      <3>1. o.key \notin {k \in evidence : Unwritten(k)}
        BY <2>4 DEF FreshInv
      <3>2. \A k \in Key \ {o.key} : live'[k] = live[k]
        BY <2>4 DEF Insert, TypeOK, View
      <3>. QED
        BY <1>11, <2>2, <3>1, <3>2, FreshWritten
        DEF CreateAccepted, CreateUnanswered, Finish, TypeOK
    <2>. QED
      BY <2>1, <2>3, <2>4
  <1>12. CASE WriteRow \/ WriteUnanswered \/ WriteCommittedThenRetried
    <2>1. op \in todo /\ op \in Op /\ op.key \in Key
      BY <1>12
      DEF WriteRow, WriteUnanswered, WriteCommittedThenRetried, OpsInv, Holding, TypeOK, Op
    <2>2. \A k : Unwritten(k)' => Unwritten(k)
      BY <1>12, StillUnwritten
      DEF WriteRow, WriteUnanswered, WriteCommittedThenRetried, Finish, Writing
    <2>3. \A k : Unwritten(k)' => k # op.key
      <3>1. NsOf[op.key] \notin left'
        BY <1>12, <2>1
        DEF WriteRow, WriteUnanswered, WriteCommittedThenRetried, Finish, TodoInv
      <3>2. \/ pc' = "replay" /\ op' = op
            \/ op.key \notin KeysOf(todo', Action)
        BY <1>12, <2>1
        DEF WriteRow, WriteUnanswered, WriteCommittedThenRetried, Finish, TodoInv, KeysOf
      <3>3. pc' \notin {"read", "plan"}
        BY <1>12 DEF WriteRow, WriteUnanswered, WriteCommittedThenRetried, Finish
      <3>. QED
        BY <3>1, <3>2, <3>3 DEF Unwritten
    <2>4. \A k \in Key \ {op.key} : live'[k] = live[k]
      BY <1>12, <2>1
      DEF WriteRow, WriteUnanswered, WriteCommittedThenRetried, Store, TypeOK, View
    <2>. QED
      BY <1>12, <2>2, <2>3, <2>4, FreshWritten
      DEF WriteRow, WriteUnanswered, WriteCommittedThenRetried, Finish, TypeOK
  <1>12a. CASE WriteStopsRun
    BY <1>12a DEF WriteStopsRun, Stop, FreshInv, Unwritten, Writing, Live
  <1>13. CASE Publish \/ Lose
    BY <1>13 DEF Publish, Lose, Reset, FreshInv, Live, Unread
  <1>14. CASE Environment
    <2>1. /\ UNCHANGED <<viewVars, progressVars>>
          /\ \A k : Unwritten(k)' = Unwritten(k)
      BY <1>14
      DEF Environment, AdminPut, AdminDelete, SpecImport, LateCommit, OtherWrite,
          Disturb, Unwritten
    <2>2. \/ UNCHANGED <<live, freshVars>>
          \/ \E k \in Key : \E r : /\ live' = [live EXCEPT ![k] = r]
                              /\ evidence' = evidence \ {k}
                              /\ tag' = (tag /\ op.key # k)
      BY <1>14
      DEF Environment, AdminPut, AdminDelete, SpecImport, LateCommit, OtherWrite,
          Disturb, Live, Declared
    <2>3. pc = "write" => op.key \in Key
      BY DEF OpsInv, Holding, TypeOK, Op
    <2>4. CASE UNCHANGED <<live, freshVars>>
      BY <2>1, <2>4 DEF FreshInv, Live, Archival
    <2>5. ASSUME NEW k \in Key, NEW r, live' = [live EXCEPT ![k] = r],
                 evidence' = evidence \ {k}, tag' = (tag /\ op.key # k)
          PROVE  FreshInv'
      <3>1. \A j \in Key \ {k} : live'[j] = live[j]
        BY <2>5 DEF TypeOK, View
      <3>2. \A j \in evidence' : j \in Key /\ j # k
        BY <2>5 DEF TypeOK
      <3>3. pc = "write" /\ tag' => tag /\ op.key \in Key \ {k}
        BY <2>3, <2>5
      <3>. QED
        BY <2>1, <2>5, <3>1, <3>2, <3>3 DEF FreshInv, Live, Archival
    <2>. QED
      BY <2>2, <2>4, <2>5
  <1>15. CASE UNCHANGED vars
    BY <1>15 DEF vars, FreshInv, Unwritten, Live, Archival
  <1>. QED
    BY <1>1, <1>2, <1>3, <1>4, <1>5, <1>6, <1>7, <1>8, <1>9, <1>10, <1>11, <1>12,
       <1>13, <1>14, <1>15, <1>7a, <1>12a
    DEF Next, RunStep

----------------------------------------------------------------------------
(* The theorems. *)

FreshIInv == IInv /\ CurInv /\ TodoInv /\ FreshInv

(* The invariant holds initially and every step keeps it.                  *)
LEMMA FreshInductive == Spec => []FreshIInv
  <1>1. Init => CurInv /\ TodoInv /\ FreshInv
    BY DEF Init, CurInv, TodoInv, FreshInv, Live, Unread
  <1>2. IInv /\ CurInv /\ TodoInv /\ FreshInv /\ [Next]_vars =>
            CurInv' /\ TodoInv' /\ FreshInv'
    BY CurNext, TodoNext, FreshNext DEF IInv
  <1>. QED
    BY <1>1, <1>2, Inductive, PTL DEF Spec, FreshIInv

(***************************************************************************)
(* Whatever happened since the plan was made, a row the run overwrites or  *)
(* deletes is the row its backup showed: no edit is lost.                  *)
(***************************************************************************)
THEOREM NoEditIsLost == Spec => NoLostEdit
  <1>1. ASSUME FreshIInv, [Next]_vars, NEW k \in Key, Writes(k), live[k] # NoRow
        PROVE  Archival(live[k]) = plan[k]
    BY <1>1, WriteSteps DEF FreshIInv, IInv, FreshInv
  <1>2. FreshIInv /\ [Next]_vars =>
          [\A k \in Key :
              Writes(k) /\ live[k] # NoRow => Archival(live[k]) = plan[k]]_vars
    BY <1>1
  <1>. QED
    BY <1>2, FreshInductive, PTL DEF Spec, NoLostEdit

(***************************************************************************)
(* A row an API spec owns at the write is only ever deleted, in exclusive  *)
(* mode, with the operator's confirmation, and planned for that owner.     *)
(***************************************************************************)
THEOREM SpecRowsStaySafe == Spec => SpecRowsAreSafe
  <1>. DEFINE Safe(k) == /\ live'[k] = NoRow
                         /\ Mode = "exclusive" /\ PruneSpecOwned
                         /\ plan[k] # NoRow /\ plan[k].spec = live[k].spec
  <1>1. ASSUME FreshIInv, [Next]_vars, NEW k \in Key, Writes(k), k \in SpecOwned(live)
        PROVE  Safe(k)
    <2>1. live[k] \in Row /\ live[k].spec # Unowned /\ live[k] # NoRow
      BY <1>1 DEF SpecOwned, Live, FreshIInv, IInv, TypeOK, View
    <2>2. /\ pc = "write" /\ tag /\ op \in todo /\ op.key = k /\ Store(op)
          /\ plan[k] = Archival(live[k])
      BY <1>1, <2>1, WriteSteps DEF FreshIInv, IInv, FreshInv
    <2>3. plan[k] \in Row /\ plan[k].spec = live[k].spec
      BY <2>1, <2>2, ApplyAssumption DEF Archival, Row
    <2>4. plan[k] # NoRow /\ k \in SpecOwned(plan)
      BY <2>1, <2>3, DiffAssumption DEF SpecOwned, Live
    <2>5. op.act = "Delete" /\ Mode = "exclusive" /\ PruneSpecOwned
      BY <1>1, <2>2, <2>4 DEF FreshIInv, TodoInv
    <2>6. live'[k] = NoRow
      BY <1>1, <2>2, <2>5 DEF Store, FreshIInv, IInv, TypeOK, View
    <2>. QED
      BY <2>3, <2>4, <2>5, <2>6
  <1>2. FreshIInv /\ [Next]_vars =>
          [\A k \in Key : Writes(k) /\ k \in SpecOwned(live) => Safe(k)]_vars
    BY <1>1
  <1>. QED
    BY <1>2, FreshInductive, PTL DEF Spec, SpecRowsAreSafe

-----------------------------------------------------------------------------
(* A whole run.                                                            *)

(* From its first write on a run has one plan, made against one ledger.    *)
Acting  == Steps \ {"idle", "read", "plan", "publish"}
Planned == PlannedOps(desired, plan, mem)

(***************************************************************************)
(* A run's plan and its bookkeeping belong together: the plan shows, and   *)
(* the document declares, rows of its namespaces only; the file holds what *)
(* the run's memory does; and what it has to do, or did, in a namespace    *)
(* preflight let through, is what it planned.                              *)
(***************************************************************************)
PlanInv ==
    /\ pc = "idle" => plan = Unread
    /\ pc \in {"idle", "read", "plan"} => applied = {}
    /\ pc # "idle" => /\ mem = disk
                      /\ Live(plan) \cup Declared(desired) \subseteq KeysIn(nss)
                      /\ left \subseteq nss
    /\ pc \in Acting \cup {"plan"} =>
         blocked = {NsOf[k] : k \in SpecConflicts(desired, plan)}
    /\ pc \in Writing => /\ cur \notin blocked
                         /\ \A o \in todo : NsOf[o.key] = cur /\ o \in Planned
    /\ pc \in {"adopt", "claim"} => \A o \in todo : o.act = "Modify"
    /\ pc \in Acting => \A o \in todo \cup applied : o.act = "Delete" => o \in Planned

(***************************************************************************)
(* Why no create is unaccounted for: the journal of the creates is saved   *)
(* before the first of them goes out; only declared rows are in flight;    *)
(* every backup of a row of the repository showed it; and a row the run    *)
(* deleted is not one of the repository's any more.                        *)
(***************************************************************************)
AccountInv ==
    /\ CreatesAreAccounted
    /\ \A k \in Key : origin[k] = "repo" => live[k] # NoRow
    /\ pc # "idle" => Declared(landing) \subseteq Declared(desired)
    /\ pc \in {"read", "plan"} => landing = NoDoc
    /\ pc = "read" => \A k \in Key :
          NsOf[k] \in nss \ left /\ origin[k] = "repo" => plan[k] # NoRow
    /\ pc \in Acting \ {"record"} => \A k \in Adds(desired, plan) :
          NsOf[k] \notin blocked => k \in mem.managed \cup mem.pending
    /\ pc \in {"readback", "verify", "assert"} => op.act = "Add"
    /\ pc \in {"verify", "assert"} /\ tag => live[op.key] # NoRow
    /\ pc \in Acting => \A o \in applied : o.act = "Delete" => origin[o.key] # "repo"

----------------------------------------------------------------------------
(* The plan. *)

(* What a plan deletes, a live view shows and the document leaves out.     *)
LEMMA PlannedDeletes ==
    ASSUME NEW d, NEW v, NEW l, NEW o \in PlannedOps(d, v, l), o.act = "Delete"
    PROVE  o.key \in Deletes(d, v, l.managed) /\ o.key \in Live(v) \ Declared(d)
  BY DEF PlannedOps, PendingAssertions, Diff, Deletes

(* What it adds, the document declares and the view lacks.                 *)
LEMMA PlannedAdds ==
    ASSUME NEW d, NEW v, NEW l, NEW o \in PlannedOps(d, v, l), o.act = "Add"
    PROVE  o.key \in Adds(d, v)
  BY DEF PlannedOps, PendingAssertions, Diff

(* A step of a run that writes, or its end, has the plan it had.           *)
LEMMA PlanKept ==
    ASSUME PlanInv, pc \in Acting, pc' \in Acting \cup {"publish"},
           UNCHANGED <<viewVars, mem, disk>>, left' \subseteq left,
           todo' \subseteq todo, pc' \in Writing => pc \in Writing /\ cur' = cur,
           pc' \in {"adopt", "claim"} => pc \in {"adopt", "claim"},
           \A o \in applied' : o \in applied \cup todo \/ o.act = "Modify"
    PROVE  PlanInv'
  <1>1. Planned' = Planned
    BY DEF Planned
  <1>2. /\ Live(plan)' = Live(plan) /\ Declared(desired)' = Declared(desired)
        /\ KeysIn(nss)' = KeysIn(nss)
        /\ SpecConflicts(desired, plan)' = SpecConflicts(desired, plan)
    OBVIOUS
  <1>3. pc # "idle" /\ pc' \notin {"idle", "read", "plan"}
    BY DEF Acting
  <1>. QED
    BY <1>1, <1>2, <1>3 DEF PlanInv, Writing

(* Every step keeps plan and bookkeeping together.                         *)
LEMMA PlanNext ==
    ASSUME TypeOK, OpsInv, CurInv, PlanInv, [Next]_vars
    PROVE  PlanInv'
  <1>1. CASE Begin
    <2>1. PICK d : desired' = [k \in Key |-> IF NsOf[k] \in nss' THEN d[k] ELSE Undeclared]
      BY <1>1 DEF Begin
    <2>2. Declared(desired') \subseteq KeysIn(nss')
      BY <2>1 DEF Declared, KeysIn
    <2>3. Live(plan') = {}
      BY <1>1 DEF Begin, PlanInv, Live, Unread
    <2>. QED
      BY <1>1, <2>2, <2>3 DEF Begin, PlanInv, Acting, Writing
  <1>2. CASE ReadBackup
    <2>1. PICK ns \in left :
            plan' = [k \in Key |-> IF NsOf[k] = ns THEN Backup(live)[k] ELSE plan[k]]
      BY <1>2 DEF ReadBackup
    <2>2. Live(plan') \subseteq KeysIn(nss)
      BY <1>2, <2>1 DEF ReadBackup, PlanInv, Live, KeysIn
    <2>. QED
      BY <1>2, <2>2 DEF ReadBackup, PlanInv, Acting, Writing
  <1>3. CASE Abort \/ Refuse \/ Crash
    BY <1>3 DEF Abort, Refuse, Crash, PlanInv, Acting, Writing
  <1>4. CASE Reconcile
    BY <1>4 DEF Reconcile, PlanInv, Acting, Writing
  <1>5. CASE Journal
    BY <1>5 DEF Journal, PlanInv, Acting, Writing, OpsInv, Quiet
  <1>6. CASE StartNamespace
    <2>1. PICK ns \in left \ blocked :
            /\ cur' = ns /\ left' = left \ {ns}
            /\ todo' = {o \in PlannedOps(desired, plan, mem) : NsOf[o.key] = ns}
      BY <1>6 DEF StartNamespace
    <2>2. Planned' = Planned
      BY <1>6 DEF StartNamespace, Planned
    <2>. QED
      BY <1>6, <2>1, <2>2 DEF StartNamespace, PlanInv, Planned, Acting, Writing, Steps
  <1>7. CASE StartAdoption
    <2>1. Planned' = Planned
      BY <1>7 DEF StartAdoption, Planned
    <2>. QED
      BY <1>7, <2>1 DEF StartAdoption, PlanInv, Acting, Writing, Steps
  <1>8. CASE Record
    BY <1>8 DEF Record, PlanInv, Acting, Writing, Steps
  <1>9. CASE Publish \/ Lose
    BY <1>9 DEF Publish, Lose, Reset, PlanInv, Acting, Writing
  <1>10. CASE \/ SkipBlocked \/ Defer \/ Withhold \/ CreateAccepted \/ CreateRefused
              \/ CreateUnanswered \/ Readback \/ VerifyAbsent \/ VerifyExact
              \/ VerifyUnproven
    BY <1>10, PlanKept
    DEF SkipBlocked, Defer, Withhold, CreateAccepted, CreateRefused, CreateUnanswered,
        Readback, VerifyAbsent, VerifyExact, VerifyUnproven,
        Finish, Stop, Fail, Land, Acting, Writing, Steps
  <1>11. CASE AssertCreated \/ WriteRow \/ WriteRefused \/ Replay
    <2>1. op \in todo
      BY <1>11 DEF AssertCreated, WriteRow, WriteRefused, Replay, OpsInv, Holding
    <2>. QED
      BY <1>11, <2>1, PlanKept
      DEF AssertCreated, WriteRow, WriteRefused, Replay,
          Finish, Fail, Land, Acting, Writing, Steps
  <1>12. CASE ReadRow
    <2>1. PICK o \in todo : \/ Finish(o) /\ (Land(o) \/ Fail(o, TRUE))
                            \/ Hold(o, "write") \/ Hold(o, "confirm")
      BY <1>12 DEF ReadRow
    <2>. QED
      BY <1>12, <2>1, PlanKept
      DEF ReadRow, Finish, Fail, Land, Hold, Acting, Writing, Steps
  <1>13. CASE \/ AssertRefused \/ ReadFails \/ Confirm \/ WriteUnanswered
              \/ WriteCommittedThenRetried \/ WriteStopsRun
    BY <1>13, PlanKept
    DEF AssertRefused, ReadFails, Confirm, WriteUnanswered, WriteCommittedThenRetried,
        WriteStopsRun, Finish, Fail, Stop, Acting, Writing, Steps
  <1>14. CASE \/ EndNamespace \/ AdoptionUnconfirmed \/ ReadCandidate \/ ClaimRefused
              \/ ClaimFails \/ EndAdoption \/ EndNamespaces
    BY <1>14, PlanKept
    DEF EndNamespace, AdoptionUnconfirmed, ReadCandidate, ClaimRefused, ClaimFails,
        EndAdoption, EndNamespaces, Stop, Skip, Hold, Acting, Writing, Steps
  <1>15. CASE Claim
    BY <1>15, PlanKept DEF Claim, OpsInv, Holding, Acting, Writing, Steps
  <1>16. CASE Environment
    <2>1. UNCHANGED <<ledgerVars, viewVars, mem, progressVars, resultVars>>
      BY <1>16
      DEF Environment, AdminPut, AdminDelete, SpecImport, LateCommit, OtherWrite, Disturb
    <2>2. Planned' = Planned
      BY <2>1 DEF Planned
    <2>. QED
      BY <2>1, <2>2 DEF PlanInv
  <1>17. CASE UNCHANGED vars
    <2>1. Planned' = Planned
      BY <1>17 DEF vars, Planned
    <2>. QED
      BY <1>17, <2>1 DEF vars, PlanInv
  <1>. QED
    BY <1>1, <1>2, <1>3, <1>4, <1>5, <1>6, <1>7, <1>8, <1>9, <1>10, <1>11, <1>12,
       <1>13, <1>14, <1>15, <1>16, <1>17
    DEF Next, RunStep

----------------------------------------------------------------------------
(* No create is unaccounted for. *)

(* The row a create or an update of a declared key leaves is a row.        *)
LEMMA DeclaredRow ==
    ASSUME TypeOK, NEW k \in Declared(desired), NEW s \in SpecId \cup {Unowned}
    PROVE  [content |-> desired[k], spec |-> s] # NoRow
  BY DiffAssumption DEF TypeOK, Declared, Document, Row

(* What the run has deleted is not declared, so no create brings it back.  *)
LEMMA DeletedStaysUndeclared ==
    ASSUME PlanInv, pc \in Acting, NEW o \in applied, o.act = "Delete"
    PROVE  o.key \notin Declared(desired)
  BY PlannedDeletes DEF PlanInv, Planned

(* A step that leaves the rows, the ledger and the plan alone.             *)
LEMMA AccountKept ==
    ASSUME PlanInv, AccountInv, pc \in Acting, pc' \in Acting \cup {"publish"},
           pc = "record" => pc' \in {"record", "publish"},
           UNCHANGED <<gatewayVars, disk, viewVars, mem, forgotten>>,
           pc' \in {"readback", "verify", "assert"} => op'.act = "Add",
           pc' \in {"verify", "assert"} /\ tag' => live[op'.key] # NoRow,
           \A o \in applied' : \/ o \in applied \/ o.act # "Delete"
                               \/ origin[o.key] # "repo"
    PROVE  AccountInv'
  <1>1. CreatesAreAccounted'
    BY DEF AccountInv, CreatesAreAccounted
  <1>2. \A o \in applied' : o.act = "Delete" => origin'[o.key] # "repo"
    BY DEF AccountInv
  <1>3. /\ Declared(landing') = Declared(landing) /\ Declared(desired') = Declared(desired)
        /\ Adds(desired', plan') = Adds(desired, plan)
    OBVIOUS
  <1>. QED
    BY <1>1, <1>2, <1>3 DEF AccountInv, Acting

(* A create of the plan, sent: answered, in flight or lost.                *)
LEMMA AccountCreate ==
    ASSUME TypeOK, OpsInv, PlanInv, AccountInv, pc = "select",
           NEW o \in todo, o.act = "Add",
           \/ Insert(o.key)
           \/ landing' = [landing EXCEPT ![o.key] = desired[o.key]] /\ UNCHANGED <<live, origin>>
           \/ UNCHANGED gatewayVars,
           forgotten' = forgotten \ {o.key},
           UNCHANGED <<disk, viewVars, mem>>,
           pc' \in {"select", "readback", "record"}, pc' = "readback" => op'.act = "Add",
           \A p \in applied' : p \in applied \/ p = o
    PROVE  AccountInv'
  <1>1. o.key \in Key /\ o.key \in Declared(desired)
    BY DEF TypeOK, OpsInv, Op
  <1>2. o.key \in disk.managed \cup disk.pending
    <2>1. o.key \in Adds(desired, plan) /\ NsOf[o.key] \notin blocked
      BY PlannedAdds DEF PlanInv, Planned, Writing
    <2>. QED
      BY <2>1 DEF AccountInv, PlanInv, Acting, Steps
  <1>3. \A k \in Key \ {o.key} : /\ live'[k] = live[k] /\ origin'[k] = origin[k]
                                 /\ landing'[k] = landing[k]
    BY DEF Insert, TypeOK, View, Document
  <1>4. CreatesAreAccounted'
    BY <1>2, <1>3 DEF AccountInv, CreatesAreAccounted
  <1>5. \A k \in Key : origin'[k] = "repo" => live'[k] # NoRow
    <2>1. origin'[o.key] = "repo" => live'[o.key] # NoRow
      BY <1>1, DeclaredRow DEF Insert, AccountInv, TypeOK, View
    <2>. QED
      BY <1>3, <2>1 DEF AccountInv
  <1>6. Declared(landing') \subseteq Declared(desired')
    BY <1>1, <1>3 DEF AccountInv, Declared
  <1>7. ASSUME NEW p \in applied', p.act = "Delete" PROVE origin'[p.key] # "repo"
    <2>1. pc \in Acting /\ p \in applied
      BY <1>7 DEF Acting, Steps
    <2>2. p.key \in Key \ {o.key}
      BY <1>1, <1>7, <2>1, DeletedStaysUndeclared DEF TypeOK, Op
    <2>. QED
      BY <1>3, <1>7, <2>1, <2>2 DEF AccountInv
  <1>8. Adds(desired', plan') = Adds(desired, plan)
    OBVIOUS
  <1>. QED
    BY <1>4, <1>5, <1>6, <1>7, <1>8 DEF AccountInv, Acting, Steps

(* A conditional write, committed.                                         *)
LEMMA AccountStore ==
    ASSUME TypeOK, OpsInv, PlanInv, AccountInv, pc = "write", tag, Store(op),
           UNCHANGED <<disk, viewVars, mem, forgotten>>,
           pc' \in {"select", "replay", "record"},
           \A o \in applied' : o \in applied \/ o = op
    PROVE  AccountInv'
  <1>1. op \in todo /\ op.key \in Key /\ live[op.key] \in Row
    BY DEF OpsInv, Holding, TypeOK, Op, View
  <1>2. /\ \A k \in Key \ {op.key} : live'[k] = live[k] /\ origin'[k] = origin[k]
        /\ landing' = landing
    BY DEF Store, TypeOK, View
  <1>3. origin'[op.key] = IF op.act = "Delete" THEN "none" ELSE origin[op.key]
    BY <1>1 DEF Store, TypeOK
  <1>4. op.act # "Delete" => live'[op.key] # NoRow
    <2>1. ASSUME op.act # "Delete" PROVE live'[op.key] # NoRow
      <3>1. op.key \in Declared(desired) /\ live[op.key].spec \in SpecId \cup {Unowned}
        BY <1>1, <2>1 DEF OpsInv, Row
      <3>2. live'[op.key] = [content |-> desired[op.key], spec |-> live[op.key].spec]
        BY <1>1, <2>1 DEF Store, TypeOK, View
      <3>. QED
        BY <3>1, <3>2, DeclaredRow
    <2>. QED
      BY <2>1
  <1>5. \A k \in Key : origin'[k] = "repo" => origin[k] = "repo" /\ live'[k] # NoRow
    BY <1>1, <1>2, <1>3, <1>4 DEF AccountInv
  <1>6. CreatesAreAccounted'
    BY <1>2, <1>5 DEF AccountInv, CreatesAreAccounted
  <1>7. \A o \in applied' : o.act = "Delete" => origin'[o.key] # "repo"
    <2>1. \A o \in applied : o.key \in Key
      BY DEF TypeOK, Op
    <2>. QED
      BY <1>1, <1>3, <1>5, <2>1 DEF AccountInv, Acting, Steps
  <1>8. /\ Declared(landing') = Declared(landing) /\ Declared(desired') = Declared(desired)
        /\ Adds(desired', plan') = Adds(desired, plan)
    BY <1>2
  <1>. QED
    BY <1>5, <1>6, <1>7, <1>8 DEF AccountInv, Acting, Steps

(* Recording drops a row from the ledger only when the run deleted it.     *)
LEMMA RecordAccounts ==
    ASSUME NEW l \in LedgerType, NEW ops, NEW declared,
           NEW k \in l.managed \cup l.pending,
           \A o \in ops : o.act = "Delete" => o.key # k
    PROVE  k \in RecordOps(l, ops, declared).managed \cup RecordOps(l, ops, declared).pending
  BY DEF RecordOps, KeysOf, LedgerType

(* Reconciliation drops one the backups show only by forgetting it aloud.  *)
LEMMA ReconcileAccounts ==
    ASSUME NEW l \in LedgerType, NEW declared, NEW liveKeys, NEW read,
           NEW k \in l.managed \cup l.pending,
           NsOf[k] \in read => k \in liveKeys
    PROVE  LET r == ReconcileAbsent(ReconcilePending(l, declared, read),
                                    declared, liveKeys, read)
           IN  k \in r.managed \cup r.pending \cup Forgotten(l, declared, liveKeys, read)
  BY DEF ReconcileAbsent, ReconcilePending, Forgotten, LedgerType

(* Journaling keeps what the ledger holds and takes up the plan's creates. *)
LEMMA JournalStep ==
    ASSUME TypeOK, Journal
    PROVE  /\ mem'.managed = mem.managed
           /\ mem'.pending = mem.pending \cup
                ({k \in Adds(desired, plan) : NsOf[k] \notin blocked} \ mem.managed)
  <1>. DEFINE D   == Diff(desired, plan, mem.managed)
              ops == {o \in D : NsOf[o.key] \notin blocked}
  <1>1. /\ mem'.managed = mem.managed
        /\ mem'.pending = mem.pending \cup (KeysOf(ops, {"Add"}) \ mem.managed)
    BY DEF Journal, ReserveAdds, TypeOK, LedgerType
  <1>2. ASSUME NEW k \in Adds(desired, plan), NsOf[k] \notin blocked
        PROVE  k \in KeysOf(ops, {"Add"})
    <2>1. [key |-> k, act |-> "Add"] \in D
      BY DEF Diff
    <2>2. [key |-> k, act |-> "Add"] \in ops
      BY <1>2, <2>1
    <2>. QED
      BY <2>2 DEF KeysOf
  <1>3. ASSUME NEW o \in ops, o.act = "Add"
        PROVE  o.key \in Adds(desired, plan) /\ NsOf[o.key] \notin blocked
    BY <1>3 DEF Diff
  <1>4. KeysOf(ops, {"Add"}) = {k \in Adds(desired, plan) : NsOf[k] \notin blocked}
    BY <1>2, <1>3 DEF KeysOf
  <1>. QED
    BY <1>1, <1>4

(***************************************************************************)
(* Another writer, or a late commit, touches one row: only a create of the *)
(* repository that was in flight makes it the repository's, and a tag that *)
(* names the row afterwards means that it is as it was.                    *)
(***************************************************************************)
EnvironmentTouches(k) ==
    /\ \A j \in Key \ {k} : /\ live'[j] = live[j] /\ origin'[j] = origin[j]
                            /\ landing'[j] = landing[j]
    /\ \/ landing' = landing
       \/ landing[k] # Undeclared /\ landing'[k] = Undeclared
    /\ origin'[k] = "repo" =>
           \/ origin[k] = "repo" /\ (live[k] # NoRow => live'[k] # NoRow)
           \/ landing[k] # Undeclared /\ live'[k] # NoRow
    /\ tag' => tag /\ (op.key = k => live'[k] = live[k])

LEMMA EnvironmentTouchesOne ==
    ASSUME TypeOK, Environment
    PROVE  \E k \in Key : EnvironmentTouches(k)
  <1>0. ASSUME NEW k, Disturb(k) PROVE tag' => tag /\ op.key # k
    BY <1>0 DEF Disturb
  <1>1. CASE AdminPut
    <2>1. PICK k \in Key, c \in Written :
            /\ live' = [live EXCEPT ![k] =
                  [content |-> c, spec |-> IF live[k] = NoRow THEN Unowned ELSE live[k].spec]]
            /\ Arrives(k, "other") /\ OtherWrite(k)
      BY <1>1 DEF AdminPut
    <2>2. live'[k] \in Row /\ live'[k] # NoRow
      BY <2>1, ConstantTypes, DiffAssumption DEF TypeOK, View, Row
    <2>3. tag' => tag /\ op.key # k
      BY <1>0, <2>1 DEF OtherWrite
    <2>. QED
      BY <2>1, <2>2, <2>3
      DEF EnvironmentTouches, Arrives, OtherWrite, TypeOK, View, Document
  <1>2. CASE AdminDelete
    <2>1. PICK k \in Key : /\ live' = [live EXCEPT ![k] = NoRow]
                           /\ origin' = [origin EXCEPT ![k] = "none"]
                           /\ OtherWrite(k)
      BY <1>2 DEF AdminDelete, Live
    <2>2. tag' => tag /\ op.key # k
      BY <1>0, <2>1 DEF OtherWrite
    <2>. QED
      BY <2>1, <2>2 DEF EnvironmentTouches, OtherWrite, TypeOK, View, Document
  <1>3. CASE SpecImport
    <2>1. PICK k \in Key, c \in Written, s \in SpecId :
            /\ live' = [live EXCEPT ![k] = [content |-> c, spec |-> s]]
            /\ origin' = [origin EXCEPT ![k] = "other"]
            /\ OtherWrite(k)
      BY <1>3 DEF SpecImport
    <2>2. tag' => tag /\ op.key # k
      BY <1>0, <2>1 DEF OtherWrite
    <2>. QED
      BY <2>1, <2>2 DEF EnvironmentTouches, OtherWrite, TypeOK, View, Document
  <1>4. CASE LateCommit
    <2>1. PICK k \in Declared(landing) :
        /\ landing' = [landing EXCEPT ![k] = Undeclared]
        /\ \/ /\ live' = [live EXCEPT ![k] = [content |-> landing[k], spec |-> Unowned]]
              /\ Arrives(k, "repo") /\ Disturb(k)
           \/ UNCHANGED <<live, origin, tag>>
      BY <1>4 DEF LateCommit
    <2>2. k \in Key /\ landing[k] \in Content /\ landing[k] # Undeclared
      BY DiffAssumption DEF Declared, TypeOK, Document
    <2>3. CASE /\ live' = [live EXCEPT ![k] = [content |-> landing[k], spec |-> Unowned]]
               /\ Arrives(k, "repo") /\ Disturb(k)
      <3>1. live'[k] # NoRow
        BY <2>2, <2>3, DiffAssumption DEF TypeOK, View, Row
      <3>. QED
        BY <2>1, <2>2, <2>3, <3>1
        DEF EnvironmentTouches, Arrives, Disturb, TypeOK, View, Document
    <2>4. CASE UNCHANGED <<live, origin, tag>>
      BY <1>4, <2>1, <2>2, <2>4 DEF EnvironmentTouches, TypeOK, Document, LateCommit, Disturb
    <2>. QED
      BY <2>1, <2>3, <2>4
  <1>. QED
    BY <1>1, <1>2, <1>3, <1>4 DEF Environment

(* Every step keeps every create accounted for.                            *)
LEMMA AccountNext ==
    ASSUME TypeOK, OpsInv, PlanInv, AccountInv, [Next]_vars
    PROVE  AccountInv'
  <1>1. CASE Begin
    <2>1. /\ UNCHANGED <<gatewayVars, disk, forgotten, applied>>
          /\ landing = NoDoc /\ nss' \ left' = {} /\ pc' = "read"
      BY <1>1 DEF Begin
    <2>2. Declared(landing) = {}
      BY <2>1 DEF Declared, NoDoc
    <2>. QED
      BY <2>1, <2>2 DEF AccountInv, CreatesAreAccounted, Acting
  <1>2. CASE ReadBackup
    <2>1. PICK ns \in left :
            /\ plan' = [k \in Key |-> IF NsOf[k] = ns THEN Backup(live)[k] ELSE plan[k]]
            /\ left' = left \ {ns}
      BY <1>2 DEF ReadBackup
    <2>2. \A k \in Key : live[k] # NoRow => Backup(live)[k] # NoRow
      BY ApplyAssumption, DiffAssumption DEF Backup, Archival, TypeOK, View, Row
    <2>3. /\ UNCHANGED <<gatewayVars, disk, desired, nss, forgotten, applied>>
          /\ pc = "read" /\ pc' = "read"
      BY <1>2 DEF ReadBackup
    <2>4. \A k \in Key : NsOf[k] \in nss \ left' /\ origin[k] = "repo" => plan'[k] # NoRow
      BY <2>1, <2>2, <2>3 DEF AccountInv
    <2>. QED
      BY <2>3, <2>4 DEF AccountInv, CreatesAreAccounted, Acting
  <1>3. CASE Reconcile
    <2>1. /\ UNCHANGED <<gatewayVars, desired, plan, applied>>
          /\ pc = "read" /\ pc' = "plan" /\ left = {} /\ disk' = mem'
          /\ mem' = ReconcileAbsent(ReconcilePending(mem, Declared(desired), nss),
                                    Declared(desired), Live(plan), nss)
          /\ forgotten' = forgotten \cup Forgotten(mem, Declared(desired), Live(plan), nss)
      BY <1>3 DEF Reconcile
    <2>2. ASSUME NEW k \in Key, origin[k] = "repo" \/ landing[k] # Undeclared
          PROVE  k \in disk'.managed \cup disk'.pending \cup forgotten'
      <3>1. origin[k] = "repo"
        BY <2>1, <2>2 DEF AccountInv, NoDoc
      <3>2. NsOf[k] \in nss => k \in Live(plan)
        BY <2>1, <3>1 DEF AccountInv, Live
      <3>3. k \in mem.managed \cup mem.pending \cup forgotten
        BY <2>1, <3>1 DEF AccountInv, CreatesAreAccounted, PlanInv
      <3>. QED
        BY <2>1, <3>2, <3>3, ReconcileAccounts DEF TypeOK
    <2>. QED
      BY <2>1, <2>2 DEF AccountInv, CreatesAreAccounted, Acting
  <1>4. CASE Abort \/ Refuse \/ Crash
    BY <1>4
    DEF Abort, Refuse, Crash, AccountInv, CreatesAreAccounted, Acting
  <1>5. CASE Journal
    <2>1. /\ UNCHANGED <<gatewayVars, viewVars, forgotten, applied>>
          /\ pc = "plan" /\ pc' = "namespaces" /\ disk' = mem' /\ mem = disk
      BY <1>5 DEF Journal, PlanInv
    <2>2. /\ mem'.managed = mem.managed
          /\ mem'.pending = mem.pending \cup
                ({k \in Adds(desired, plan) : NsOf[k] \notin blocked} \ mem.managed)
      BY <1>5, JournalStep
    <2>3. Adds(desired', plan') = Adds(desired, plan) /\ Declared(desired') = Declared(desired)
      BY <2>1
    <2>4. applied' = {}
      BY <2>1 DEF PlanInv
    <2>. QED
      BY <2>1, <2>2, <2>3, <2>4 DEF AccountInv, CreatesAreAccounted, Acting
  <1>6. CASE Record
    <2>1. /\ UNCHANGED <<gatewayVars, viewVars, forgotten, applied>>
          /\ pc = "record" /\ pc' = "publish" /\ disk' = mem'
          /\ mem' = RecordOps(mem, applied, Declared(desired))
          /\ pc \in Acting
      BY <1>6 DEF Record, Acting, Steps
    <2>2. ASSUME NEW k \in Key, origin[k] = "repo" \/ landing[k] # Undeclared
          PROVE  k \in disk'.managed \cup disk'.pending \cup forgotten'
      <3>1. \A o \in applied : o.act = "Delete" => o.key # k
        BY <2>1, <2>2, DeletedStaysUndeclared DEF AccountInv, Declared
      <3>2. k \in mem.managed \cup mem.pending \cup forgotten
        BY <2>1, <2>2 DEF AccountInv, CreatesAreAccounted, PlanInv
      <3>. QED
        BY <2>1, <3>1, <3>2, RecordAccounts DEF TypeOK
    <2>3. Declared(desired') = Declared(desired)
      BY <2>1
    <2>. QED
      BY <2>1, <2>2, <2>3 DEF AccountInv, CreatesAreAccounted, Acting
  <1>7. CASE Publish
    BY <1>7 DEF Publish, Reset, AccountInv, CreatesAreAccounted, Acting
  <1>8. CASE Lose
    BY <1>8 DEF Lose, Reset, AccountInv, CreatesAreAccounted, Acting
  <1>9. CASE CreateAccepted
    BY <1>9, AccountCreate DEF CreateAccepted, Finish, Land
  <1>10. CASE CreateUnanswered
    BY <1>10, AccountCreate DEF CreateUnanswered
  <1>11. CASE WriteStopsRun
    <2>1. CASE pc = "select" /\ \E o \in todo :
                 /\ o.act = "Add" /\ (Insert(o.key) \/ UNCHANGED gatewayVars)
                 /\ forgotten' = forgotten \ {o.key}
      BY <1>11, <2>1, AccountCreate DEF WriteStopsRun, Stop
    <2>2. CASE /\ pc = "write" /\ UNCHANGED forgotten
               /\ (tag /\ Store(op)) \/ UNCHANGED gatewayVars
      BY <1>11, <2>2, AccountStore, AccountKept DEF WriteStopsRun, Stop, Acting, Steps
    <2>. QED
      BY <1>11, <2>1, <2>2 DEF WriteStopsRun
  <1>12. CASE WriteRow \/ WriteCommittedThenRetried
    BY <1>12, AccountStore DEF WriteRow, WriteCommittedThenRetried, Finish, Land
  <1>13. CASE WriteUnanswered
    BY <1>13, AccountStore, AccountKept
    DEF WriteUnanswered, Finish, Fail, Acting, Steps
  <1>14. CASE AssertCreated
    <2>1. /\ op \in todo /\ op.key \in Key /\ op.act = "Add" /\ live[op.key] # NoRow
          /\ pc = "assert" /\ pc \in Acting
      BY <1>14 DEF AssertCreated, OpsInv, Holding, TypeOK, Op, AccountInv, Acting, Steps
    <2>2. op.key \in Declared(desired) /\ op.key \in disk.managed \cup disk.pending
      BY <2>1, PlannedAdds DEF OpsInv, AccountInv, PlanInv, Planned, Writing
    <2>3. /\ UNCHANGED <<live, landing, ledgerVars, viewVars, mem, forgotten>>
          /\ origin' = [origin EXCEPT ![op.key] = "repo"]
          /\ applied' = applied \cup {op} /\ pc' = "select"
      BY <1>14 DEF AssertCreated, Finish, Land
    <2>4. ASSUME NEW o \in applied', o.act = "Delete" PROVE origin'[o.key] # "repo"
      BY <2>1, <2>2, <2>3, <2>4, DeletedStaysUndeclared DEF AccountInv, TypeOK, Op
    <2>5. /\ Adds(desired', plan') = Adds(desired, plan)
          /\ Declared(desired') = Declared(desired) /\ Declared(landing') = Declared(landing)
      BY <2>3
    <2>. QED
      BY <2>1, <2>2, <2>3, <2>4, <2>5 DEF AccountInv, CreatesAreAccounted, TypeOK, Acting
  <1>15. CASE Readback \/ VerifyExact
    BY <1>15, AccountKept DEF Readback, VerifyExact, AccountInv, Acting, Steps
  <1>16. CASE ReadRow
    <2>1. PICK o \in todo :
            \/ live[o.key] = NoRow /\ Finish(o) /\ Land(o)
            \/ Finish(o) /\ Fail(o, TRUE)
            \/ Hold(o, "write") \/ Hold(o, "confirm")
      BY <1>16 DEF ReadRow
    <2>2. live[o.key] = NoRow => origin[o.key] # "repo"
      BY DEF AccountInv, TypeOK, Op
    <2>. QED
      BY <1>16, <2>1, <2>2, AccountKept
      DEF ReadRow, Finish, Land, Fail, Hold, Acting, Steps
  <1>17. CASE WriteRefused \/ Replay
    <2>1. op \in todo /\ (live[op.key] = NoRow => origin[op.key] # "repo")
      BY <1>17 DEF WriteRefused, Replay, OpsInv, Holding, AccountInv, TypeOK, Op
    <2>. QED
      BY <1>17, <2>1, AccountKept
      DEF WriteRefused, Replay, Finish, Land, Fail, Acting, Steps
  <1>18. CASE \/ SkipBlocked \/ StartNamespace \/ Defer \/ Withhold \/ CreateRefused
              \/ VerifyAbsent \/ VerifyUnproven \/ AssertRefused \/ ReadFails \/ Confirm
    BY <1>18, AccountKept
    DEF SkipBlocked, StartNamespace, Defer, Withhold, CreateRefused, VerifyAbsent,
        VerifyUnproven, AssertRefused, ReadFails, Confirm, Finish, Fail, Stop, Acting, Steps
  <1>19. CASE \/ EndNamespace \/ StartAdoption \/ AdoptionUnconfirmed \/ ReadCandidate
              \/ ClaimRefused \/ ClaimFails \/ EndAdoption \/ EndNamespaces
    BY <1>19, AccountKept
    DEF EndNamespace, StartAdoption, AdoptionUnconfirmed, ReadCandidate, ClaimRefused,
        ClaimFails, EndAdoption, EndNamespaces, Stop, Skip, Hold, Acting, Steps
  <1>20. CASE Claim
    BY <1>20, AccountKept DEF Claim, OpsInv, Holding, PlanInv, Acting, Steps
  <1>21. CASE Environment
    <2>1. UNCHANGED <<ledgerVars, viewVars, mem, progressVars, resultVars, historyVars>>
      BY <1>21
      DEF Environment, AdminPut, AdminDelete, SpecImport, LateCommit, OtherWrite, Disturb
    <2>2. PICK k \in Key : EnvironmentTouches(k)
      BY <1>21, EnvironmentTouchesOne
    <2>3. \A j \in Key : origin'[j] = "repo" \/ landing'[j] # Undeclared =>
                           origin[j] = "repo" \/ landing[j] # Undeclared
      BY <2>2 DEF EnvironmentTouches
    <2>4. \A j \in Key : origin'[j] = "repo" => live'[j] # NoRow
      BY <2>2 DEF EnvironmentTouches, AccountInv
    <2>5. Declared(landing') \subseteq Declared(landing) /\ Declared(desired') = Declared(desired)
      BY <2>1, <2>2 DEF EnvironmentTouches, Declared
    <2>6. pc \in {"read", "plan"} =>
             landing' = NoDoc /\ \A j \in Key : origin'[j] = "repo" => origin[j] = "repo"
      BY <2>2, <2>3 DEF EnvironmentTouches, AccountInv, NoDoc
    <2>7. pc \in {"verify", "assert"} /\ tag' => live'[op.key] # NoRow
      <3>1. pc \in {"verify", "assert"} => op.key \in Key
        BY DEF OpsInv, Holding, TypeOK, Op
      <3>. QED
        BY <2>2, <3>1 DEF EnvironmentTouches, AccountInv
    <2>8. ASSUME pc \in Acting, NEW o \in applied, o.act = "Delete"
          PROVE  origin'[o.key] # "repo"
      <3>1. o.key \in Key /\ o.key \notin Declared(desired) /\ origin[o.key] # "repo"
        BY <2>8, DeletedStaysUndeclared DEF AccountInv, TypeOK, Op
      <3>2. landing[o.key] = Undeclared
        BY <2>8, <3>1 DEF AccountInv, Acting, Declared
      <3>. QED
        BY <2>3, <3>1, <3>2
    <2>9. Adds(desired', plan') = Adds(desired, plan)
      BY <2>1
    <2>. QED
      BY <2>1, <2>3, <2>4, <2>5, <2>6, <2>7, <2>8, <2>9 DEF AccountInv, CreatesAreAccounted
  <1>22. CASE UNCHANGED vars
    BY <1>22 DEF vars, AccountInv, CreatesAreAccounted
  <1>. QED
    BY <1>1, <1>2, <1>3, <1>4, <1>5, <1>6, <1>7, <1>8, <1>9, <1>10, <1>11, <1>12,
       <1>13, <1>14, <1>15, <1>16, <1>17, <1>18, <1>19, <1>20, <1>21, <1>22
    DEF Next, RunStep

----------------------------------------------------------------------------
(* Deletes come last, and stay within the share the operator allows. *)

(***************************************************************************)
(* The large-prune guard passed what the run is about to delete, or the    *)
(* operator lifted it.                                                     *)
(***************************************************************************)
BoundInv ==
    pc \in Acting /\ TRUE \notin AllowLargePrune =>
        ~ExceedsThreshold(Cardinality(Deletes(desired, plan, mem.managed)),
                          PruneDenominator(plan, mem.managed, nss))

(***************************************************************************)
(* Every planned operation is ahead of the run, done, or explained by a    *)
(* failure; a planned write of the namespace at hand that is not ahead has *)
(* landed or failed; and a delete is taken up only when none is ahead or   *)
(* failed.                                                                 *)
(***************************************************************************)
OrderInv ==
    /\ pc \in {"idle", "read", "plan"} => bad = {} /\ ~stale
    /\ pc \in Acting /\ ~failed =>
         /\ bad = {} /\ ~stale
         /\ blocked \subseteq left
         /\ pc = "record" => left = {}
         /\ \A o \in Planned : \/ NsOf[o.key] \in left
                               \/ o \in applied
                               \/ pc \in Writing /\ o \in todo
    /\ pc \in Writing => \A o \in Planned :
          NsOf[o.key] = cur /\ o.act # "Delete" => o \in todo \cup applied \cup bad
    /\ pc \in {"confirm", "write", "replay"} /\ op.act = "Delete" =>
          \A o \in todo \cup bad : o.act = "Delete"

(* While it writes, a run's plan, ledger and namespaces stay what they are.*)
LEMMA ActingKept ==
    ASSUME [Next]_vars, pc' \in Acting
    PROVE  \/ Journal
           \/ pc \in Acting /\ UNCHANGED <<ledgerVars, viewVars, mem>>
  <1>1. CASE \/ Begin \/ ReadBackup \/ Abort \/ Reconcile \/ Refuse \/ Journal
             \/ Record \/ Publish \/ Crash \/ Lose
    BY <1>1
    DEF Begin, ReadBackup, Abort, Reconcile, Refuse, Record, Publish, Crash, Lose,
        Reset, Acting
  <1>2. CASE \/ SkipBlocked \/ StartNamespace \/ Defer \/ Withhold \/ CreateAccepted
             \/ CreateRefused \/ CreateUnanswered \/ Readback \/ VerifyAbsent
             \/ VerifyExact \/ VerifyUnproven \/ AssertCreated \/ AssertRefused
             \/ ReadRow \/ ReadFails \/ Confirm \/ WriteRow \/ WriteRefused
    BY <1>2
    DEF SkipBlocked, StartNamespace, Defer, Withhold, CreateAccepted, CreateRefused,
        CreateUnanswered, Readback, VerifyAbsent, VerifyExact, VerifyUnproven,
        AssertCreated, AssertRefused, ReadRow, ReadFails, Confirm, WriteRow,
        WriteRefused, Acting, Steps
  <1>3. CASE \/ WriteUnanswered \/ WriteCommittedThenRetried \/ WriteStopsRun \/ Replay
             \/ EndNamespace \/ StartAdoption \/ AdoptionUnconfirmed \/ ReadCandidate
             \/ Claim \/ ClaimRefused \/ ClaimFails \/ EndAdoption \/ EndNamespaces
    BY <1>3
    DEF WriteUnanswered, WriteCommittedThenRetried, WriteStopsRun, Replay,
        EndNamespace, StartAdoption, AdoptionUnconfirmed, ReadCandidate, Claim,
        ClaimRefused, ClaimFails, EndAdoption, EndNamespaces, Acting, Steps
  <1>4. CASE Environment
    BY <1>4
    DEF Environment, AdminPut, AdminDelete, SpecImport, LateCommit, OtherWrite, Disturb
  <1>5. CASE UNCHANGED vars
    BY <1>5 DEF vars
  <1>. QED
    BY <1>1, <1>2, <1>3, <1>4, <1>5 DEF Next, RunStep

(* The guard a run passed stays passed.                                    *)
LEMMA BoundNext ==
    ASSUME TypeOK, BoundInv, [Next]_vars
    PROVE  BoundInv'
  <1>1. CASE Journal
    <2>1. mem'.managed = mem.managed /\ UNCHANGED <<desired, plan, nss>>
      BY <1>1, JournalStep DEF Journal
    <2>2. TRUE \notin AllowLargePrune => ~PruneRefused(FALSE)
      BY <1>1, ApplyAssumption DEF Journal
    <2>. QED
      BY <2>1, <2>2 DEF BoundInv, PruneRefused
  <1>2. CASE pc \in Acting /\ UNCHANGED <<viewVars, mem>>
    BY <1>2 DEF BoundInv
  <1>. QED
    BY <1>1, <1>2, ActingKept DEF BoundInv

(* The order of the admin API puts every delete after every write.         *)
LEMMA DeletesRankLast ==
    ASSUME NEW o \in Op, NEW p \in Op, o.act = "Delete", p.act # "Delete"
    PROVE  ~(Rank(o) <= Rank(p))
  <1>1. KindOf[o.key] \in Kind /\ KindOf[p.key] \in Kind
    BY ApplyAssumption DEF Op
  <1>2. Rank(o) \in {3, 4, 5} /\ Rank(p) \in {0, 1, 2}
    BY <1>1 DEF Rank, Kind
  <1>. QED
    BY <1>2

(* The end of one operation.                                               *)
LEMMA OrderEnd ==
    ASSUME PlanInv, OrderInv, pc \in Writing, NEW o \in todo, Finish(o),
           UNCHANGED <<viewVars, mem>>,
           \/ Land(o) \/ Fail(o, TRUE) \/ Fail(o, FALSE) \/ Fail(o, stale)
           \/ o.act = "Delete" /\ failed /\ UNCHANGED resultVars
    PROVE  OrderInv'
  <1>1. Planned' = Planned
    BY DEF Planned
  <1>2. /\ pc' = "select" /\ todo' = todo \ {o} /\ UNCHANGED <<left, cur>>
        /\ pc \in Acting
    BY DEF Finish, Writing, Acting, Steps
  <1>3. ~failed' => ~failed /\ Land(o)
    BY DEF Land, Fail
  <1>4. \/ o \in applied' \cup bad'
        \/ o.act = "Delete"
    BY DEF Land, Fail
  <1>5. applied \subseteq applied' /\ bad \subseteq bad'
    BY DEF Land, Fail
  <1>6. ~failed' => /\ bad' = {} /\ ~stale' /\ blocked' \subseteq left'
                    /\ \A p \in Planned : NsOf[p.key] \in left' \/ p \in applied' \/ p \in todo'
    BY <1>2, <1>3, <1>5 DEF OrderInv, Land
  <1>7. \A p \in Planned : NsOf[p.key] = cur' /\ p.act # "Delete" =>
                               p \in todo' \cup applied' \cup bad'
    BY <1>2, <1>4, <1>5 DEF OrderInv
  <1>. QED
    BY <1>1, <1>2, <1>6, <1>7 DEF OrderInv, Writing

(* A step within one operation.                                            *)
LEMMA OrderHold ==
    ASSUME OrderInv, pc \in Writing, pc' \in Writing,
           UNCHANGED <<viewVars, mem, todo, left, cur, resultVars>>,
           pc' \in {"confirm", "write", "replay"} /\ op'.act = "Delete" =>
               \A o \in todo \cup bad : o.act = "Delete"
    PROVE  OrderInv'
  <1>1. Planned' = Planned
    BY DEF Planned
  <1>. QED
    BY <1>1 DEF OrderInv, Writing, Acting, Steps

(* A step that ends the run with an error.                                 *)
LEMMA OrderStop ==
    ASSUME failed', pc' \notin Writing \cup {"idle", "read", "plan"}
    PROVE  OrderInv'
  BY DEF OrderInv, Writing

(* A step outside the writing of a namespace.                              *)
LEMMA OrderOutside ==
    ASSUME OrderInv, pc \in Acting, pc' \in Acting \ Writing,
           pc \in Writing => todo = {}, pc' = "record" => left = {},
           UNCHANGED <<viewVars, mem, left>>, applied \subseteq applied',
           bad' \subseteq bad, stale' => stale, ~failed' => ~failed
    PROVE  OrderInv'
  <1>1. Planned' = Planned
    BY DEF Planned
  <1>. QED
    BY <1>1 DEF OrderInv, Writing, Acting

(* Every step keeps the order of the writes.                               *)
LEMMA OrderNext ==
    ASSUME TypeOK, OpsInv, PlanInv, OrderInv, [Next]_vars
    PROVE  OrderInv'
  <1>1. CASE Begin \/ ReadBackup \/ Reconcile
    BY <1>1 DEF Begin, ReadBackup, Reconcile, OrderInv, Writing, Acting
  <1>2. CASE Abort \/ Refuse \/ Crash
    BY <1>2, OrderStop DEF Abort, Refuse, Crash, Writing
  <1>3. CASE Journal
    <2>1. /\ pc = "plan" /\ pc' = "namespaces" /\ left' = nss /\ mem'.managed = mem.managed
          /\ UNCHANGED <<viewVars, resultVars>>
      BY <1>3, JournalStep DEF Journal
    <2>2. blocked \subseteq nss
      BY <2>1 DEF PlanInv, SpecConflicts, KeysIn
    <2>3. \A o \in Planned' : NsOf[o.key] \in nss
      <3>1. ASSUME NEW o \in Planned' PROVE o.key \in Live(plan) \cup Declared(desired)
        BY <2>1, PlannedWritesAreDeclared, PlannedDeletes DEF Planned
      <3>. QED
        BY <2>1, <3>1 DEF PlanInv, KeysIn
    <2>. QED
      BY <2>1, <2>2, <2>3 DEF OrderInv, Writing, Acting
  <1>4. CASE SkipBlocked
    <2>1. Planned' = Planned
      BY <1>4 DEF SkipBlocked, Planned
    <2>. QED
      BY <1>4, <2>1 DEF SkipBlocked, OrderInv, Writing, Acting
  <1>5. CASE StartNamespace
    <2>1. PICK ns \in left \ blocked :
            /\ cur' = ns /\ left' = left \ {ns}
            /\ todo' = {o \in PlannedOps(desired, plan, mem) : NsOf[o.key] = ns}
      BY <1>5 DEF StartNamespace
    <2>2. Planned' = Planned
      BY <1>5 DEF StartNamespace, Planned
    <2>3. /\ pc = "namespaces" /\ pc \in Acting /\ pc' = "select" /\ bad' = {} /\ ~stale'
          /\ UNCHANGED <<blocked, applied, failed>>
      BY <1>5 DEF StartNamespace, Acting, Steps
    <2>4. \A o \in Planned : NsOf[o.key] = cur' => o \in todo'
      BY <2>1 DEF Planned
    <2>. QED
      BY <2>1, <2>2, <2>3, <2>4 DEF OrderInv, Writing
  <1>6. CASE Defer
    <2>1. PICK o \in todo : Deferred(o) /\ Finish(o)
      BY <1>6 DEF Defer, Foremost
    <2>2. o.act = "Delete" /\ (stale \/ bad # {}) /\ pc \in Acting
      BY <1>6, <2>1 DEF Defer, Deferred, WritesFailed, Acting, Steps
    <2>3. failed
      BY <2>2 DEF OrderInv
    <2>. QED
      BY <1>6, <2>1, <2>2, <2>3, OrderEnd DEF Defer, Writing
  <1>7. CASE Withhold \/ CreateAccepted \/ CreateRefused
    BY <1>7, OrderEnd
    DEF Withhold, CreateAccepted, CreateRefused, Foremost, Writing
  <1>8. CASE CreateUnanswered \/ Readback \/ VerifyExact
    BY <1>8, OrderHold DEF CreateUnanswered, Readback, VerifyExact, Writing
  <1>9. CASE VerifyAbsent \/ AssertCreated \/ WriteRow \/ WriteRefused \/ WriteUnanswered
    <2>1. op \in todo
      BY <1>9
      DEF VerifyAbsent, AssertCreated, WriteRow, WriteRefused, WriteUnanswered, OpsInv, Holding
    <2>. QED
      BY <1>9, <2>1, OrderEnd
      DEF VerifyAbsent, AssertCreated, WriteRow, WriteRefused, WriteUnanswered, Writing
  <1>10. CASE Replay
    <2>1. op \in todo /\ (Land(op) \/ Fail(op, TRUE) \/ Fail(op, FALSE))
      BY <1>10 DEF Replay, OpsInv, Holding, Fail
    <2>. QED
      BY <1>10, <2>1, OrderEnd DEF Replay, Writing
  <1>11. CASE VerifyUnproven \/ AssertRefused \/ WriteStopsRun
    BY <1>11, OrderStop DEF VerifyUnproven, AssertRefused, WriteStopsRun, Stop, Writing
  <1>12. CASE ReadRow
    <2>1. PICK o \in todo : /\ Sendable(o)
                            /\ \/ Finish(o) /\ (Land(o) \/ Fail(o, TRUE))
                               \/ Hold(o, "write") \/ Hold(o, "confirm")
      BY <1>12 DEF ReadRow
    <2>2. ASSUME o.act = "Delete" PROVE \A p \in todo \cup bad : p.act = "Delete"
      BY <2>1, <2>2, DeletesRankLast DEF Sendable, Foremost, Deferred, WritesFailed, TypeOK
    <2>. QED
      BY <1>12, <2>1, <2>2, OrderEnd, OrderHold DEF ReadRow, Hold, Writing
  <1>13. CASE ReadFails
    <2>1. pc = "confirm" => op \in todo
      BY DEF OpsInv, Holding
    <2>. QED
      BY <1>13, <2>1, OrderEnd, OrderStop DEF ReadFails, Stop, Writing
  <1>14. CASE Confirm
    <2>1. op \in todo
      BY <1>14 DEF Confirm, OpsInv, Holding
    <2>. QED
      BY <1>14, <2>1, OrderEnd, OrderHold DEF Confirm, OrderInv, Writing
  <1>15. CASE WriteCommittedThenRetried
    BY <1>15, OrderHold DEF WriteCommittedThenRetried, OrderInv, Writing
  <1>16. CASE \/ EndNamespace \/ StartAdoption \/ ReadCandidate \/ Claim \/ ClaimRefused
              \/ EndAdoption \/ EndNamespaces
    BY <1>16, OrderOutside
    DEF EndNamespace, StartAdoption, ReadCandidate, Claim, ClaimRefused, EndAdoption,
        EndNamespaces, Hold, Skip, Writing, Acting, Steps
  <1>17. CASE AdoptionUnconfirmed \/ ClaimFails
    BY <1>17, OrderOutside, OrderStop
    DEF AdoptionUnconfirmed, ClaimFails, Stop, Writing, Acting, Steps
  <1>18. CASE Record
    BY <1>18 DEF Record, OrderInv, Writing, Acting
  <1>19. CASE Publish \/ Lose
    BY <1>19 DEF Publish, Lose, Reset, OrderInv, Writing, Acting
  <1>20. CASE Environment
    <2>1. UNCHANGED <<ledgerVars, viewVars, mem, progressVars, resultVars>>
      BY <1>20
      DEF Environment, AdminPut, AdminDelete, SpecImport, LateCommit, OtherWrite, Disturb
    <2>2. Planned' = Planned
      BY <2>1 DEF Planned
    <2>. QED
      BY <2>1, <2>2 DEF OrderInv
  <1>21. CASE UNCHANGED vars
    <2>1. Planned' = Planned
      BY <1>21 DEF vars, Planned
    <2>. QED
      BY <1>21, <2>1 DEF vars, OrderInv
  <1>. QED
    BY <1>1, <1>2, <1>3, <1>4, <1>5, <1>6, <1>7, <1>8, <1>9, <1>10, <1>11, <1>12,
       <1>13, <1>14, <1>15, <1>16, <1>17, <1>18, <1>19, <1>20, <1>21
    DEF Next, RunStep

----------------------------------------------------------------------------
(* A run that reports success leaves its ledger settled. *)

(***************************************************************************)
(* After reconciliation nothing is pending in the run's namespaces but     *)
(* what is declared, and nothing managed but what is declared or live.     *)
(***************************************************************************)
SettleInv ==
    /\ pc \in Acting \cup {"plan"} =>
         /\ mem.pending \cap KeysIn(nss) \subseteq Declared(desired)
         /\ mem.managed \cap KeysIn(nss) \subseteq Declared(desired) \cup Live(plan)
    /\ CleanRunSettlesLedger

(* A pending key the repository declares is written, conflicts apart.      *)
LEMMA PendingIsPlanned ==
    ASSUME NEW d \in Document, NEW v \in View, NEW l \in LedgerType,
           NEW k \in l.pending \cap Declared(d), k \notin SpecOwned(v)
    PROVE  \E o \in PlannedOps(d, v, l) : o.key = k /\ o.act \in {"Add", "Modify"}
  <1>. DEFINE D == Diff(d, v, l.managed)
  <1>1. k \in Key
    BY DEF Declared
  <1>2. CASE k \notin Live(v)
    <2>1. [key |-> k, act |-> "Add"] \in PlannedOps(d, v, l)
      BY <1>2 DEF PlannedOps, Diff, Adds
    <2>. QED
      BY <2>1
  <1>3. CASE k \in Live(v) /\ v[k].content # d[k]
    <2>1. [key |-> k, act |-> "Modify"] \in PlannedOps(d, v, l)
      BY <1>3 DEF PlannedOps, Diff, Modifies
    <2>. QED
      BY <2>1
  <1>4. CASE k \in Live(v) /\ v[k].content = d[k]
    <2>1. v[k] \in Row /\ <<d[k], v[k].content>> \in Carried
      BY <1>1, <1>4, DiffAssumption DEF View, Live, Row
    <2>2. ASSUME NEW o \in D, o.key = k PROVE FALSE
      BY <1>4, <2>2 DEF Diff, Adds, Modifies, Deletes
    <2>3. k \notin KeysOf(D, Action)
      BY <2>2 DEF KeysOf
    <2>4. [key |-> k, act |-> "Modify"] \in PendingAssertions(d, v, l)
      BY <1>4, <2>1, <2>3 DEF PendingAssertions
    <2>. QED
      BY <2>4 DEF PlannedOps
  <1>. QED
    BY <1>2, <1>3, <1>4

(* A managed row nobody declares or provisioned is deleted.                *)
LEMMA OrphanIsPlanned ==
    ASSUME NEW d, NEW v, NEW l, NEW k \in l.managed,
           k \in Live(v) \ (Declared(d) \cup SpecOwned(v))
    PROVE  [key |-> k, act |-> "Delete"] \in PlannedOps(d, v, l)
  BY DiffAssumption DEF PlannedOps, Diff, Deletes

(* What recording leaves pending was not written, and what it leaves       *)
(* managed was not deleted or is declared.                                 *)
LEMMA RecordSettles ==
    ASSUME NEW l \in LedgerType, NEW ops, NEW declared
    PROVE  /\ \A k \in RecordOps(l, ops, declared).pending :
                 k \in l.pending /\ ~(k \in declared /\ k \in KeysOf(ops, {"Add", "Modify"}))
           /\ \A k \in RecordOps(l, ops, declared).managed :
                 k \in declared \/ (k \in l.managed /\ k \notin KeysOf(ops, {"Delete"}))
  BY DEF RecordOps, LedgerType

(* Every step keeps the ledger on its way to being settled.                *)
LEMMA SettleNext ==
    ASSUME TypeOK, PlanInv, OrderInv, SettleInv, [Next]_vars
    PROVE  SettleInv'
  <1>1. CASE Reconcile
    <2>1. /\ mem' = ReconcileAbsent(ReconcilePending(mem, Declared(desired), nss),
                                    Declared(desired), Live(plan), nss)
          /\ UNCHANGED <<desired, plan, nss>> /\ pc' = "plan"
      BY <1>1 DEF Reconcile
    <2>2. /\ mem'.pending \cap KeysIn(nss) \subseteq Declared(desired)
          /\ mem'.managed \cap KeysIn(nss) \subseteq Declared(desired) \cup Live(plan)
      BY <2>1 DEF ReconcileAbsent, ReconcilePending, KeysIn, TypeOK, LedgerType
    <2>. QED
      BY <2>1, <2>2 DEF SettleInv, CleanRunSettlesLedger
  <1>2. CASE Journal
    <2>1. UNCHANGED <<desired, plan, nss>> /\ pc = "plan" /\ pc' = "namespaces"
      BY <1>2 DEF Journal
    <2>2. /\ mem'.managed = mem.managed
          /\ mem'.pending \subseteq mem.pending \cup Declared(desired)
      BY <1>2, JournalStep DEF Adds
    <2>. QED
      BY <2>1, <2>2 DEF SettleInv, CleanRunSettlesLedger
  <1>3. CASE Record
    <2>1. /\ pc = "record" /\ pc \in Acting /\ pc' = "publish" /\ disk' = mem'
          /\ mem' = RecordOps(mem, applied, Declared(desired))
          /\ UNCHANGED <<viewVars, failed>>
      BY <1>3 DEF Record, Acting, Steps
    <2>2. ASSUME ~failed
          PROVE  /\ disk'.pending \cap KeysIn(nss) = {}
                 /\ disk'.managed \cap KeysIn(nss) \subseteq Declared(desired) \cup SpecOwned(plan)
      <3>1. left = {} /\ blocked = {} /\ \A o \in Planned : o \in applied
        BY <2>1, <2>2 DEF OrderInv, Writing
      <3>2. Declared(desired) \cap SpecOwned(plan) = {}
        BY <2>1, <3>1 DEF PlanInv, SpecConflicts
      <3>3. ASSUME NEW k \in disk'.pending, k \in KeysIn(nss) PROVE FALSE
        <4>1. k \in mem.pending /\ k \in Declared(desired) /\ k \notin SpecOwned(plan)
          BY <2>1, <3>2, <3>3, RecordSettles DEF SettleInv, TypeOK
        <4>2. PICK o \in Planned : o.key = k /\ o.act \in {"Add", "Modify"}
          BY <4>1, PendingIsPlanned DEF TypeOK, Planned
        <4>3. k \in KeysOf(applied, {"Add", "Modify"})
          BY <3>1, <4>2 DEF KeysOf
        <4>. QED
          BY <2>1, <3>3, <4>1, <4>3, RecordSettles DEF TypeOK
      <3>4. ASSUME NEW k \in disk'.managed, k \in KeysIn(nss),
                   k \notin Declared(desired) \cup SpecOwned(plan)
            PROVE  FALSE
        <4>1. k \in mem.managed /\ k \notin KeysOf(applied, {"Delete"})
          BY <2>1, <3>4, RecordSettles DEF TypeOK
        <4>2. k \in Live(plan)
          BY <2>1, <3>4, <4>1 DEF SettleInv
        <4>3. [key |-> k, act |-> "Delete"] \in applied
          BY <3>1, <3>4, <4>1, <4>2, OrphanIsPlanned DEF Planned
        <4>. QED
          BY <4>1, <4>3 DEF KeysOf
      <3>. QED
        BY <3>3, <3>4
    <2>. QED
      BY <2>1, <2>2 DEF SettleInv, CleanRunSettlesLedger, Acting
  <1>4. CASE Begin \/ ReadBackup \/ Publish \/ Lose
    BY <1>4 DEF Begin, ReadBackup, Publish, Lose, Reset, SettleInv, CleanRunSettlesLedger, Acting
  <1>5. CASE Abort \/ Refuse \/ Crash
    BY <1>5 DEF Abort, Refuse, Crash, SettleInv, CleanRunSettlesLedger, Acting
  <1>6. CASE Environment \/ UNCHANGED vars
    BY <1>6
    DEF Environment, AdminPut, AdminDelete, SpecImport, LateCommit, OtherWrite, Disturb,
        SettleInv, CleanRunSettlesLedger, vars
  <1>7. CASE pc' \in Acting
    BY <1>2, <1>7, ActingKept DEF SettleInv, CleanRunSettlesLedger, Acting
  <1>8. CASE \/ SkipBlocked \/ StartNamespace \/ Defer \/ Withhold \/ CreateAccepted
             \/ CreateRefused \/ CreateUnanswered \/ Readback \/ VerifyAbsent
             \/ VerifyExact \/ VerifyUnproven \/ AssertCreated \/ AssertRefused
             \/ ReadRow \/ ReadFails \/ Confirm \/ WriteRow \/ WriteRefused
    <2>1. pc' \in Acting
      BY <1>8
      DEF SkipBlocked, StartNamespace, Defer, Withhold, CreateAccepted, CreateRefused,
          CreateUnanswered, Readback, VerifyAbsent, VerifyExact, VerifyUnproven,
          AssertCreated, AssertRefused, ReadRow, ReadFails, Confirm, WriteRow,
          WriteRefused, Finish, Stop, Hold, Acting, Steps
    <2>. QED
      BY <1>7, <2>1
  <1>9. CASE \/ WriteUnanswered \/ WriteCommittedThenRetried \/ WriteStopsRun \/ Replay
             \/ EndNamespace \/ StartAdoption \/ AdoptionUnconfirmed \/ ReadCandidate
             \/ Claim \/ ClaimRefused \/ ClaimFails \/ EndAdoption \/ EndNamespaces
    <2>1. pc' \in Acting
      BY <1>9
      DEF WriteUnanswered, WriteCommittedThenRetried, WriteStopsRun, Replay,
          EndNamespace, StartAdoption, AdoptionUnconfirmed, ReadCandidate, Claim,
          ClaimRefused, ClaimFails, EndAdoption, EndNamespaces,
          Finish, Stop, Hold, Skip, Acting, Steps
    <2>. QED
      BY <1>7, <2>1
  <1>. QED
    BY <1>1, <1>2, <1>3, <1>4, <1>5, <1>6, <1>8, <1>9 DEF Next, RunStep

----------------------------------------------------------------------------
(* The theorems. *)

RunIInv == FreshIInv /\ PlanInv /\ AccountInv /\ BoundInv /\ OrderInv /\ SettleInv

(* The invariant holds initially and every step keeps it.                  *)
LEMMA RunInductive == Spec => []RunIInv
  <1>1. Init => PlanInv /\ AccountInv /\ BoundInv /\ OrderInv /\ SettleInv
    <2>1. SUFFICES ASSUME Init PROVE PlanInv /\ AccountInv /\ BoundInv /\ OrderInv /\ SettleInv
      OBVIOUS
    <2>2. PlanInv /\ BoundInv /\ OrderInv /\ SettleInv
      BY <2>1 DEF Init, PlanInv, BoundInv, OrderInv, SettleInv, CleanRunSettlesLedger,
                  Acting, Writing
    <2>3. AccountInv
      BY <2>1 DEF Init, AccountInv, CreatesAreAccounted, NoDoc, Acting
    <2>. QED
      BY <2>2, <2>3
  <1>2. /\ FreshIInv /\ PlanInv /\ AccountInv /\ BoundInv /\ OrderInv /\ SettleInv
        /\ [Next]_vars
        => PlanInv' /\ AccountInv' /\ BoundInv' /\ OrderInv' /\ SettleInv'
    BY PlanNext, AccountNext, BoundNext, OrderNext, SettleNext DEF FreshIInv, IInv
  <1>. QED
    BY <1>1, <1>2, FreshInductive, PTL DEF Spec, RunIInv

(***************************************************************************)
(* Whatever crashes, times out or is lost, every row the repository created*)
(* and every create in flight is in the saved ledger, or was given up with *)
(* a warning or with its runner (the write-ahead journal of src/state.rs). *)
(***************************************************************************)
THEOREM EveryCreateIsAccounted == Spec => []CreatesAreAccounted
  <1>1. RunIInv => CreatesAreAccounted
    BY DEF RunIInv, AccountInv
  <1>. QED
    BY <1>1, RunInductive, PTL

(***************************************************************************)
(* The rows a run has deleted never exceed the configured share of what it *)
(* could have deleted, unless --allow-large-prune is given.                *)
(***************************************************************************)
THEOREM PruningIsAlwaysBounded == Spec => []PruneIsBounded
  <1>. DEFINE nsManaged == {k \in disk.managed : NsOf[k] \in nss}
              nsLive    == {k \in Live(plan) : NsOf[k] \in nss /\
                                               (k \in SpecOwned(plan) => PruneSpecOwned)}
              prunable  == IF Mode = "shared" THEN nsManaged ELSE nsLive
              deleted   == {k \in Key : \E o \in applied : o.key = k /\ o.act = "Delete"}
              planned   == Deletes(desired, plan, mem.managed)
  <1>1. ASSUME RunIInv, pc \in Steps \ {"idle", "publish"}, TRUE \notin AllowLargePrune
        PROVE  Cardinality(deleted) * 100 <= Threshold * Cardinality(prunable)
    <2>1. prunable \in SUBSET Key /\ IsFiniteSet(Key)
      BY <1>1, NsOfAssumption DEF RunIInv, FreshIInv, IInv, TypeOK, LedgerType, Live
    <2>2. /\ IsFiniteSet(prunable) /\ Cardinality(prunable) \in Nat
          /\ \A S \in SUBSET prunable : IsFiniteSet(S) /\ Cardinality(S) \in Nat
                                       /\ Cardinality(S) <= Cardinality(prunable)
      BY <2>1, FS_Subset, FS_CardinalityType
    <2>3. Threshold \in Nat
      BY DiffAssumption
    <2>4. CASE applied = {}
      <3>1. deleted = {} /\ Cardinality({}) = 0
        BY <2>4, FS_EmptySet
      <3>2. Threshold * Cardinality(prunable) >= 0
        BY <2>2, <2>3
      <3>. QED
        BY <3>1, <3>2
    <2>5. CASE pc \in Acting
      <3>1. mem = disk /\ Live(plan) \subseteq KeysIn(nss)
        BY <1>1 DEF RunIInv, PlanInv
      <3>2. deleted \subseteq planned
        BY <1>1, <2>5, PlannedDeletes DEF RunIInv, PlanInv, Planned
      <3>3. planned \subseteq prunable
        BY <3>1, DiffAssumption DEF Deletes, KeysIn
      <3>4. PruneDenominator(plan, mem.managed, nss) = Cardinality(prunable)
        <4>1. CASE Mode = "shared"
          <5>1. mem.managed \cap KeysIn(nss) = nsManaged
            BY <1>1, <3>1 DEF KeysIn, RunIInv, FreshIInv, IInv, TypeOK, LedgerType
          <5>. QED
            BY <4>1, <5>1 DEF PruneDenominator
        <4>2. CASE Mode # "shared"
          <5>1. {k \in Live(plan) \cap KeysIn(nss) : PruneSpecOwned \/ k \notin SpecOwned(plan)}
                    = nsLive
            BY DEF KeysIn, Live
          <5>. QED
            BY <4>2, <5>1 DEF PruneDenominator
        <4>. QED
          BY <4>1, <4>2
      <3>5. ~ExceedsThreshold(Cardinality(planned), Cardinality(prunable))
        BY <1>1, <2>5, <3>4 DEF RunIInv, BoundInv
      <3>6. IsFiniteSet(planned) /\ Cardinality(planned) \in Nat /\ Cardinality(deleted) \in Nat
            /\ Cardinality(planned) <= Cardinality(prunable)
        BY <2>2, <3>2, <3>3
      <3>7. Cardinality(deleted) <= Cardinality(planned)
        BY <3>2, <3>6, FS_Subset
      <3>. QED
        BY <2>2, <2>3, <3>5, <3>6, <3>7 DEF ExceedsThreshold
    <2>. QED
      BY <1>1, <2>4, <2>5 DEF RunIInv, PlanInv, Acting
  <1>2. RunIInv => PruneIsBounded
    BY <1>1 DEF PruneIsBounded
  <1>. QED
    BY <1>2, RunInductive, PTL

(***************************************************************************)
(* When a delete goes out, every planned create and update of its          *)
(* namespace has landed: nothing is removed before its replacement stands. *)
(***************************************************************************)
THEOREM DeletesAlwaysAwaitWrites == Spec => DeletesComeLast
  <1>1. ASSUME RunIInv, [Next]_vars, NEW k \in Key, Writes(k), live'[k] = NoRow,
               NEW o \in PlannedOps(desired, plan, mem),
               o.act # "Delete", NsOf[o.key] = NsOf[k]
        PROVE  o \in applied
    <2>1. pc = "write" /\ op \in todo /\ op.key = k
      BY <1>1, WriteSteps DEF RunIInv, FreshIInv, IInv
    <2>2. op.act = "Delete"
      BY <1>1, RunDeletes DEF RunIInv, FreshIInv
    <2>3. NsOf[k] = cur /\ o \in todo \cup applied \cup bad
      BY <1>1, <2>1 DEF RunIInv, PlanInv, OrderInv, Planned, Writing
    <2>. QED
      BY <1>1, <2>1, <2>2, <2>3 DEF RunIInv, OrderInv
  <1>2. RunIInv /\ [Next]_vars => [DeletesAwaitWrites]_vars
    BY <1>1 DEF DeletesAwaitWrites
  <1>. QED
    BY <1>2, RunInductive, PTL DEF Spec, DeletesComeLast

(***************************************************************************)
(* A run that reports success leaves no create pending in its namespaces,  *)
(* and manages nothing there but what is declared or held back.            *)
(***************************************************************************)
THEOREM SuccessSettlesLedger == Spec => []CleanRunSettlesLedger
  <1>1. RunIInv => CleanRunSettlesLedger
    BY DEF RunIInv, SettleInv
  <1>. QED
    BY <1>1, RunInductive, PTL

----------------------------------------------------------------------------
(* A run nothing disturbs converges. *)

(***************************************************************************)
(* What the repository declares, what is in flight and every consumer's    *)
(* row is in the form /backup shows.                                       *)
(***************************************************************************)
NormInv ==
    /\ \A k \in Declared(desired) : Norm[desired[k]] = desired[k]
    /\ \A k \in Declared(landing) : Norm[landing[k]] = landing[k]
    /\ \A k \in Consumers \cap Live(live) : Norm[live[k].content] = live[k].content

(* Row k is the row the run's backup showed.                               *)
Stands(k) == Backup(live)[k] = plan[k]

(* The row of an operation is as the operation leaves it.                  *)
Done(o) ==
    IF o.act = "Delete" THEN live[o.key] = NoRow
    ELSE /\ live[o.key] # NoRow
         /\ Archival(live[o.key]) = [content |-> desired[o.key], spec |-> Unowned]

(***************************************************************************)
(* A declared row that already matched is claimed, is about to be, or was  *)
(* stored before a normalization rule, which shared mode does not claim.   *)
(***************************************************************************)
Adopting ==
    \A k \in AdoptionCandidates(desired, plan, mem) :
        \/ NsOf[k] \in left
        \/ pc \in Writing /\ NsOf[k] = cur
        \/ pc \in {"adopt", "claim"} /\ k \in KeysOf(todo, {"Modify"})
        \/ k \in KeysOf(applied, {"Add", "Modify"})
        \/ Mode = "shared" /\ live[k].content # desired[k]

(***************************************************************************)
(* While nothing disturbs it, a run fails at a blocked namespace only;     *)
(* every row it read is the row it planned against, or as the operation    *)
(* that landed on it leaves it; what it still has to do has not been done; *)
(* and its tags and evidence stand.                                        *)
(***************************************************************************)
Smooth ==
    /\ pc \notin {"readback", "verify", "assert", "replay"}
    /\ failed => pc \in Acting /\ blocked # {}
    /\ bad = {} /\ ~stale
    /\ landing = NoDoc
    /\ \A k \in KeysIn(nss) : \/ pc = "read" /\ NsOf[k] \in left
                             \/ k \in KeysOf(applied, Action)
                             \/ Stands(k)
    /\ \A o \in applied : Done(o) /\ NsOf[o.key] \notin left
    /\ pc \in Writing => \A o \in todo : o.key \notin KeysOf(applied, Action)
    /\ pc \in {"confirm", "write", "claim"} => tag
    /\ Consumers \cap Live(plan) \subseteq evidence
    /\ pc \in {"adopt", "claim"} =>
         Mode = "shared" /\ \A o \in todo : Done(o) /\ o.key \in confirmed
    /\ blocked = {} /\ pc \in Acting => Adopting

CalmInv ==
    /\ CalmRunConverges /\ DeclaredRowsAreManaged
    /\ pc \notin {"idle", "publish"} /\ calm => Smooth

(* Every step keeps what is declared and the consumers in normal form.     *)
LEMMA NormNext ==
    ASSUME TypeOK, OpsInv, NormInv, [Next]_vars
    PROVE  NormInv'
  <1>0. ASSUME NEW k \in Key, NEW r, live' = [live EXCEPT ![k] = r],
               r = NoRow \/ k \notin Consumers \/ Norm[r.content] = r.content,
               UNCHANGED <<desired, landing>>
        PROVE  NormInv'
    BY <1>0 DEF NormInv, TypeOK, View, Live, Declared
  <1>1. ASSUME UNCHANGED <<live, landing>>, desired' = desired \/ desired' = NoDoc
        PROVE  NormInv'
    BY <1>1 DEF NormInv, Declared, Live, NoDoc
  <1>2. ASSUME NEW o \in todo, o.act = "Add", Insert(o.key), UNCHANGED desired
        PROVE  NormInv'
    <2>1. o.key \in Key /\ o.key \in Declared(desired)
      BY <1>2 DEF OpsInv, TypeOK, Op
    <2>2. Norm[desired[o.key]] = desired[o.key]
      BY <2>1 DEF NormInv
    <2>. QED
      BY <1>0, <1>2, <2>1, <2>2 DEF Insert
  <1>3. ASSUME op \in todo, Store(op), UNCHANGED desired
        PROVE  NormInv'
    <2>1. op.key \in Key /\ (op.act # "Delete" => op.key \in Declared(desired))
      BY <1>3 DEF OpsInv, TypeOK, Op
    <2>2. op.act # "Delete" => Norm[desired[op.key]] = desired[op.key]
      BY <2>1 DEF NormInv
    <2>3. CASE op.act = "Delete"
      BY <1>0, <1>3, <2>1, <2>3 DEF Store
    <2>4. CASE op.act # "Delete"
      <3>1. live' = [live EXCEPT ![op.key] =
                        [content |-> desired[op.key], spec |-> live[op.key].spec]]
        BY <1>3, <2>4 DEF Store
      <3>. QED
        BY <1>0, <1>3, <2>1, <2>2, <2>4, <3>1 DEF Store
    <2>. QED
      BY <2>3, <2>4
  <1>4. CASE Begin
    <2>1. PICK d \in Documents :
            desired' = [k \in Key |-> IF NsOf[k] \in nss' THEN d[k] ELSE Undeclared]
      BY <1>4 DEF Begin
    <2>2. \A k \in Declared(desired') : desired'[k] = d[k] /\ k \in Declared(d)
      BY <2>1 DEF Declared
    <2>3. \A k \in Declared(desired') : Norm[desired'[k]] = desired'[k]
      BY <2>2, NormalFormAssumption
    <2>. QED
      BY <1>4, <2>3 DEF Begin, NormInv
  <1>5. CASE CreateAccepted
    BY <1>2, <1>5 DEF CreateAccepted
  <1>6. CASE CreateUnanswered
    <2>1. PICK o \in todo :
            /\ o.act = "Add"
            /\ \/ Insert(o.key)
               \/ /\ landing' = [landing EXCEPT ![o.key] = desired[o.key]]
                  /\ UNCHANGED <<live, origin>>
               \/ UNCHANGED gatewayVars
      BY <1>6 DEF CreateUnanswered
    <2>2. o.key \in Declared(desired) /\ UNCHANGED desired
      BY <1>6, <2>1 DEF OpsInv, CreateUnanswered
    <2>3. CASE /\ landing' = [landing EXCEPT ![o.key] = desired[o.key]]
               /\ UNCHANGED <<live, origin>>
      BY <2>2, <2>3 DEF NormInv, Declared, TypeOK, Document
    <2>. QED
      BY <1>1, <1>2, <2>1, <2>2, <2>3
  <1>7. CASE WriteStopsRun
    <2>1. pc = "write" => op \in todo
      BY DEF OpsInv, Holding
    <2>. QED
      BY <1>1, <1>2, <1>3, <1>7, <2>1 DEF WriteStopsRun
  <1>8. CASE WriteRow \/ WriteUnanswered \/ WriteCommittedThenRetried
    <2>1. op \in todo
      BY <1>8 DEF WriteRow, WriteUnanswered, WriteCommittedThenRetried, OpsInv, Holding
    <2>. QED
      BY <1>1, <1>3, <1>8, <2>1 DEF WriteRow, WriteUnanswered, WriteCommittedThenRetried
  <1>9. CASE Publish \/ Lose
    BY <1>1, <1>9 DEF Publish, Lose, Reset
  <1>10. CASE \/ ReadBackup \/ Abort \/ Reconcile \/ Refuse \/ Journal
              \/ SkipBlocked \/ StartNamespace \/ Defer \/ Withhold \/ CreateRefused
              \/ Readback \/ VerifyAbsent \/ VerifyExact \/ VerifyUnproven
              \/ AssertCreated \/ AssertRefused
    BY <1>1, <1>10
    DEF ReadBackup, Abort, Reconcile, Refuse, Journal, SkipBlocked,
        StartNamespace, Defer, Withhold, CreateRefused, Readback, VerifyAbsent,
        VerifyExact, VerifyUnproven, AssertCreated, AssertRefused
  <1>11. CASE \/ ReadRow \/ ReadFails \/ Confirm \/ WriteRefused \/ Replay
              \/ EndNamespace \/ StartAdoption
              \/ AdoptionUnconfirmed \/ ReadCandidate \/ Claim \/ ClaimRefused
              \/ ClaimFails \/ EndAdoption \/ EndNamespaces \/ Record \/ Crash
    BY <1>1, <1>11
    DEF ReadRow, ReadFails, Confirm, WriteRefused, Replay, EndNamespace,
        StartAdoption, AdoptionUnconfirmed, ReadCandidate, Claim,
        ClaimRefused, ClaimFails, EndAdoption, EndNamespaces, Record, Crash
  <1>12. CASE AdminPut
    <2>1. PICK k \in Key, c \in Written :
            live' = [live EXCEPT ![k] =
                  [content |-> c, spec |-> IF live[k] = NoRow THEN Unowned ELSE live[k].spec]]
      BY <1>12 DEF AdminPut
    <2>2. UNCHANGED <<desired, landing>> /\ Norm[c] = c
      BY <1>12, NormalFormAssumption DEF AdminPut, OtherWrite, Disturb
    <2>. QED
      BY <1>0, <2>1, <2>2
  <1>13. CASE AdminDelete
    <2>1. PICK k \in Live(live) : live' = [live EXCEPT ![k] = NoRow]
      BY <1>13 DEF AdminDelete
    <2>. QED
      BY <1>0, <1>13, <2>1 DEF AdminDelete, OtherWrite, Disturb, Live
  <1>14. CASE SpecImport
    <2>1. PICK k \in Key \ Consumers, c \in Written, s \in SpecId :
            live' = [live EXCEPT ![k] = [content |-> c, spec |-> s]]
      BY <1>14 DEF SpecImport
    <2>2. UNCHANGED <<desired, landing>>
      BY <1>14 DEF SpecImport, OtherWrite, Disturb
    <2>. QED
      BY <1>0, <2>1, <2>2
  <1>15. CASE LateCommit
    <2>1. PICK k \in Declared(landing) :
        /\ landing' = [landing EXCEPT ![k] = Undeclared]
        /\ \/ live' = [live EXCEPT ![k] = [content |-> landing[k], spec |-> Unowned]]
           \/ UNCHANGED live
      BY <1>15 DEF LateCommit
    <2>2. Norm[landing[k]] = landing[k] /\ UNCHANGED desired
      BY <1>15 DEF NormInv, LateCommit, Disturb
    <2>. QED
      BY <2>1, <2>2 DEF NormInv, Declared, Live, TypeOK, View, Document
  <1>16. CASE UNCHANGED vars
    BY <1>1, <1>16 DEF vars
  <1>. QED
    BY <1>4, <1>5, <1>6, <1>7, <1>8, <1>9, <1>10, <1>11, <1>12, <1>13, <1>14, <1>15,
       <1>16 DEF Next, RunStep, Environment


(* An operation still to do finds its row as it was planned.               *)
LEMMA TodoStands ==
    ASSUME TypeOK, TodoInv, PlanInv, Smooth, pc \in Writing, NEW o \in todo
    PROVE  /\ o.key \in KeysIn(nss) /\ NsOf[o.key] = cur /\ o \in Planned
           /\ Stands(o.key)
           /\ o.act = "Add" => live[o.key] = NoRow
           /\ o.act # "Add" => /\ live[o.key] \in Row
                               /\ live[o.key].spec = plan[o.key].spec
                               /\ o.key \in Consumers => o.key \in evidence
           /\ o.act = "Modify" => live[o.key].spec = Unowned
  <1>1. o \in Planned /\ o.key \in Key /\ NsOf[o.key] = cur
    BY DEF PlanInv, TypeOK, Op
  <1>2. o.key \in KeysIn(nss)
    <2>1. o.key \in Live(plan) \cup Declared(desired)
      BY <1>1, PlannedWritesAreDeclared, PlannedDeletes DEF Planned
    <2>. QED
      BY <2>1 DEF PlanInv, Writing
  <1>3. Stands(o.key)
    BY <1>2 DEF Smooth, Writing
  <1>4. live[o.key] = NoRow <=> plan[o.key] = NoRow
    <2>1. live[o.key] # NoRow => Archival(live[o.key]) \in Row
      BY <1>1, ApplyAssumption DEF TypeOK, View, Row, Archival
    <2>. QED
      BY <1>1, <1>3, <2>1, DiffAssumption DEF Stands, Backup
  <1>5. o.act = "Add" => live[o.key] = NoRow
    BY <1>1, <1>4, PlannedAdds DEF Planned, Adds, Live
  <1>6. ASSUME o.act # "Add"
        PROVE  /\ live[o.key] \in Row /\ live[o.key].spec = plan[o.key].spec
               /\ o.key \in Consumers => o.key \in evidence
               /\ o.act = "Modify" => live[o.key].spec = Unowned
    <2>1. o.key \in Live(plan)
      BY <1>6 DEF TodoInv
    <2>2. live[o.key] \in Row
      BY <1>1, <1>4, <2>1 DEF Live, TypeOK, View
    <2>3. live[o.key].spec = plan[o.key].spec
      BY <1>1, <1>3, <2>2, DiffAssumption DEF Stands, Backup, Archival, Row
    <2>4. o.act = "Modify" => o.key \notin SpecOwned(plan)
      BY DEF TodoInv
    <2>. QED
      BY <2>1, <2>2, <2>3, <2>4 DEF SpecOwned, Smooth
  <1>. QED
    BY <1>1, <1>2, <1>3, <1>5, <1>6

(* So does a candidate for adoption, whose row is as declared.             *)
LEMMA CandidateStands ==
    ASSUME TypeOK, PlanInv, Smooth, pc \in Acting, NEW k \in AdoptionCandidates(desired, plan, mem)
    PROVE  /\ k \in KeysIn(nss) /\ k \in Live(plan)
           /\ Done([key |-> k, act |-> "Modify"])
  <1>1. /\ k \in Key /\ k \in Declared(desired) /\ k \in Live(plan)
        /\ plan[k].spec = Unowned /\ plan[k].content = desired[k] /\ plan[k] \in Row
    BY DEF AdoptionCandidates, Live, SpecOwned, TypeOK, View
  <1>2. k \in KeysIn(nss)
    BY <1>1 DEF PlanInv, Acting
  <1>3. CASE k \in KeysOf(applied, Action)
    <2>1. PICK o \in applied : o.key = k
      BY <1>3 DEF KeysOf
    <2>2. o.act # "Delete" /\ Done(o)
      BY <1>1, <2>1, DeletedStaysUndeclared DEF Smooth
    <2>. QED
      BY <1>1, <1>2, <2>1, <2>2 DEF Done
  <1>4. CASE Stands(k)
    <2>1. plan[k] # NoRow
      BY <1>1, DiffAssumption
    <2>2. live[k] # NoRow /\ Archival(live[k]) = plan[k]
      BY <1>1, <1>4, <2>1 DEF Stands, Backup
    <2>3. plan[k] = [content |-> desired[k], spec |-> Unowned]
      BY <1>1 DEF Row
    <2>. QED
      BY <1>1, <1>2, <2>2, <2>3 DEF Done
  <1>. QED
    BY <1>2, <1>3, <1>4 DEF Smooth, Acting

(***************************************************************************)
(* A step that changes no row, plan, evidence or outcome.                  *)
(***************************************************************************)
LEMMA SmoothKept ==
    ASSUME Smooth, pc \in Acting, pc' \in Acting,
           pc' \notin {"readback", "verify", "assert", "replay"},
           UNCHANGED <<live, landing, viewVars, mem, resultVars, evidence>>,
           left' \subseteq left,
           pc' \in Writing => \A o \in todo' : o.key \notin KeysOf(applied, Action),
           pc' \in {"confirm", "write", "claim"} => tag',
           pc' \in {"adopt", "claim"} =>
               Mode = "shared" /\ \A o \in todo' : Done(o) /\ o.key \in confirmed',
           blocked = {} => Adopting'
    PROVE  Smooth'
  <1>1. /\ KeysIn(nss)' = KeysIn(nss) /\ KeysOf(applied, Action)' = KeysOf(applied, Action)
        /\ Live(plan)' = Live(plan) /\ Consumers' = Consumers
        /\ \A k : Stands(k)' <=> Stands(k)
        /\ \A o : Done(o)' <=> Done(o)
    BY DEF Stands, Done, Live, Backup
  <1>. QED
    BY <1>1 DEF Smooth, Acting

(***************************************************************************)
(* An operation that lands and leaves its row as it should.                *)
(***************************************************************************)
LEMMA SmoothLand ==
    ASSUME TypeOK, CurInv, TodoInv, PlanInv, Smooth, pc \in Writing, NEW o \in todo,
           Finish(o), Land(o), UNCHANGED <<landing, viewVars, mem>>, Done(o)',
           \A k \in Key \ {o.key} : live'[k] = live[k], live' \in View
    PROVE  Smooth'
  <1>1. o.key \in KeysIn(nss) /\ NsOf[o.key] = cur /\ o.key \in Key
    BY TodoStands DEF KeysIn
  <1>2. \A k \in Key \ {o.key} : Stands(k)' <=> Stands(k)
    BY DEF Stands, Backup
  <1>3. \A p \in applied : p.key \in Key /\ p.key # o.key
    BY DEF Smooth, KeysOf, TypeOK, Op
  <1>4. \A p \in applied : Done(p)' <=> Done(p)
    BY <1>3 DEF Done
  <1>5. KeysOf(applied', Action) = KeysOf(applied, Action) \cup {o.key}
    BY DEF Land, KeysOf, TypeOK, Op
  <1>6. \A p \in todo' : p.key \notin KeysOf(applied', Action)
    BY <1>5 DEF Finish, TodoInv, Smooth
  <1>7. ASSUME blocked = {} PROVE Adopting'
    <2>1. AdoptionCandidates(desired, plan, mem)' = AdoptionCandidates(desired, plan, mem)
      OBVIOUS
    <2>2. ASSUME NEW k \in AdoptionCandidates(desired, plan, mem)
          PROVE  \/ NsOf[k] \in left \/ NsOf[k] = cur
                 \/ k \in KeysOf(applied, {"Add", "Modify"})
                 \/ Mode = "shared" /\ live[k].content # desired[k]
      BY <1>7 DEF Smooth, Adopting, Writing, Acting, Steps
    <2>3. KeysOf(applied, {"Add", "Modify"}) \subseteq KeysOf(applied', {"Add", "Modify"})
      BY DEF Land, KeysOf
    <2>4. \A k \in AdoptionCandidates(desired, plan, mem) : k \in Key
      BY DEF AdoptionCandidates, Declared
    <2>5. pc' \in Writing /\ cur' = cur /\ left' = left
      BY DEF Finish, Writing
    <2>. QED
      BY <1>1, <2>1, <2>2, <2>3, <2>4, <2>5 DEF Adopting
  <1>8. pc' = "select" /\ UNCHANGED <<left, cur, evidence, bad, failed, stale>>
        /\ applied' = applied \cup {o} /\ pc \in Acting
    BY DEF Finish, Land, Writing, Acting, Steps
  <1>9. \A p \in applied' : Done(p)' /\ NsOf[p.key] \notin left'
    BY <1>1, <1>4, <1>8 DEF Smooth, CurInv
  <1>10. \A k \in KeysIn(nss)' : k \in KeysOf(applied', Action) \/ Stands(k)'
    <2>1. KeysIn(nss)' = KeysIn(nss) /\ KeysIn(nss) \subseteq Key
      BY DEF KeysIn
    <2>. QED
      BY <1>2, <1>5, <2>1 DEF Smooth, Writing
  <1>11. Live(plan)' = Live(plan)
    BY DEF Live
  <1>. QED
    BY <1>6, <1>7, <1>8, <1>9, <1>10, <1>11 DEF Smooth, Acting, Steps


(* Reading a backup, and planning.                                         *)
LEMMA SmoothPlanning ==
    ASSUME TypeOK, PlanInv, OrderInv, CalmInv, calm',
           Begin \/ ReadBackup \/ Reconcile \/ Journal
    PROVE  Smooth'
  <1>1. CASE Begin
    <2>1. /\ pc = "idle" /\ pc' = "read" /\ left' = nss' /\ failed' = FALSE
          /\ landing = NoDoc
          /\ UNCHANGED <<landing, applied, bad, stale, plan>>
      BY <1>1 DEF Begin
    <2>2. applied = {} /\ bad = {} /\ ~stale /\ Live(plan) = {}
      BY <2>1 DEF PlanInv, OrderInv, Live, Unread
    <2>. QED
      BY <2>1, <2>2 DEF Smooth, KeysIn, Writing, Acting, Live
  <1>2. CASE ReadBackup
    <2>1. PICK ns \in left :
            /\ plan' = [k \in Key |-> IF NsOf[k] = ns THEN Backup(live)[k] ELSE plan[k]]
            /\ evidence' = evidence \cup (Consumers \cap KeysIn({ns}) \cap Live(live))
            /\ left' = left \ {ns}
      BY <1>2 DEF ReadBackup
    <2>2. /\ pc = "read" /\ pc' = "read" /\ Smooth
          /\ UNCHANGED <<live, landing, nss, resultVars, blocked>>
      BY <1>2 DEF ReadBackup, CalmInv
    <2>3. applied = {}
      BY <2>2 DEF PlanInv
    <2>4. \A k \in KeysIn(nss)' : NsOf[k] \in left' \/ Stands(k)'
      <3>1. \A k \in KeysIn(nss) : NsOf[k] \in left \/ Stands(k)
        BY <2>2, <2>3 DEF Smooth, KeysOf
      <3>2. Backup(live)' = Backup(live) /\ KeysIn(nss)' = KeysIn(nss)
        BY <2>2 DEF Backup
      <3>. QED
        BY <2>1, <3>1, <3>2 DEF Stands, KeysIn
    <2>5. Consumers \cap Live(plan') \subseteq evidence'
      <3>1. \A k \in Key : Backup(live)[k] # NoRow => live[k] # NoRow
        BY DEF Backup
      <3>2. Consumers \cap Live(plan) \subseteq evidence
        BY <2>2 DEF Smooth
      <3>. QED
        BY <2>1, <3>1, <3>2 DEF Live, KeysIn
    <2>. QED
      BY <2>2, <2>3, <2>4, <2>5 DEF Smooth, Writing, Acting
  <1>3. CASE Reconcile
    <2>1. /\ pc = "read" /\ pc' = "plan" /\ Smooth /\ left = {}
          /\ UNCHANGED <<live, landing, nss, plan, left, resultVars, evidence, desired>>
      BY <1>3 DEF Reconcile, CalmInv
    <2>2. applied = {}
      BY <2>1 DEF PlanInv
    <2>3. /\ KeysIn(nss)' = KeysIn(nss) /\ Live(plan)' = Live(plan)
          /\ \A k : Stands(k)' <=> Stands(k)
      BY <2>1 DEF Stands, Live, Backup
    <2>. QED
      BY <2>1, <2>2, <2>3 DEF Smooth, Writing, Acting
  <1>4. CASE Journal
    <2>1. /\ pc = "plan" /\ pc' = "namespaces" /\ Smooth /\ left' = nss
          /\ UNCHANGED <<live, landing, viewVars, resultVars, evidence>>
      BY <1>4 DEF Journal, CalmInv
    <2>2. applied = {} /\ Declared(desired) \subseteq KeysIn(nss)
      BY <2>1 DEF PlanInv
    <2>3. /\ KeysIn(nss)' = KeysIn(nss) /\ Live(plan)' = Live(plan)
          /\ \A k : Stands(k)' <=> Stands(k)
      BY <2>1 DEF Stands, Live, Backup
    <2>4. Adopting'
      <3>1. ASSUME NEW k \in AdoptionCandidates(desired, plan, mem') PROVE NsOf[k] \in left'
        BY <2>1, <2>2, <3>1 DEF AdoptionCandidates, KeysIn
      <3>. QED
        BY <2>1, <3>1 DEF Adopting
    <2>. QED
      BY <2>1, <2>2, <2>3, <2>4 DEF Smooth, Writing, Acting
  <1>. QED
    BY <1>1, <1>2, <1>3, <1>4

(* Starting a namespace and its adoption, and passing one by.              *)
LEMMA SmoothNamespaces ==
    ASSUME TypeOK, OpsInv, CurInv, PlanInv, Smooth, calm, calm',
           SkipBlocked \/ StartNamespace \/ EndNamespace \/ StartAdoption
           \/ EndAdoption \/ EndNamespaces
    PROVE  Smooth'
  <1>0. AdoptionCandidates(desired, plan, mem)' = AdoptionCandidates(desired, plan, mem)
    BY DEF SkipBlocked, StartNamespace, EndNamespace, StartAdoption, EndAdoption, EndNamespaces
  <1>a. \A k \in AdoptionCandidates(desired, plan, mem) : k \in Key
    BY DEF AdoptionCandidates, Declared
  <1>1. CASE SkipBlocked
    <2>1. blocked # {} /\ pc = "namespaces" /\ pc' = "namespaces" /\ left' \subseteq left
          /\ failed'
          /\ UNCHANGED <<live, landing, viewVars, mem, applied, bad, stale, evidence>>
      BY <1>1 DEF SkipBlocked
    <2>2. /\ KeysIn(nss)' = KeysIn(nss) /\ Live(plan)' = Live(plan)
          /\ \A k : Stands(k)' <=> Stands(k)
          /\ \A o : Done(o)' <=> Done(o)
      BY <2>1 DEF Stands, Done, Live, Backup
    <2>. QED
      BY <2>1, <2>2 DEF Smooth, Writing, Acting, Steps
  <1>2. CASE StartNamespace
    <2>1. PICK ns \in left \ blocked :
            /\ cur' = ns /\ left' = left \ {ns}
            /\ todo' = {o \in PlannedOps(desired, plan, mem) : NsOf[o.key] = ns}
      BY <1>2 DEF StartNamespace
    <2>2. /\ pc = "namespaces" /\ pc' = "select"
          /\ UNCHANGED <<live, landing, viewVars, mem, applied, failed, evidence>>
          /\ UNCHANGED <<bad, stale>>
      BY <1>2 DEF StartNamespace, Smooth, TypeOK
    <2>3. \A o \in todo' : o.key \notin KeysOf(applied, Action)
      BY <2>1 DEF Smooth, KeysOf
    <2>4. blocked = {} => Adopting'
      BY <1>0, <2>1, <2>2 DEF Smooth, Adopting, Writing, Acting, Steps
    <2>. QED
      BY <2>1, <2>2, <2>3, <2>4, SmoothKept DEF Acting, Steps, Writing
  <1>3. CASE EndNamespace
    <2>1. /\ pc = "select" /\ pc' = "namespaces" /\ todo = {} /\ ~stale
          /\ Candidates = {} \/ Mode = "exclusive"
          /\ applied' = IF Mode = "exclusive"
                        THEN applied \cup [key : Candidates, act : {"Modify"}] ELSE applied
          /\ UNCHANGED <<live, landing, viewVars, mem, left, failed, evidence>>
          /\ UNCHANGED <<bad, stale>>
      BY <1>3 DEF EndNamespace, Smooth, TypeOK
    <2>2. ASSUME NEW o \in applied', o \notin applied
          PROVE  Done(o) /\ NsOf[o.key] = cur
      <3>1. PICK k \in Candidates : o = [key |-> k, act |-> "Modify"]
        BY <2>1, <2>2
      <3>2. k \in AdoptionCandidates(desired, plan, mem) /\ NsOf[k] = cur
        BY <3>1 DEF Candidates
      <3>. QED
        BY <2>1, <3>1, <3>2, CandidateStands DEF Acting, Steps
    <2>3. /\ KeysIn(nss)' = KeysIn(nss) /\ Live(plan)' = Live(plan)
          /\ \A k : Stands(k)' <=> Stands(k)
          /\ \A o : Done(o)' <=> Done(o)
      BY <2>1 DEF Stands, Done, Live, Backup
    <2>4. /\ KeysOf(applied, Action) \subseteq KeysOf(applied', Action)
          /\ KeysOf(applied, {"Add", "Modify"}) \subseteq KeysOf(applied', {"Add", "Modify"})
      BY <2>1 DEF KeysOf
    <2>5. \A o \in applied' : Done(o)' /\ NsOf[o.key] \notin left'
      BY <2>1, <2>2, <2>3 DEF Smooth, CurInv
    <2>6. ASSUME blocked = {} PROVE Adopting'
      <3>1. ASSUME NEW k \in AdoptionCandidates(desired, plan, mem), NsOf[k] = cur
            PROVE  k \in KeysOf(applied', {"Add", "Modify"})
        <4>1. k \in Candidates
          BY <3>1 DEF Candidates
        <4>2. [key |-> k, act |-> "Modify"] \in applied'
          BY <2>1, <4>1
        <4>. QED
          BY <4>2 DEF KeysOf
      <3>2. ASSUME NEW k \in AdoptionCandidates(desired, plan, mem), NsOf[k] # cur
            PROVE  \/ NsOf[k] \in left
                   \/ k \in KeysOf(applied, {"Add", "Modify"})
                   \/ Mode = "shared" /\ live[k].content # desired[k]
        BY <2>1, <2>6, <3>2 DEF Smooth, Adopting, Acting, Steps
      <3>. QED
        BY <1>0, <2>1, <2>4, <3>1, <3>2 DEF Adopting
    <2>. QED
      BY <2>1, <2>3, <2>4, <2>5, <2>6 DEF Smooth, Writing, Acting, Steps
  <1>4. CASE StartAdoption
    <2>1. /\ pc = "select" /\ pc' = "adopt" /\ Mode = "shared"
          /\ todo' = [key : Candidates, act : {"Modify"}]
          /\ confirmed' = {k \in Candidates :
                              Backup(live)[k] = [content |-> desired[k], spec |-> Unowned]}
          /\ UNCHANGED <<live, landing, viewVars, mem, left, cur, resultVars, evidence>>
      BY <1>4 DEF StartAdoption
    <2>2. ASSUME NEW o \in todo' PROVE Done(o) /\ o.key \in confirmed'
      <3>1. PICK k \in Candidates : o = [key |-> k, act |-> "Modify"]
        BY <2>1, <2>2
      <3>2. k \in AdoptionCandidates(desired, plan, mem) /\ k \in Key
        BY <1>a, <3>1 DEF Candidates
      <3>3. Done(o)
        BY <2>1, <3>1, <3>2, CandidateStands DEF Acting, Steps
      <3>. QED
        BY <2>1, <3>1, <3>2, <3>3 DEF Done, Backup
    <2>3. blocked = {} => Adopting'
      <3>1. \A k \in Candidates : k \in KeysOf(todo', {"Modify"})
        <4>1. ASSUME NEW k \in Candidates PROVE k \in KeysOf(todo', {"Modify"})
          <5>1. [key |-> k, act |-> "Modify"] \in todo'
            BY <2>1
          <5>. QED
            BY <5>1 DEF KeysOf
        <4>. QED
          BY <4>1
      <3>. QED
        BY <1>0, <2>1, <3>1 DEF Smooth, Adopting, Candidates, Acting, Steps
    <2>. QED
      BY <2>1, <2>2, <2>3, SmoothKept DEF Acting, Steps, Writing
  <1>5. CASE EndAdoption
    <2>1. /\ pc = "adopt" /\ pc' = "namespaces" /\ todo = {}
          /\ UNCHANGED <<live, landing, viewVars, mem, left, applied, failed, stale, evidence>>
          /\ UNCHANGED bad
      BY <1>5 DEF EndAdoption, Smooth
    <2>2. blocked = {} => Adopting'
      BY <1>0, <2>1 DEF Smooth, Adopting, KeysOf, Writing, Acting, Steps
    <2>. QED
      BY <2>1, <2>2, SmoothKept DEF Acting, Steps, Writing
  <1>6. CASE EndNamespaces
    <2>1. /\ pc = "namespaces" /\ pc' = "record"
          /\ UNCHANGED <<live, landing, viewVars, mem, left, resultVars, evidence>>
      BY <1>6 DEF EndNamespaces
    <2>2. blocked = {} => Adopting'
      BY <1>0, <2>1 DEF Smooth, Adopting, Writing, Acting, Steps
    <2>. QED
      BY <2>1, <2>2, SmoothKept DEF Acting, Steps, Writing
  <1>. QED
    BY <1>1, <1>2, <1>3, <1>4, <1>5, <1>6


(* A step within the writing of a namespace that changes no row.           *)
LEMMA SmoothHold ==
    ASSUME Smooth, pc \in Writing, pc' \in Writing \ {"readback", "verify", "assert", "replay"},
           UNCHANGED <<live, landing, viewVars, mem, resultVars, evidence, left, cur, todo>>,
           pc' \in {"confirm", "write"} => tag'
    PROVE  Smooth'
  <1>1. pc \in Acting /\ pc' \in Acting /\ pc' \notin {"adopt", "claim"}
    BY DEF Writing, Acting, Steps
  <1>2. AdoptionCandidates(desired, plan, mem)' = AdoptionCandidates(desired, plan, mem)
    OBVIOUS
  <1>3. blocked = {} => Adopting'
    BY <1>1, <1>2 DEF Smooth, Adopting, Writing
  <1>. QED
    BY <1>1, <1>3, SmoothKept DEF Smooth, Writing

(* What a run writes.                                                      *)
LEMMA SmoothWriting ==
    ASSUME TypeOK, OpsInv, CurInv, TodoInv, PlanInv, NormInv, Smooth, calm', TypeOK',
           CreateAccepted \/ ReadRow \/ Confirm \/ WriteRow
    PROVE  Smooth'
  <1>1. CASE CreateAccepted
    <2>1. PICK o \in todo : /\ o.act = "Add" /\ Insert(o.key) /\ Finish(o) /\ Land(o)
      BY <1>1 DEF CreateAccepted
    <2>2. /\ o.key \in Key /\ o.key \in Declared(desired) /\ desired[o.key] \in Content
          /\ pc = "select" /\ UNCHANGED <<landing, viewVars, mem>>
      BY <1>1, <2>1 DEF CreateAccepted, Insert, OpsInv, TypeOK, Op, Declared, Document
    <2>3. live'[o.key] = [content |-> desired[o.key], spec |-> Unowned]
      BY <2>1, <2>2 DEF Insert, TypeOK, View
    <2>4. Norm[desired[o.key]] = desired[o.key]
      BY <2>2 DEF NormInv
    <2>5. [content |-> desired[o.key], spec |-> Unowned] \in Row
      BY <2>2 DEF Row
    <2>6. Done(o)'
      BY <2>1, <2>2, <2>3, <2>4, <2>5, DiffAssumption DEF Done, Archival
    <2>7. \A k \in Key \ {o.key} : live'[k] = live[k]
      BY <2>1 DEF Insert, TypeOK, View
    <2>. QED
      BY <2>1, <2>2, <2>6, <2>7, SmoothLand DEF TypeOK, Writing
  <1>2. CASE ReadRow
    <2>1. PICK o \in todo :
            /\ o.act # "Add"
            /\ \/ live[o.key] = NoRow
               \/ live[o.key] # NoRow /\ OwnerChanged(o)
               \/ live[o.key] # NoRow /\ o.key \in Consumers \ evidence
               \/ Hold(o, "write")
               \/ Hold(o, "confirm")
      BY <1>2 DEF ReadRow
    <2>2. /\ pc = "select" /\ pc \in Writing
          /\ UNCHANGED <<live, landing, viewVars, mem>>
      BY <1>2 DEF ReadRow, Writing
    <2>3. Hold(o, "write") \/ Hold(o, "confirm")
      BY <2>1, <2>2, TodoStands, DiffAssumption DEF OwnerChanged
    <2>. QED
      BY <2>2, <2>3, SmoothHold DEF Hold, Writing
  <1>3. CASE Confirm
    <2>1. op \in todo /\ pc = "confirm" /\ pc \in Writing
      BY <1>3 DEF Confirm, OpsInv, Holding, Writing
    <2>2. Confirmed(op)
      BY <2>1, TodoStands DEF Confirmed, Stands
    <2>3. /\ pc' = "write" /\ tag
          /\ UNCHANGED <<left, cur, todo, op, freshVars, resultVars>>
          /\ UNCHANGED <<live, landing, viewVars, mem>>
      BY <1>3, <2>1, <2>2 DEF Confirm, Smooth
    <2>. QED
      BY <2>1, <2>3, SmoothHold DEF Writing
  <1>4. CASE WriteRow
    <2>1. PICK o \in todo : o = op
      BY <1>4 DEF WriteRow, OpsInv, Holding
    <2>2. /\ o.key \in Key /\ pc = "write" /\ pc \in Writing
          /\ Store(o) /\ Finish(o) /\ Land(o)
          /\ UNCHANGED <<landing, viewVars, mem>>
      BY <1>4, <2>1 DEF WriteRow, Store, TypeOK, Op, Writing
    <2>3. \A k \in Key \ {o.key} : live'[k] = live[k]
      BY <2>2 DEF Store, TypeOK, View
    <2>4. CASE o.act = "Delete"
      <3>1. live'[o.key] = NoRow
        BY <2>2, <2>4 DEF Store, TypeOK, View
      <3>2. Done(o)'
        BY <2>4, <3>1 DEF Done
      <3>. QED
        BY <2>2, <2>3, <3>2, SmoothLand DEF TypeOK
    <2>5. CASE o.act # "Delete"
      <3>1. o.key \in Declared(desired) /\ desired[o.key] \in Content
        BY <2>2, <2>5 DEF OpsInv, TypeOK, Declared, Document
      <3>2. live[o.key].spec = Unowned
        <4>1. live[o.key] # NoRow
          BY <1>4, <2>1 DEF WriteRow, OpsInv
        <4>2. o.act = "Modify"
          BY <2>2, <2>5, <4>1, TodoStands DEF TypeOK, Op, Action
        <4>. QED
          BY <2>2, <4>2, TodoStands
      <3>3. live'[o.key] = [content |-> desired[o.key], spec |-> Unowned]
        BY <2>2, <2>5, <3>2 DEF Store, TypeOK, View
      <3>4. Norm[desired[o.key]] = desired[o.key]
        BY <3>1 DEF NormInv
      <3>5. [content |-> desired[o.key], spec |-> Unowned] \in Row
        BY <3>1 DEF Row
      <3>6. Done(o)'
        BY <2>2, <2>5, <3>3, <3>4, <3>5, DiffAssumption DEF Done, Archival
      <3>. QED
        BY <2>2, <2>3, <3>6, SmoothLand DEF TypeOK
    <2>. QED
      BY <2>4, <2>5
  <1>. QED
    BY <1>1, <1>2, <1>3, <1>4

(* What a run claims.                                                      *)
LEMMA SmoothClaiming ==
    ASSUME TypeOK, OpsInv, CurInv, TodoInv, PlanInv, NormInv, Smooth, calm',
           ReadCandidate \/ Claim
    PROVE  Smooth'
  <1>0. AdoptionCandidates(desired, plan, mem)' = AdoptionCandidates(desired, plan, mem)
    BY DEF ReadCandidate, Claim
  <1>1. CASE ReadCandidate
    <2>1. PICK o \in todo : IF Claimable(o.key) THEN Hold(o, "claim") ELSE Skip(o)
      BY <1>1 DEF ReadCandidate
    <2>2. /\ pc = "adopt" /\ pc \in Acting /\ Mode = "shared"
          /\ UNCHANGED <<live, landing, viewVars, mem>>
          /\ o.key \in Key /\ o.act = "Modify" /\ Done(o) /\ o.key \in confirmed
          /\ o.key \in Live(plan)
      BY <1>1 DEF ReadCandidate, Smooth, PlanInv, TodoInv, TypeOK, Op, Acting, Steps
    <2>3. live[o.key] \in Row /\ live[o.key].spec = Unowned
      BY <2>2, DiffAssumption DEF Done, Archival, TypeOK, View, Row
    <2>4. CASE Claimable(o.key)
      <3>1. blocked = {} => Adopting'
        BY <1>0, <2>1, <2>2, <2>4 DEF Smooth, Adopting, Hold, Writing
      <3>. QED
        BY <2>1, <2>2, <2>4, <3>1, SmoothKept DEF Smooth, Hold, Acting, Steps, Writing
    <2>5. CASE ~Claimable(o.key)
      <3>1. o.key \notin Consumers
        <4>1. ASSUME o.key \in Consumers PROVE FALSE
          <5>1. o.key \in evidence
            BY <2>2, <4>1 DEF Smooth
          <5>2. Norm[live[o.key].content] = live[o.key].content
            BY <2>2, <4>1 DEF NormInv, Live, Done
          <5>3. live[o.key].content = desired[o.key]
            BY <2>2, <2>3, <5>2 DEF Done, Archival, Row
          <5>4. live[o.key] = [content |-> desired[o.key], spec |-> Unowned]
            BY <2>3, <5>3 DEF Row
          <5>. QED
            BY <2>2, <2>5, <5>1, <5>4 DEF Claimable
        <4>. QED
          BY <4>1
      <3>2. (\A p \in todo : p.key = o.key => p = o)
        BY DEF TodoInv
      <3>3. live[o.key].content # desired[o.key]
        <4>1. live[o.key] # [content |-> desired[o.key], spec |-> Unowned]
          BY <2>2, <2>5, <3>1 DEF Claimable
        <4>. QED
          BY <2>3, <4>1 DEF Row
      <3>4. /\ todo' = todo \ {o} /\ pc' = "adopt"
            /\ UNCHANGED <<left, cur, evidence, confirmed, resultVars>>
        BY <2>1, <2>5, <3>1 DEF Skip
      <3>5. blocked = {} => Adopting'
        <4>1. \A k \in KeysOf(todo, {"Modify"}) \ {o.key} : k \in KeysOf(todo', {"Modify"})
          BY <3>4 DEF KeysOf
        <4>. QED
          BY <1>0, <2>2, <3>3, <3>4, <4>1 DEF Smooth, Adopting, Writing
      <3>. QED
        BY <2>2, <3>4, <3>5, SmoothKept DEF Smooth, Acting, Steps, Writing
    <2>. QED
      BY <2>4, <2>5
  <1>2. CASE Claim
    <2>1. /\ pc = "claim" /\ op \in todo /\ op.act = "Modify" /\ Done(op) /\ Mode = "shared"
          /\ applied' = applied \cup {op} /\ todo' = todo \ {op} /\ pc' = "adopt"
          /\ NsOf[op.key] \notin left
          /\ UNCHANGED <<live, landing, viewVars, mem, left, cur, evidence, confirmed,
                         bad, failed, stale>>
      BY <1>2 DEF Claim, OpsInv, Holding, Smooth, PlanInv, TodoInv
    <2>2. /\ KeysIn(nss)' = KeysIn(nss) /\ Live(plan)' = Live(plan)
          /\ \A k : Stands(k)' <=> Stands(k)
          /\ \A o : Done(o)' <=> Done(o)
      BY <2>1 DEF Stands, Done, Live, Backup
    <2>3. /\ KeysOf(applied, Action) \subseteq KeysOf(applied', Action)
          /\ KeysOf(applied, {"Add", "Modify"}) \cup {op.key}
                 \subseteq KeysOf(applied', {"Add", "Modify"})
          /\ \A k \in KeysOf(todo, {"Modify"}) \ {op.key} : k \in KeysOf(todo', {"Modify"})
      BY <2>1 DEF KeysOf
    <2>4. blocked = {} => Adopting'
      BY <1>0, <2>1, <2>3 DEF Smooth, Adopting, Writing, Acting, Steps
    <2>. QED
      BY <2>1, <2>2, <2>3, <2>4 DEF Smooth, Writing, Acting, Steps
  <1>. QED
    BY <1>1, <1>2

(***************************************************************************)
(* What cannot happen to a run nothing disturbs: a refusal, a deferral, or *)
(* the handling of an answer that did not come.                            *)
(***************************************************************************)
LEMMA NothingRefused ==
    ASSUME TypeOK, OpsInv, TodoInv, PlanInv, Smooth, calm',
           \/ Defer \/ Withhold \/ CreateRefused \/ Readback \/ VerifyAbsent \/ VerifyExact
           \/ VerifyUnproven \/ AssertCreated \/ AssertRefused \/ WriteRefused \/ Replay
           \/ ClaimRefused
    PROVE  FALSE
  <1>1. CASE Defer \/ Withhold
    BY <1>1 DEF Defer, Withhold, Deferred, DependencyFailed, WritesFailed, Smooth
  <1>2. CASE CreateRefused
    <2>1. PICK o \in todo : o.act = "Add" /\ (live[o.key] # NoRow \/ Fault)
      BY <1>2 DEF CreateRefused
    <2>. QED
      BY <1>2, <2>1, TodoStands DEF CreateRefused, Fault, Writing
  <1>3. CASE \/ Readback \/ VerifyAbsent \/ VerifyExact \/ VerifyUnproven
             \/ AssertCreated \/ AssertRefused \/ Replay
    BY <1>3
    DEF Readback, VerifyAbsent, VerifyExact, VerifyUnproven, AssertCreated,
        AssertRefused, Replay, Smooth
  <1>4. CASE WriteRefused \/ ClaimRefused
    BY <1>4 DEF WriteRefused, ClaimRefused, Smooth
  <1>. QED
    BY <1>1, <1>2, <1>3, <1>4


(***************************************************************************)
(* Recording ends an undisturbed run: what it planned has landed, what it  *)
(* did not plan stands, and both are as declared.                          *)
(***************************************************************************)
LEMMA CalmRecord ==
    ASSUME TypeOK, PlanInv, OrderInv, Smooth, Record, blocked = {}
    PROVE  /\ ~failed'
           /\ \A k \in KeysIn(nss)' : AsDeclared(desired, k)'
           /\ \A k \in Declared(desired)' :
                 k \in disk'.managed \/ (Mode = "shared" /\ live'[k].content # desired'[k])
  <1>1. /\ pc = "record" /\ pc \in Acting /\ disk' = mem'
        /\ mem' = RecordOps(mem, applied, Declared(desired))
        /\ UNCHANGED <<live, viewVars, failed>>
    BY DEF Record, Acting, Steps
  <1>2. ~failed /\ left = {} /\ \A o \in Planned : o \in applied
    BY <1>1 DEF Smooth, OrderInv, Writing
  <1>3. Declared(desired) \cap SpecOwned(plan) = {}
    BY <1>1 DEF PlanInv, SpecConflicts
  <1>4. ASSUME NEW k \in KeysIn(nss), Stands(k)
        PROVE  /\ live[k] = NoRow <=> plan[k] = NoRow
               /\ live[k] # NoRow => /\ live[k] \in Row /\ plan[k] \in Row
                                     /\ plan[k].spec = live[k].spec
                                     /\ plan[k].content = Norm[live[k].content]
    <2>1. k \in Key
      BY DEF KeysIn
    <2>2. live[k] # NoRow => live[k] \in Row /\ Archival(live[k]) \in Row
      BY <2>1, ApplyAssumption DEF TypeOK, View, Row, Archival
    <2>. QED
      BY <1>4, <2>1, <2>2, DiffAssumption DEF Stands, Backup, Archival, Row
  <1>5. ASSUME NEW k \in Declared(desired)
        PROVE  /\ live[k] # NoRow /\ Norm[live[k].content] = desired[k]
               /\ k \in disk'.managed \/ (Mode = "shared" /\ live[k].content # desired[k])
    <2>1. k \in Key /\ k \in KeysIn(nss) /\ k \notin SpecOwned(plan)
      BY <1>1, <1>3 DEF PlanInv, Declared
    <2>2. CASE k \in KeysOf(applied, Action)
      <3>1. PICK o \in applied : o.key = k
        BY <2>2 DEF KeysOf
      <3>2. o.act # "Delete" /\ Done(o)
        BY <1>1, <3>1, DeletedStaysUndeclared DEF Smooth
      <3>3. live[k] \in Row
        BY <2>1, <3>1, <3>2 DEF Done, TypeOK, View
      <3>4. live[k] # NoRow /\ Norm[live[k].content] = desired[k]
        BY <3>1, <3>2, <3>3 DEF Done, Archival, Row
      <3>5. k \in KeysOf(applied, {"Add", "Modify"})
        BY <3>1, <3>2 DEF KeysOf, TypeOK, Op, Action
      <3>6. k \in disk'.managed
        BY <1>1, <3>5 DEF RecordOps
      <3>. QED
        BY <3>4, <3>6
    <2>3. CASE k \notin KeysOf(applied, Action)
      <3>1. Stands(k)
        BY <1>1, <2>1, <2>3 DEF Smooth
      <3>2. ASSUME NEW o \in Planned PROVE o.key # k
        BY <1>2, <2>3 DEF KeysOf, TypeOK, Op
      <3>3. \A act \in Action : [key |-> k, act |-> act] \notin Planned
        <4>1. ASSUME NEW act \in Action, [key |-> k, act |-> act] \in Planned PROVE FALSE
          <5>1. [key |-> k, act |-> act].key # k
            BY <3>2, <4>1
          <5>. QED
            BY <5>1
        <4>. QED
          BY <4>1
      <3>4. k \in Live(plan)
        <4>1. ASSUME k \notin Live(plan) PROVE FALSE
          <5>1. [key |-> k, act |-> "Add"] \in Planned
            BY <4>1 DEF Planned, PlannedOps, Diff, Adds
          <5>. QED
            BY <3>3, <5>1 DEF Action
        <4>. QED
          BY <4>1
      <3>5. plan[k].content = desired[k]
        <4>1. ASSUME plan[k].content # desired[k] PROVE FALSE
          <5>1. [key |-> k, act |-> "Modify"] \in Planned
            BY <2>1, <3>4, <4>1 DEF Planned, PlannedOps, Diff, Modifies
          <5>. QED
            BY <3>3, <5>1 DEF Action
        <4>. QED
          BY <4>1
      <3>6. live[k] # NoRow /\ Norm[live[k].content] = desired[k]
        BY <1>4, <2>1, <3>1, <3>4, <3>5 DEF Live
      <3>7. k \notin mem.pending
        <4>1. ASSUME k \in mem.pending PROVE FALSE
          <5>1. \E o \in Planned : o.key = k
            BY <2>1, <4>1, PendingIsPlanned DEF TypeOK, Planned
          <5>. QED
            BY <3>2, <5>1
        <4>. QED
          BY <4>1
      <3>8. CASE k \in mem.managed
        <4>1. k \notin KeysOf(applied, {"Delete"})
          BY <2>3 DEF KeysOf, Action
        <4>. QED
          BY <1>1, <3>6, <3>8, <4>1 DEF RecordOps
      <3>9. CASE k \notin mem.managed
        <4>1. k \notin KeysOf(Diff(desired, plan, mem.managed), Action)
          BY <3>2 DEF KeysOf, Planned, PlannedOps
        <4>2. k \in AdoptionCandidates(desired, plan, mem)
          BY <2>1, <3>4, <3>5, <3>7, <3>9, <4>1 DEF AdoptionCandidates
        <4>3. k \notin KeysOf(applied, {"Add", "Modify"})
          BY <2>3 DEF KeysOf, Action
        <4>4. Mode = "shared" /\ live[k].content # desired[k]
          BY <1>1, <1>2, <4>2, <4>3 DEF Smooth, Adopting, Writing
        <4>. QED
          BY <3>6, <4>4
      <3>. QED
        BY <3>8, <3>9
    <2>. QED
      BY <2>2, <2>3
  <1>6. ASSUME NEW k \in KeysIn(nss), k \notin Declared(desired)
        PROVE  \/ live[k] = NoRow \/ live[k].spec # Unowned
               \/ Mode = "shared" /\ k \notin disk'.managed
    <2>1. k \in Key
      BY DEF KeysIn
    <2>2. ASSUME NEW o \in applied, o.key = k PROVE live[k] = NoRow
      <3>1. Done(o)
        BY DEF Smooth
      <3>2. o.act # "Delete" => live[k] \in Row /\ desired[k] \notin Content
        BY <1>6, <2>1, <2>2, <3>1, DiffAssumption DEF Done, TypeOK, View, Declared
      <3>3. o.act # "Delete" => desired[k] \in Content
        BY <2>2, <3>1, <3>2, ApplyAssumption DEF Done, Archival, Row
      <3>. QED
        BY <2>2, <3>1, <3>2, <3>3 DEF Done
    <2>3. CASE k \in KeysOf(applied, Action)
      BY <2>2, <2>3 DEF KeysOf
    <2>4. CASE k \notin KeysOf(applied, Action)
      <3>1. Stands(k)
        BY <1>1, <2>4 DEF Smooth
      <3>2. [key |-> k, act |-> "Delete"] \notin Planned
        <4>1. ASSUME [key |-> k, act |-> "Delete"] \in Planned PROVE FALSE
          <5>1. [key |-> k, act |-> "Delete"] \in applied
            BY <1>2, <4>1
          <5>2. k \in KeysOf(applied, Action)
            BY <5>1 DEF KeysOf, Action
          <5>. QED
            BY <2>4, <5>2
        <4>. QED
          BY <4>1
      <3>3. SUFFICES ASSUME live[k] # NoRow, live[k].spec = Unowned
                     PROVE  Mode = "shared" /\ k \notin disk'.managed
        OBVIOUS
      <3>4. k \in Live(plan) \ (Declared(desired) \cup SpecOwned(plan))
        BY <1>4, <1>6, <2>1, <3>1, <3>3 DEF Live, SpecOwned
      <3>5. Mode # "exclusive"
        BY <3>2, <3>4 DEF Planned, PlannedOps, Diff, Deletes
      <3>6. k \notin mem.managed
        BY <3>2, <3>4, OrphanIsPlanned DEF Planned
      <3>7. k \notin disk'.managed
        BY <1>1, <1>6, <3>6, RecordSettles DEF TypeOK
      <3>. QED
        BY <3>5, <3>7, DiffAssumption
    <2>. QED
      BY <2>3, <2>4
  <1>7. \A k \in Key : k \in Declared(desired) <=> desired[k] # Undeclared
    BY DEF Declared
  <1>8. KeysIn(nss)' = KeysIn(nss) /\ KeysIn(nss) \subseteq Key /\ Declared(desired)' = Declared(desired)
    BY <1>1 DEF KeysIn
  <1>9. ASSUME NEW k \in KeysIn(nss) PROVE AsDeclared(desired, k)'
    BY <1>1, <1>5, <1>6, <1>7, <1>8 DEF AsDeclared
  <1>. QED
    BY <1>1, <1>2, <1>5, <1>8, <1>9

(* Every step keeps an undisturbed run on its way.                         *)
LEMMA CalmNext ==
    ASSUME TypeOK, OpsInv, CurInv, TodoInv, PlanInv, OrderInv, NormInv, CalmInv,
           TypeOK', [Next]_vars
    PROVE  CalmInv'
  <1>1. ASSUME ~calm' PROVE CalmInv'
    BY <1>1 DEF CalmInv, CalmRunConverges, DeclaredRowsAreManaged
  <1>2. ASSUME pc' # "publish", Smooth' PROVE CalmInv'
    BY <1>2 DEF CalmInv, CalmRunConverges, DeclaredRowsAreManaged
  <1>3. CASE pc' = "idle"
    BY <1>3 DEF CalmInv, CalmRunConverges, DeclaredRowsAreManaged
  <1>4. CASE Abort \/ Refuse \/ CreateUnanswered \/ ReadFails \/ WriteUnanswered
             \/ WriteCommittedThenRetried \/ WriteStopsRun \/ AdoptionUnconfirmed
             \/ ClaimFails \/ Crash \/ Lose
    BY <1>1, <1>4
    DEF Abort, Refuse, CreateUnanswered, ReadFails, WriteUnanswered,
        WriteCommittedThenRetried, WriteStopsRun, AdoptionUnconfirmed, ClaimFails, Crash,
        Lose, Fault
  <1>5. CASE Begin \/ ReadBackup \/ Reconcile \/ Journal
    <2>1. pc' # "publish"
      BY <1>5 DEF Begin, ReadBackup, Reconcile, Journal
    <2>. QED
      BY <1>1, <1>2, <1>5, <2>1, SmoothPlanning
  <1>6. CASE SkipBlocked \/ StartNamespace \/ EndNamespace \/ StartAdoption
             \/ EndAdoption \/ EndNamespaces
    <2>1. pc' # "publish" /\ pc \notin {"idle", "publish"} /\ calm' = calm
      BY <1>6
      DEF SkipBlocked, StartNamespace, EndNamespace, StartAdoption, EndAdoption, EndNamespaces
    <2>. QED
      BY <1>1, <1>2, <1>6, <2>1, SmoothNamespaces DEF CalmInv
  <1>7. CASE CreateAccepted \/ ReadRow \/ Confirm \/ WriteRow
    <2>1. pc' # "publish" /\ pc \notin {"idle", "publish"} /\ calm' = calm
      BY <1>7
      DEF CreateAccepted, ReadRow, Confirm, WriteRow, Finish, Hold
    <2>. QED
      BY <1>1, <1>2, <1>7, <2>1, SmoothWriting DEF CalmInv
  <1>8. CASE ReadCandidate \/ Claim
    <2>1. pc' # "publish" /\ pc \notin {"idle", "publish"} /\ calm' = calm
      BY <1>8 DEF ReadCandidate, Claim, Hold, Skip
    <2>. QED
      BY <1>1, <1>2, <1>8, <2>1, SmoothClaiming DEF CalmInv
  <1>9. CASE \/ Defer \/ Withhold \/ CreateRefused \/ Readback \/ VerifyAbsent \/ VerifyExact
             \/ VerifyUnproven \/ AssertCreated \/ AssertRefused \/ WriteRefused \/ Replay
             \/ ClaimRefused
    <2>1. pc \notin {"idle", "publish"}
      BY <1>9
      DEF Defer, Withhold, CreateRefused, Readback, VerifyAbsent, VerifyExact,
          VerifyUnproven, AssertCreated, AssertRefused, WriteRefused, Replay, ClaimRefused
    <2>2. calm' = calm \/ calm' = FALSE
      BY <1>9
      DEF Defer, Withhold, CreateRefused, Readback, VerifyAbsent, VerifyExact,
          VerifyUnproven, AssertCreated, AssertRefused, WriteRefused, Replay, ClaimRefused,
          Fault
    <2>. QED
      BY <1>1, <1>9, <2>1, <2>2, NothingRefused DEF CalmInv
  <1>10. CASE Record
    <2>1. pc = "record" /\ pc' = "publish" /\ calm' = calm /\ UNCHANGED viewVars
      BY <1>10 DEF Record
    <2>2. CASE calm /\ blocked = {}
      <3>1. Smooth
        BY <2>1, <2>2 DEF CalmInv
      <3>. QED
        BY <1>10, <2>1, <2>2, <3>1, CalmRecord
        DEF CalmInv, CalmRunConverges, DeclaredRowsAreManaged
    <2>. QED
      BY <1>1, <2>1, <2>2 DEF CalmInv, CalmRunConverges, DeclaredRowsAreManaged
  <1>11. CASE Publish
    BY <1>3, <1>11 DEF Publish, Reset
  <1>12. CASE Environment
    <2>1. CASE AdminPut \/ AdminDelete \/ SpecImport
      BY <1>1, <2>1 DEF AdminPut, AdminDelete, SpecImport, OtherWrite, Disturb
    <2>2. CASE LateCommit
      <3>1. landing # NoDoc /\ pc' = pc
        BY <2>2 DEF LateCommit, Declared, NoDoc, Disturb
      <3>2. \/ ~calm'
            \/ UNCHANGED <<live, ledgerVars, viewVars, progressVars, resultVars, calm>>
        BY <2>2 DEF LateCommit, Disturb
      <3>3. CASE pc \notin {"idle", "publish"}
        BY <1>1, <3>1, <3>2, <3>3 DEF CalmInv, Smooth
      <3>4. CASE pc \in {"idle", "publish"}
        <4>1. ASSUME UNCHANGED <<live, ledgerVars, viewVars, progressVars, resultVars, calm>>
              PROVE  CalmInv'
          <5>1. \A k : AsDeclared(desired, k)' <=> AsDeclared(desired, k)
            BY <4>1 DEF AsDeclared
          <5>2. KeysIn(nss)' = KeysIn(nss) /\ Declared(desired)' = Declared(desired)
            BY <4>1
          <5>. QED
            BY <3>4, <4>1, <5>1, <5>2 DEF CalmInv, CalmRunConverges, DeclaredRowsAreManaged
        <4>. QED
          BY <1>1, <3>2, <4>1
      <3>. QED
        BY <3>3, <3>4
    <2>. QED
      BY <1>12, <2>1, <2>2 DEF Environment
  <1>13. CASE UNCHANGED vars
    <2>1. /\ \A k : AsDeclared(desired, k)' <=> AsDeclared(desired, k)
          /\ \A k : Stands(k)' <=> Stands(k)
          /\ \A o : Done(o)' <=> Done(o)
          /\ Adopting' <=> Adopting
      BY <1>13 DEF vars, AsDeclared, Stands, Done, Backup, Adopting
    <2>2. /\ KeysIn(nss)' = KeysIn(nss) /\ Declared(desired)' = Declared(desired)
          /\ Live(plan)' = Live(plan)
          /\ KeysOf(applied, Action)' = KeysOf(applied, Action)
      BY <1>13 DEF vars
    <2>3. Smooth => Smooth'
      BY <1>13, <2>1, <2>2 DEF vars, Smooth
    <2>. QED
      BY <1>13, <2>1, <2>2, <2>3 DEF vars, CalmInv, CalmRunConverges, DeclaredRowsAreManaged
  <1>. QED
    BY <1>4, <1>5, <1>6, <1>7, <1>8, <1>9, <1>10, <1>11, <1>12, <1>13
    DEF Next, RunStep


(* The rest of the invariant, with what it rests on.                       *)
LEMMA ConvergenceInductive == Spec => [](RunIInv /\ NormInv /\ CalmInv)
  <1>1. Init => NormInv /\ CalmInv
    <2>1. SUFFICES ASSUME Init PROVE NormInv /\ CalmInv
      OBVIOUS
    <2>2. CalmInv
      BY <2>1 DEF Init, CalmInv, CalmRunConverges, DeclaredRowsAreManaged
    <2>3. NormInv
      BY <2>1, NormalFormAssumption DEF Init, NormInv, NoDoc, Declared, Consumers
    <2>. QED
      BY <2>2, <2>3
  <1>2. RunIInv /\ RunIInv' /\ NormInv /\ CalmInv /\ [Next]_vars => NormInv' /\ CalmInv'
    BY NormNext, CalmNext DEF RunIInv, FreshIInv, IInv
  <1>. QED
    BY <1>1, <1>2, RunInductive, PTL DEF Spec

(***************************************************************************)
(* No history of crashes, lost answers and edits wedges an environment: a  *)
(* run that nothing disturbs succeeds but for ownership conflicts, and     *)
(* leaves every row of its namespaces as the repository declares it.       *)
(***************************************************************************)
THEOREM CalmRunsAlwaysConverge == Spec => []CalmRunConverges
  <1>1. CalmInv => CalmRunConverges
    BY DEF CalmInv
  <1>. QED
    BY <1>1, ConvergenceInductive, PTL

(***************************************************************************)
(* After such a run everything declared is in the delete fence, but for    *)
(* rows stored before a normalization rule that shared mode cannot claim.  *)
(***************************************************************************)
THEOREM AdoptionIsComplete == Spec => []DeclaredRowsAreManaged
  <1>1. CalmInv => DeclaredRowsAreManaged
    BY DEF CalmInv
  <1>. QED
    BY <1>1, ConvergenceInductive, PTL

=============================================================================
