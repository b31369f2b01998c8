------------------------- MODULE CredentialBroker --------------------------
(***************************************************************************)
(* Credential allocation, delivery and rotation (src/secrets/allocator.rs, *)
(* resolver.rs; main.rs allocate_if_needed, cmd_rotate): a run generates   *)
(* the values its Consumers lack, stores them in the write-only GitHub     *)
(* secrets, journals them, hands the ciphertexts over and only then pushes *)
(* rows; a later run tells a retry from a retired value by the ledger.     *)
(*                                                                         *)
(* A Consumer has one slot and a namespace of its own, and is named by the *)
(* slot.  The concurrency group makes runs serial.  Apply.tla details the  *)
(* push, which is one step per row here.  Ownership is shared.             *)
(***************************************************************************)
EXTENDS Shards

CONSTANTS
    Author, Nobody,  \* recipients a run may have; Nobody: none configured
    Modes,           \* subset of {"strict", "partial", "remap"}
    Blockable,       \* slots whose namespace preflight may refuse
    OnlyRefused,     \* operators retire refused slots only, between runs
    MaxRevision, MaxRotations, MaxFaults,   \* bounds
    NoRow, Foreign,  \* a row that is absent; one an administrator wrote
    NoSlot

ASSUME BrokerAssumption ==
    /\ Nobody \in Author
    /\ Modes \subseteq {"strict", "partial", "remap"}
    /\ Blockable \subseteq Slot
    /\ OnlyRefused \in BOOLEAN
    /\ MaxRevision \in Nat \ {0}
    /\ MaxRotations \in Nat
    /\ MaxFaults \in Nat
    /\ NoRow \notin Value \cup {NoValue, Foreign}
    /\ Foreign \notin Value \cup {NoValue}
    /\ NoSlot \notin Slot

L == INSTANCE Ledger WITH Namespace <- Slot, Key <- Slot, NsOf <- [s \in Slot |-> s]

VARIABLES
    secrets,    \* the GitHub Environment Secrets
    row,        \* the value each Consumer's row holds
    declared, revision, author,   \* the branch head
    committed,  \* the ledger file on the default branch
    disk,       \* the ledger file in the runner's work tree
    phase,      \* where the run is
    target,     \* the slot a rotation replaces, NoSlot in an apply
    mem,        \* the run's ledger
    shards,     \* per_shard: the bundles as loaded, and what the run stored
    shardCount, \* the run's shard count
    todo,       \* slots still to be planned
    plan,       \* the shard of each planned slot
    fresh,      \* the value generated for it
    out,        \* outcome.allocated: slots whose PUT was confirmed
    blocked,    \* slots of refused namespaces
    adds, ops,  \* planned creates; planned operations not yet attempted
    landed,     \* operations that landed
    fenced,     \* rows still at the version the run read
    failed,
    surfaced,   \* history: values whose ciphertext was handed over
    lost,       \* history: values a crash or an ambiguous PUT left unheld
    untracked,  \* history: stored values whose journal entry was lost
    retired,    \* history: values of Consumers this environment let go
    unrecorded, \* history: rotated values whose publication failed
    born,       \* history: the revision each value was generated under
    made, rotations, faults   \* budgets spent

repoVars    == <<declared, revision, author>>
ledgerVars  == <<committed, disk>>
planVars    == <<shardCount, todo, plan, fresh>>
pushVars    == <<adds, ops, landed, fenced>>
historyVars == <<surfaced, lost, untracked, retired, unrecorded, born>>
vars == <<secrets, row, repoVars, ledgerVars, phase, target, mem, shards, planVars,
          out, blocked, pushVars, failed, historyVars, made, rotations, faults>>

Metadata   == [at : Value \cup {NoValue}, revision : 0 .. MaxRevision, recipient : Author]
NoMetadata == [at |-> NoValue, revision |-> 0, recipient |-> Nobody]

(***************************************************************************)
(* The ledger: `resources` and `pending_creates`, `credentials` (a record  *)
(* is dated by the value it describes), `credential_shard_count`, and the  *)
(* last value generated before `last_applied_at`.                          *)
(***************************************************************************)
StateFile == [keys : L!LedgerType, meta : [Slot -> Metadata],
              count : 0 .. MaxShards, applied : Value \cup {NoValue}]
NewState  == [keys |-> L!EmptyLedger, meta |-> [s \in Slot |-> NoMetadata],
              count |-> 0, applied |-> NoValue]

Known(l) == l.keys.managed \cup l.keys.pending

(* An allocation after the last clean apply, by this very apply. *)

PendingAllocation(l, s) ==
    /\ l.meta[s].at > l.applied
    /\ author # Nobody
    /\ l.meta[s].recipient = author
    /\ l.meta[s].revision = revision

(* check_consumer_ledger: values a run may not resolve, or must not keep. *)
Revived(l)  == {s \in declared : /\ Merged(secrets, s) # NoValue
                                 /\ s \notin Known(l)
                                 /\ ~PendingAllocation(l, s)}
Orphaned(l) == {s \in Slot \ declared : Merged(secrets, s) # NoValue /\ s \in Known(l)}

Refused(l, mode) ==
    CASE mode = "remap"   -> {}
      [] mode = "partial" -> Revived(l)
      [] mode = "strict"  -> Revived(l) \cup Orphaned(l)

(* Values and rows this environment no longer stands for. *)
Abandoned(l, d) == {Merged(secrets, s) : s \in Slot \ (d \cup Known(l))} \ {NoValue}

Fault == faults < MaxFaults /\ faults' = faults + 1

(***************************************************************************)
(* The bundle with the whole batch planned so far, and the body of a PUT.  *)
(***************************************************************************)
Staged == [sh \in Shard |-> [s \in Slot |-> IF plan[s] = sh THEN fresh[s] ELSE shards[sh][s]]]

Planning_Unstaged == shards   \* mutant: each slot placed as if it were alone

Planning == Staged

Body_BatchOnly(sh) ==         \* mutant: only the new slots are written
    [s \in Slot |-> IF plan[s] = sh THEN fresh[s] ELSE NoValue]

Body(sh) == Staged[sh]

Batch(sh) == {s \in Slot : plan[s] = sh}
Unsent    == {plan[s] : s \in Slot \ out} \ {NoShard}
Allocated == {fresh[s] : s \in out}

-----------------------------------------------------------------------------
TypeOK ==
    /\ secrets \in Bundles
    /\ row \in [Slot -> Value \cup {NoRow, Foreign}]
    /\ declared \subseteq Slot
    /\ revision \in 1 .. MaxRevision
    /\ author \in Author
    /\ {committed, disk, mem} \subseteq StateFile
    /\ phase \in {"idle", "plan", "put", "journal", "surface", "reserve", "push",
                  "publish", "ended"}
    /\ target \in Slot \cup {NoSlot}
    /\ shards \in Bundles
    /\ shardCount \in 0 .. MaxShards
    /\ plan \in [Slot -> Shard \cup {NoShard}]
    /\ fresh \in [Slot -> Value \cup {NoValue}]
    /\ {todo, out, blocked, adds, ops, landed, fenced} \subseteq SUBSET Slot
    /\ failed \in BOOLEAN
    /\ {surfaced, lost, untracked, retired, unrecorded} \subseteq SUBSET Value
    /\ born \in [Value -> 0 .. MaxRevision]
    /\ made \in 0 .. MaxValue
    /\ rotations \in 0 .. MaxRotations
    /\ faults \in 0 .. MaxFaults

Init ==
    /\ secrets = Empty
    /\ row = [s \in Slot |-> NoRow]
    /\ declared \in SUBSET Slot
    /\ revision = 1
    /\ author \in Author
    /\ committed = NewState /\ disk = NewState
    /\ phase = "idle" /\ target = NoSlot /\ mem = NewState
    /\ shards = Empty /\ shardCount = 0
    /\ plan = [s \in Slot |-> NoShard] /\ fresh = [s \in Slot |-> NoValue]
    /\ todo = {} /\ out = {} /\ blocked = {}
    /\ adds = {} /\ ops = {} /\ landed = {} /\ fenced = {} /\ failed = FALSE
    /\ surfaced = {} /\ lost = {} /\ untracked = {} /\ retired = {} /\ unrecorded = {}
    /\ born = [v \in Value |-> 0]
    /\ made = 0 /\ rotations = 0 /\ faults = 0

-----------------------------------------------------------------------------
(* The repository and the operators.                                       *)

(* A merge moves the branch head.  A run reads its checkout once and the   *)
(* freshness guard lets only the head's run write, so merges come between. *)
Merge ==
    /\ phase = "idle"
    /\ revision < MaxRevision
    /\ revision' = revision + 1
    /\ declared' \in SUBSET Slot
    /\ author' \in Author
    /\ retired' = retired \cup Abandoned(committed, declared')
    /\ UNCHANGED <<secrets, row, ledgerVars, phase, target, mem, shards, planVars, out,
                   blocked, pushVars, failed, surfaced, lost, untracked, unrecorded,
                   born, made, rotations, faults>>

(* An operator removes a slot from the bundle: always, or when refused. *)
Retire(s) ==
    /\ Holders(secrets, s) # {}
    /\ OnlyRefused => phase = "idle" /\ s \in Refused(committed, "strict")
    /\ secrets' = [sh \in Shard |-> [secrets[sh] EXCEPT ![s] = NoValue]]
    /\ UNCHANGED <<row, repoVars, ledgerVars, phase, target, mem, shards, planVars, out,
                   blocked, pushVars, failed, historyVars, made, rotations, faults>>

(* An administrator deletes or rewrites a row behind the repository. *)
AdminEdit(s) ==
    /\ Fault
    /\ row' \in {[row EXCEPT ![s] = v] : v \in {NoRow, Foreign} \ {row[s]}}
    /\ fenced' = fenced \ {s}
    /\ UNCHANGED <<secrets, repoVars, ledgerVars, phase, target, mem, shards, planVars,
                   out, blocked, adds, ops, landed, failed, historyVars, made, rotations>>

-----------------------------------------------------------------------------
(* A run starts: an apply or a rotation.                                   *)

(* Both load the ledger and the bundle, and read the rows they may change. *)
Load ==
    /\ phase = "idle"
    /\ shards' = secrets
    /\ shardCount' = Max({committed.count, 1})
    /\ fenced' = Slot
    /\ UNCHANGED <<secrets, row, repoVars, committed, plan, fresh, out, landed, failed,
                   surfaced, lost, untracked, unrecorded, born, made, faults>>

(* A refusal writes nothing: the run that would be refused does not begin. *)
BeginApply(mode) ==
    /\ Load
    /\ Refused(committed, mode) = {}
    /\ blocked' \in SUBSET Blockable
    /\ LET present == {s \in Slot : row[s] # NoRow}
           keys    == L!ReconcilePending(committed.keys, declared, Slot)
           mine    == Slot \ blocked'
       IN  /\ mem' = [committed EXCEPT !.keys = L!ReconcileAbsent(keys, declared, present, Slot)]
           /\ todo' = {s \in declared \cap mine : Merged(secrets, s) = NoValue}
           /\ adds' = (declared \cap mine) \ present
           /\ ops' = {s \in mine : IF s \in declared THEN row[s] # Merged(secrets, s)
                                   ELSE s \in present \cap mem'.keys.managed}
    /\ disk' = mem'
    /\ retired' = IF mode = "remap" THEN retired \ {Merged(secrets, s) : s \in declared}
                  ELSE retired
    /\ phase' = IF todo' = {} THEN "reserve" ELSE "plan"
    /\ UNCHANGED <<target, rotations>>

(* The Consumer is owned and its row still holds the bundle's value. *)
BeginRotate(s) ==
    /\ Load
    /\ rotations < MaxRotations
    /\ s \in declared \cap committed.keys.managed
    /\ row[s] # NoRow
    /\ Merged(secrets, s) \in {NoValue, row[s]}
    /\ target' = s
    /\ todo' = {s}
    /\ mem' = committed
    /\ disk' = committed
    /\ rotations' = rotations + 1
    /\ phase' = "plan"
    /\ UNCHANGED <<blocked, adds, ops, retired>>

-----------------------------------------------------------------------------
(* Allocation: plan every slot, then one PUT per shard in ascending order. *)

(* A slot with no shard to go to refuses the batch before any write. *)
PlanSlot(s) ==
    /\ phase = "plan"
    /\ s \in todo
    /\ made < MaxValue
    /\ LET r == ReserveShard(s, Planning, Max({shardCount, 1}))
       IN  /\ shardCount' = r.count
           /\ plan' = [plan EXCEPT ![s] = r.shard]
           /\ failed' = (r.shard = NoShard)
    /\ made' = made + 1
    /\ fresh' = [fresh EXCEPT ![s] = made']
    /\ born' = [born EXCEPT ![made'] = revision]
    /\ todo' = todo \ {s}
    /\ phase' = IF failed' THEN "ended" ELSE IF todo' = {} THEN "put" ELSE "plan"
    /\ UNCHANGED <<secrets, row, repoVars, ledgerVars, target, mem, shards, out, blocked,
                   pushVars, surfaced, lost, untracked, retired, unrecorded, rotations,
                   faults>>

(* GitHub confirms the next shard: its slots join the outcome. *)
PutStored ==
    /\ phase = "put"
    /\ LET sh == Min(Unsent)
       IN  /\ secrets' = [secrets EXCEPT ![sh] = Body(sh)]
           /\ shards' = [shards EXCEPT ![sh] = Body(sh)]
           /\ out' = out \cup Batch(sh)
           /\ phase' = IF Unsent # {sh} THEN "put"
                       ELSE IF target = NoSlot THEN "journal" ELSE "surface"
    /\ UNCHANGED <<row, repoVars, ledgerVars, target, mem, planVars, blocked, pushVars,
                   failed, historyVars, made, rotations, faults>>

(***************************************************************************)
(* A PUT is refused, or was stored without its answer arriving; the shards *)
(* after it are not attempted.  Before the first PUT this is also a lookup *)
(* of the recipient's or the environment's key that fails.  A rotation     *)
(* reports an empty outcome.                                               *)
(***************************************************************************)
PutFails ==
    /\ phase = "put"
    /\ Fault
    /\ LET sh     == Min(Unsent)
           batch  == {fresh[s] : s \in Batch(sh)}
       IN  \/ UNCHANGED <<secrets, lost, untracked>>
           \/ /\ secrets' = [secrets EXCEPT ![sh] = Body(sh)]
              /\ lost' = lost \cup batch
              /\ untracked' = untracked \cup batch
    /\ failed' = TRUE
    /\ phase' = IF target = NoSlot THEN "journal" ELSE "ended"
    /\ UNCHANGED <<row, repoVars, ledgerVars, target, mem, shards, planVars, out, blocked,
                   pushVars, surfaced, retired, unrecorded, born, made, rotations>>

RecordAllocation_Unbound(l) ==   \* mutant: the binding left out
    [l EXCEPT !.meta = [s \in Slot |->
        IF s \in out THEN [NoMetadata EXCEPT !.at = fresh[s]] ELSE @[s]]]

(* The slots whose shard was stored, bound to this revision and recipient. *)
RecordAllocation(l) ==
    [l EXCEPT
        !.meta = [s \in Slot |->
            IF s \in out THEN [at |-> fresh[s], revision |-> revision, recipient |-> author]
            ELSE @[s]],
        !.count = Max({@} \cup {plan[s] + 1 : s \in out})]

Journal ==
    /\ phase = "journal"
    /\ mem' = RecordAllocation(mem)
    /\ disk' = mem'
    /\ phase' = "surface"
    /\ UNCHANGED <<secrets, row, repoVars, committed, target, shards, planVars, out,
                   blocked, pushVars, failed, historyVars, made, rotations, faults>>

JournalFails ==
    /\ phase = "journal"
    /\ out # {}
    /\ Fault
    /\ mem' = RecordAllocation(mem)
    /\ failed' = TRUE
    /\ untracked' = untracked \cup Allocated
    /\ phase' = "surface"
    /\ UNCHANGED <<secrets, row, repoVars, ledgerVars, target, shards, planVars, out,
                   blocked, pushVars, surfaced, lost, retired, unrecorded, born, made,
                   rotations>>

Handed_OnSuccess ==              \* mutant: a failed batch hands nothing over
    IF failed THEN {} ELSE Allocated

Handed == Allocated

(* Hand the ciphertexts over before anything else can fail. *)
Surface ==
    /\ phase = "surface"
    /\ surfaced' = surfaced \cup Handed
    /\ phase' = IF failed THEN "ended" ELSE IF target = NoSlot THEN "reserve" ELSE "publish"
    /\ UNCHANGED <<secrets, row, repoVars, ledgerVars, target, mem, shards, planVars, out,
                   blocked, pushVars, failed, lost, untracked, retired, unrecorded, born,
                   made, rotations, faults>>

-----------------------------------------------------------------------------
(* The push of an apply, and its record.                                   *)

ActOf(s) == IF s \notin declared THEN "Delete" ELSE IF s \in adds THEN "Add" ELSE "Modify"
OpsOf(S) == {[key |-> s, act |-> ActOf(s)] : s \in S}

ReserveAdds ==
    /\ phase = "reserve"
    /\ mem' = [mem EXCEPT !.keys = L!ReserveAdds(@, OpsOf(ops))]
    /\ disk' = mem'
    /\ phase' = "push"
    /\ UNCHANGED <<secrets, row, repoVars, committed, target, shards, planVars, out,
                   blocked, pushVars, failed, historyVars, made, rotations, faults>>

(* The gateway accepts: the row is absent, or still at the version read. *)
Accepts(s) ==
    IF ActOf(s) = "Add" THEN row[s] = NoRow
    ELSE s \in fenced \/ (ActOf(s) = "Delete" /\ row[s] = NoRow)

Pushed(s) == [row EXCEPT ![s] = IF s \in declared THEN Merged(shards, s) ELSE NoRow]

PushOp(s) ==
    /\ phase = "push"
    /\ s \in ops
    /\ ops' = ops \ {s}
    /\ row' = IF Accepts(s) THEN Pushed(s) ELSE row
    /\ landed' = IF Accepts(s) THEN landed \cup {s} ELSE landed
    /\ failed' = (failed \/ ~Accepts(s))
    /\ UNCHANGED <<secrets, repoVars, ledgerVars, phase, target, mem, shards, planVars,
                   out, blocked, adds, fenced, historyVars, made, rotations, faults>>

(* The request fails, before or after the gateway took it. *)
PushOpFails(s) ==
    /\ phase = "push"
    /\ s \in ops
    /\ Fault
    /\ ops' = ops \ {s}
    /\ row' \in {row} \cup (IF Accepts(s) THEN {Pushed(s)} ELSE {})
    /\ failed' = TRUE
    /\ UNCHANGED <<secrets, repoVars, ledgerVars, phase, target, mem, shards, planVars,
                   out, blocked, adds, landed, fenced, historyVars, made, rotations>>

Adoptable_None == {}   \* mutant: only operations are recorded

(* Rows that needed nothing; a failure may have kept them unconfirmed. *)
Adoptable == {s \in declared \ (blocked \cup landed) : row[s] = Merged(shards, s)}

(* Claims withheld because the row moved since it was read: they fail the  *)
(* run (refuse_consumer_claim).                                            *)
Withheld == declared \ (blocked \cup landed \cup mem.keys.managed \cup fenced)

(* What landed is recorded; the apply is clean if nothing was left undone. *)
Record ==
    /\ phase = "push"
    /\ ops = {}
    /\ failed' = (failed \/ Withheld # {})
    /\ \E adopted \in (IF failed' THEN SUBSET Adoptable ELSE {Adoptable}) :
         mem' = [mem EXCEPT
             !.keys = L!RecordOps(@, OpsOf(landed) \cup
                                     {[key |-> s, act |-> "Modify"] : s \in adopted}, declared),
             !.count = shardCount,
             !.applied = IF failed' \/ blocked # {} THEN @ ELSE made]
    /\ disk' = mem'
    /\ phase' = "ended"
    /\ UNCHANGED <<secrets, row, repoVars, committed, target, shards, planVars, out,
                   blocked, pushVars, historyVars, made, rotations, faults>>

-----------------------------------------------------------------------------
(* The publication of a rotation, and the end of any run.                  *)

RotationRecord == [NoMetadata EXCEPT !.at = fresh[target]]

PublishRow ==
    /\ phase = "publish"
    /\ target \in fenced
    /\ row' = [row EXCEPT ![target] = Merged(shards, target)]
    /\ mem' = [mem EXCEPT !.meta[target] = RotationRecord, !.count = shardCount]
    /\ disk' = mem'
    /\ phase' = "ended"
    /\ UNCHANGED <<secrets, repoVars, committed, target, shards, planVars, out, blocked,
                   pushVars, failed, historyVars, made, rotations, faults>>

(* The row moved on, or the request failed before or after it was taken. *)
PublishRowFails ==
    /\ phase = "publish"
    /\ \/ target \notin fenced /\ UNCHANGED <<row, faults>>
       \/ Fault /\ row' \in {row} \cup
                   (IF target \in fenced THEN {[row EXCEPT ![target] = Merged(shards, target)]}
                    ELSE {})
    /\ failed' = TRUE
    /\ unrecorded' = unrecorded \cup {fresh[target]}
    /\ phase' = "ended"
    /\ UNCHANGED <<secrets, repoVars, ledgerVars, target, mem, shards, planVars, out, blocked,
                   pushVars, surfaced, lost, untracked, retired, born, made, rotations>>

(* The process dies; the workflow still commits its ledger file. *)
Crash ==
    /\ phase \notin {"idle", "ended"}
    /\ Fault
    /\ failed' = TRUE
    /\ lost' = lost \cup (Allocated \ surfaced)
    /\ untracked' = untracked \cup {fresh[s] : s \in {r \in out : disk.meta[r].at # fresh[r]}}
    /\ phase' = "ended"
    /\ UNCHANGED <<secrets, row, repoVars, ledgerVars, target, mem, shards, planVars, out,
                   blocked, pushVars, surfaced, retired, unrecorded, born, made, rotations>>

(* The process is gone: what it held is back to its initial value. *)
Reset ==
    /\ phase = "ended"
    /\ phase' = "idle" /\ target' = NoSlot /\ mem' = NewState
    /\ shards' = Empty /\ shardCount' = 0
    /\ plan' = [s \in Slot |-> NoShard] /\ fresh' = [s \in Slot |-> NoValue]
    /\ todo' = {} /\ out' = {} /\ blocked' = {}
    /\ adds' = {} /\ ops' = {} /\ landed' = {} /\ fenced' = {} /\ failed' = FALSE
    /\ UNCHANGED <<secrets, row, repoVars, surfaced, lost, unrecorded, born, made, rotations>>

EndRun ==
    /\ Reset
    /\ committed' = disk
    /\ retired' = retired \cup Abandoned(disk, declared)
    /\ UNCHANGED <<disk, untracked, faults>>

(* The runner is lost: its ledger file was never committed. *)
LoseRun ==
    /\ Reset
    /\ Fault
    /\ disk' = committed
    /\ untracked' = untracked \cup Allocated
    /\ retired' = retired \cup Abandoned(committed, declared)
    /\ UNCHANGED committed

RunStep ==
    \/ \E s \in Slot : PlanSlot(s) \/ PushOp(s)
    \/ PutStored \/ Journal \/ Surface \/ ReserveAdds \/ Record
    \/ PublishRow \/ PublishRowFails \/ EndRun

Next ==
    \/ RunStep
    \/ Merge
    \/ \E mode \in Modes : BeginApply(mode)
    \/ \E s \in Slot : BeginRotate(s) \/ Retire(s) \/ AdminEdit(s) \/ PushOpFails(s)
    \/ PutFails \/ JournalFails \/ Crash \/ LoseRun

Spec == Init /\ [][Next]_vars

(***************************************************************************)
(* A started run is carried through by its process and the workflow's      *)
(* closing steps; an operator re-runs the apply until it begins, and       *)
(* retires what a refusal names.                                           *)
(***************************************************************************)

-----------------------------------------------------------------------------
(* No slot is ever held by two bundle secrets: the merge of the bundles    *)
(* would let a stale copy win over a rotated one, and a load refuses it    *)
(* (secrets/bundle.rs reserve_shard and merge_bundles).                    *)
OneShardPerSlot == NoSlotTwice(secrets)

(* A stored bundle stays within its limit, whatever batch was planned for  *)
(* it (the staged copy in allocate_and_deliver).                           *)
CapacityRespected == \A sh \in Shard : Cardinality(Kept(secrets, sh)) <= Capacity

(* A value the gateway serves was handed to its recipient first, unless a  *)
(* crash or an unanswered PUT came between the store and the hand-over     *)
(* (allocate_if_needed and cmd_rotate surface before they push).           *)
ServedValuesAreHeld ==
    \A s \in Slot : row[s] \in Value => row[s] \in surfaced \cup lost

(* No ciphertext of a value GitHub may not have stored is handed over.     *)
SurfacedWasStored ==
    \A s \in Slot : fresh[s] \in surfaced => s \in out

(* Between runs, a value is refused as revived only for a cause: its       *)
(* journal entry was lost, another revision generated it, or nobody was to *)
(* receive it.  A run that failed and could say so never blocks its retry. *)
RevivedHasCause ==
    phase = "idle" =>
        \A s \in Revived(committed) :
            \/ Merged(secrets, s) \in untracked
            \/ born[Merged(secrets, s)] # revision
            \/ author = Nobody

(* Between runs, a row that serves its slot's value is described by the    *)
(* committed ledger, unless the entry was lost with its run or belonged to *)
(* a rotation that could not confirm its publication: the audit record     *)
(* names the credential that authenticates.                                *)
LedgerTracksServedValues ==
    phase = "idle" =>
        \A s \in Slot : row[s] \in Value /\ row[s] = Merged(secrets, s) =>
            committed.meta[s].at = row[s] \/ row[s] \in untracked \cup unrecorded

(* A value has its cause and its record: one handed out was stored first,  *)
(* one that comes back was meant to, and whoever is served a value has     *)
(* the ledger's record of it.                                              *)
ValuesAreAccounted == SurfacedWasStored /\ RevivedHasCause /\ LedgerTracksServedValues

(* A value this environment let go never reaches a row again, unless an    *)
(* operator accepted it with --allow-credential-slot-remap.                *)
RetiredValuesStayRetired ==
    [][\A s \in Slot : row'[s] # row[s] => row'[s] \notin retired]_vars

(* A PUT replaces a whole secret: it keeps the value of every slot that is *)
(* not of its batch; only an operator's Retire takes one away.             *)
PutsKeepOtherSlots ==
    [][\A s \in Slot : Merged(secrets, s) # NoValue /\ ~Retire(s) =>
          Merged(secrets', s) \in {Merged(secrets, s), fresh[s]} \ {NoValue}]_vars

(* A PUT of one batch takes no other slot's value out of a secret, and no  *)
(* value whose Consumer was let go reaches a row again.                    *)
PutsAreSafe == PutsKeepOtherSlots /\ RetiredValuesStayRetired

(* Once merges, faults and rotations are over, every declared Consumer     *)
(* comes to be served by the value its slot holds, and owned.              *)
Served == \A s \in declared : /\ row[s] = Merged(secrets, s)
                              /\ s \in committed.keys.managed
Recovers == <>[]Served

=============================================================================
