-------------------------- MODULE CredentialProofs --------------------------
(***************************************************************************)
(* What CredentialBroker.tla maintains for every set of slots, recipients  *)
(* and modes and every number of shards: values are placed once and within *)
(* the limit, no row serves a value that was not handed over (BrokerInv),  *)
(* and the ledgers of a run and of the repository account for every value  *)
(* GitHub holds (HistoryInv).                                              *)
(***************************************************************************)
EXTENDS CredentialBroker, FiniteSetTheorems, WellFoundedInduction, TLAPS

(* A set of naturals has a least element, by the well-foundedness of <.    *)
LEMMA LeastExists ==
    ASSUME NEW S \in SUBSET Nat, S # {}
    PROVE  \E x \in S : \A y \in S : x <= y
<1> DEFINE R == {p \in Nat \X Nat : p[1] < p[2]}
<1>1. IsWellFoundedOn(R, Nat)
    BY NatLessThanWellFounded, Zenon DEF OpToRel
<1>2. PICK x \in S : \A y \in S : <<y, x>> \notin R
    BY <1>1, WFMin, Zenon
<1>3. ASSUME NEW y \in S PROVE x <= y
    <2>1. <<y, x>> \in Nat \X Nat /\ <<y, x>>[1] = y /\ <<y, x>>[2] = x
        OBVIOUS
    <2>2. ~(<<y, x>>[1] < <<y, x>>[2])
        BY <1>2, <2>1, Zenon
    <2> QED
        BY <2>1, <2>2, y \in Nat, x \in Nat
<1> QED
    BY <1>3

(* The CHOOSE of Min over naturals, and of Max over a bounded set of them, *)
(* has a witness.                                                          *)
LEMMA MinIsLeast ==
    ASSUME NEW S \in SUBSET Nat, S # {}
    PROVE  Min(S) \in S /\ \A y \in S : Min(S) <= y
<1> QED
    BY LeastExists, Zenon DEF Min

LEMMA MaxIsGreatest ==
    ASSUME NEW k \in Nat, NEW S \in SUBSET (0 .. k), S # {}
    PROVE  Max(S) \in S /\ \A y \in S : Max(S) >= y
<1> DEFINE T == {k - x : x \in S}
<1>1. T \in SUBSET Nat /\ T # {}
    <2>1. \A x \in S : k - x \in Nat
        OBVIOUS
    <2> QED
        BY <2>1, Zenon
<1>2. PICK m \in T : \A y \in T : m <= y
    BY <1>1, LeastExists
<1>3. PICK x \in S : m = k - x
    BY <1>2
<1>4. \A y \in S : x >= y
    <2> TAKE y \in S
    <2>1. m <= k - y
        BY <1>2
    <2> QED
        BY <1>3, <2>1
<1> QED
    BY <1>4, Zenon DEF Max

(* reserve_shard answers with a shard some workflow binds, or with none;   *)
(* it leaves a stored slot where it is and sends a new one where there is  *)
(* room.                                                                   *)
LEMMA PickShardRoom ==
    ASSUME NEW s \in Slot, NEW b, NEW n \in Nat \ {0}
    PROVE  /\ PickShard(s, b, n) \in Shard \cup {NoShard}
           /\ PickShard(s, b, n) # NoShard => HasRoom(b, PickShard(s, b, n))
<1> USE ShardsAssumption DEF Shard, NoShard
<1> DEFINE k    == Min({n, MaxShards})
           t    == Hash[s] % k
           open == {sh \in 0 .. k - 1 : HasRoom(b, sh)}
<1>1. k \in Nat \ {0} /\ k <= MaxShards
    BY MinIsLeast, {n, MaxShards} \in SUBSET Nat
<1>2. t \in 0 .. k - 1
    BY <1>1
<1>3. CASE HasRoom(b, t)
    BY <1>1, <1>2, <1>3 DEF PickShard
<1>4. CASE ~HasRoom(b, t) /\ open = {}
    BY <1>4 DEF PickShard
<1>5. CASE ~HasRoom(b, t) /\ open # {}
    <2>1. Min(open) \in open
        BY <1>1, <1>5, MinIsLeast, open \in SUBSET Nat
    <2>2. PickShard(s, b, n) = Min(open)
        BY <1>5 DEF PickShard
    <2> HIDE DEF open
    <2>3. Min(open) \in 0 .. k - 1 /\ HasRoom(b, Min(open))
        BY <2>1 DEF open
    <2> QED
        BY <1>1, <2>2, <2>3
<1> QED
    BY <1>3, <1>4, <1>5

LEMMA ReserveShardRoom ==
    ASSUME NEW s \in Slot, NEW b, NEW n \in 0 .. MaxShards,
           NEW r, r = ReserveShard(s, b, Max({n, 1}))
    PROVE  /\ r.count \in 0 .. MaxShards
           /\ r.shard \in Shard \cup {NoShard}
           /\ Holders(b, s) # {} => r.shard \in Holders(b, s)
           /\ Holders(b, s) = {} /\ r.shard # NoShard => HasRoom(b, r.shard)
<1> USE ShardsAssumption
<1> DEFINE m == Max({n, 1})
<1>1. m \in 1 .. MaxShards
    BY MaxIsGreatest, {n, 1} \in SUBSET (0 .. MaxShards)
<1>2. r = ReserveShard(s, b, m)
    OBVIOUS
<1> HIDE DEF m
<1>3. CASE Holders(b, s) # {}
    <2>1. Min(Holders(b, s)) \in Holders(b, s)
        BY <1>3, MinIsLeast, Holders(b, s) \in SUBSET Nat DEF Holders, Shard
    <2>2. r = [shard |-> Min(Holders(b, s)), count |-> m]
        BY <1>2, <1>3 DEF ReserveShard
    <2>3. r.shard \in Holders(b, s) /\ r.count = m
        BY <2>1, <2>2
    <2>4. Holders(b, s) \subseteq Shard
        BY DEF Holders
    <2> QED
        BY <1>1, <1>3, <2>3, <2>4
<1>4. CASE Holders(b, s) = {}
    <2> DEFINE counts == {i \in {m} \cup (m .. MaxShards) : PickShard(s, b, i) # NoShard}
               least  == Min(counts)
    <2>1. Max({m, 1}) = m
        BY <1>1, MaxIsGreatest, {m, 1} \in SUBSET (0 .. MaxShards)
    <2>2. r = IF counts = {} THEN [shard |-> NoShard, count |-> m]
              ELSE [shard |-> PickShard(s, b, least), count |-> least]
        BY <1>2, <1>4, <2>1 DEF ReserveShard, Grown
    <2>3. CASE counts = {}
        <3>1. r.shard = NoShard /\ r.count = m
            BY <2>2, <2>3
        <3> QED
            BY <1>1, <1>4, <3>1
    <2>4. CASE counts # {}
        <3>1. least \in counts
            BY <1>1, <2>4, MinIsLeast, counts \in SUBSET Nat
        <3>2. least \in 1 .. MaxShards
            BY <1>1, <3>1
        <3> HIDE DEF least
        <3>3. r.shard = PickShard(s, b, least) /\ r.count = least
            BY <2>2, <2>4
        <3> QED
            BY <1>4, <3>2, <3>3, PickShardRoom
    <2> QED
        BY <2>3, <2>4
<1> QED
    BY <1>3, <1>4

-----------------------------------------------------------------------------
(***************************************************************************)
(* The inductive invariant.  Where a run is in its batch:                  *)
(***************************************************************************)
RunShape ==
    /\ phase \in {"idle", "plan", "put"} => ~failed
    /\ phase = "idle" => /\ target = NoSlot
                         /\ out = {} /\ ops = {}
                         /\ plan = [s \in Slot |-> NoShard]
    /\ phase = "plan" => out = {} /\ \A s \in todo : plan[s] = NoShard
    /\ phase = "put" => Unsent # {}
    /\ phase = "publish" => target # NoSlot
    /\ \A s \in Slot : plan[s] # NoShard => fresh[s] \in Value
    /\ \A s \in out : plan[s] # NoShard
    /\ target # NoSlot => /\ phase \notin {"journal", "reserve", "push"}
                          /\ phase \in {"surface", "publish"} => target \in out
                          /\ todo \subseteq {target}
                          /\ \A s \in Slot \ {target} : plan[s] = NoShard

(* While it allocates, the run's bundle covers what GitHub holds, and a    *)
(* planned slot lives nowhere but where it is planned.                     *)
Placed ==
    /\ NoSlotTwice(secrets)
    /\ NoSlotTwice(shards)
    /\ phase \in {"plan", "put"} =>
         \A s \in Slot : /\ Holders(secrets, s) \subseteq Holders(shards, s)
                         /\ plan[s] # NoShard => Holders(shards, s) \subseteq {plan[s]}

(* The whole batch fits, not only what was stored of it.                   *)
Fits ==
    /\ CapacityRespected
    /\ phase \in {"plan", "put"} => \A sh \in Shard : Cardinality(Kept(Staged, sh)) <= Capacity

(* Every stored value was handed over, was lost to a failure, or is in the *)
(* outcome of a run that has yet to hand it over.                          *)
Accounted == surfaced \cup lost
Values(bundle) == {bundle[sh][s] : sh \in Shard, s \in Slot} \ {NoValue}

Held ==
    /\ Values(secrets) \cup Values(shards) \subseteq Accounted \cup Allocated
    /\ phase \in {"reserve", "push", "publish", "ended"} => Allocated \subseteq Accounted
    /\ ServedValuesAreHeld

(* The slots of the rows a run will write have a value, or are yet to be   *)
(* given one by the batch.                                                 *)
Wanted == (ops \cap declared) \cup ({target} \ {NoSlot})

Provided ==
    \A s \in Wanted :
        /\ phase = "plan" => s \in todo \/ plan[s] # NoShard \/ Holders(shards, s) # {}
        /\ phase = "put"  => (plan[s] # NoShard /\ s \notin out) \/ Holders(shards, s) # {}
        /\ (phase \in {"journal", "surface"} /\ ~failed) \/ phase \in {"reserve", "push", "publish"}
             => Holders(shards, s) # {}

BrokerInv == TypeOK /\ RunShape /\ Placed /\ Fits /\ Held /\ Provided

-----------------------------------------------------------------------------
(* What the bundle operators return, in terms of the batch.                *)
LEMMA MergedIsHeld ==
    ASSUME NEW bundle \in Bundles, NEW s \in Slot, Holders(bundle, s) # {}
    PROVE  Merged(bundle, s) \in Values(bundle) /\ Merged(bundle, s) \in Value
<1> USE ShardsAssumption
<1> DEFINE sh == Max(Holders(bundle, s))
<1>1. sh \in Holders(bundle, s)
    <2>1. Holders(bundle, s) \in SUBSET (0 .. MaxShards)
        BY DEF Holders, Shard
    <2> QED
        BY <2>1, MaxIsGreatest
<1>2. Merged(bundle, s) = bundle[sh][s]
    BY DEF Merged
<1> HIDE DEF sh
<1>3. sh \in Shard /\ bundle[sh][s] # NoValue
    BY <1>1 DEF Holders
<1>4. bundle[sh][s] \in Value \cup {NoValue}
    BY <1>3 DEF Bundles
<1> QED
    BY <1>2, <1>3, <1>4 DEF Values

LEMMA StagedType ==
    ASSUME TypeOK
    PROVE  Staged \in Bundles
BY DEF TypeOK, Staged, Bundles

(* The next PUT goes to a shard that slots of the batch are planned for.   *)
LEMMA NextShard ==
    ASSUME TypeOK, RunShape, phase = "put"
    PROVE  /\ Min(Unsent) \in Shard
           /\ Min(Unsent) \in Unsent
           /\ Body(Min(Unsent)) \in [Slot -> Value \cup {NoValue}]
           /\ {fresh[s] : s \in Batch(Min(Unsent))} \subseteq Value
<1> USE ShardsAssumption
<1>1. Unsent \subseteq Shard /\ Unsent # {}
    BY DEF TypeOK, RunShape, Unsent
<1>2. Min(Unsent) \in Unsent
    BY <1>1, MinIsLeast, Unsent \in SUBSET Nat DEF Shard
<1> DEFINE sh == Min(Unsent)
<1>3. sh \in Shard /\ sh \in Unsent
    BY <1>1, <1>2
<1> HIDE DEF sh
<1>4. Body(sh) \in [Slot -> Value \cup {NoValue}]
    BY <1>3, StagedType DEF Body, Bundles
<1>5. {fresh[s] : s \in Batch(sh)} \subseteq Value
    BY <1>3 DEF Batch, RunShape, Shard, NoShard
<1> QED
    BY <1>3, <1>4, <1>5 DEF sh

-----------------------------------------------------------------------------
(* The ledger operations keep a ledger a ledger.                           *)
LEMMA CountGrows ==
    ASSUME NEW n \in 0 .. MaxShards
    PROVE  Max({n, 1}) \in 0 .. MaxShards
<1> USE ShardsAssumption
<1>1. {n, 1} \in SUBSET (0 .. MaxShards)
    OBVIOUS
<1> QED
    BY <1>1, MaxIsGreatest

LEMMA KeysOfOps ==
    ASSUME NEW S \in SUBSET Slot, NEW acts
    PROVE  L!KeysOf(OpsOf(S), acts) \subseteq Slot
BY DEF L!KeysOf, OpsOf

LEMMA RecordAllocationType ==
    ASSUME TypeOK, RunShape
    PROVE  RecordAllocation(mem) \in StateFile
<1> USE ShardsAssumption, BrokerAssumption
<1> DEFINE counts == {mem.count} \cup {plan[s] + 1 : s \in out}
           meta   == [s \in Slot |->
                        IF s \in out THEN [at |-> fresh[s], revision |-> revision, recipient |-> author]
                        ELSE mem.meta[s]]
<1>1. \A s \in out : plan[s] \in Shard /\ fresh[s] \in Value
    BY DEF TypeOK, RunShape
<1>2. mem \in StateFile
    BY DEF TypeOK
<1>3. Max(counts) \in 0 .. MaxShards
    <2>1. counts \in SUBSET (0 .. MaxShards)
        BY <1>1, <1>2 DEF StateFile, Shard
    <2> QED
        BY <2>1, MaxIsGreatest
<1>4. meta \in [Slot -> Metadata]
    BY <1>1, <1>2 DEF TypeOK, StateFile, Metadata
<1>5. RecordAllocation(mem) = [mem EXCEPT !.meta = meta, !.count = Max(counts)]
    BY DEF RecordAllocation
<1> HIDE DEF meta, counts
<1> QED
    BY <1>2, <1>3, <1>4, <1>5 DEF StateFile

(* What a run pushes to a declared row it wants is a value.                *)
LEMMA PushedType ==
    ASSUME TypeOK, NEW s \in Slot,
           s \in declared => Holders(shards, s) # {}
    PROVE  Pushed(s) \in [Slot -> Value \cup {NoRow, Foreign}]
BY MergedIsHeld DEF Pushed, TypeOK

LEMMA TypeStep ==
    ASSUME TypeOK, RunShape, Provided, [Next]_vars
    PROVE  TypeOK'
<1> USE ShardsAssumption, BrokerAssumption
<1>1. CASE UNCHANGED vars
    BY <1>1 DEF TypeOK, vars, repoVars, ledgerVars, planVars, pushVars, historyVars
<1>2. ASSUME NEW s \in Slot, PlanSlot(s) PROVE TypeOK'
    <2> DEFINE r == ReserveShard(s, Planning, Max({shardCount, 1}))
    <2>1. r.count \in 0 .. MaxShards /\ r.shard \in Shard \cup {NoShard}
        BY ReserveShardRoom DEF TypeOK
    <2> HIDE DEF r
    <2>2. made' \in Value
        BY <1>2 DEF PlanSlot, TypeOK, Value
    <2>3. /\ shardCount' = r.count
          /\ plan' = [plan EXCEPT ![s] = r.shard]
          /\ failed' = (r.shard = NoShard)
        BY <1>2 DEF PlanSlot, r
    <2>4. failed' \in BOOLEAN
        BY <2>3
    <2>5. /\ born' \in [Value -> 0 .. MaxRevision]
          /\ fresh' \in [Slot -> Value \cup {NoValue}]
          /\ plan' \in [Slot -> Shard \cup {NoShard}]
        BY <1>2, <2>1, <2>2, <2>3 DEF PlanSlot, TypeOK
    <2> QED
        BY <1>2, <2>1, <2>2, <2>3, <2>4, <2>5
        DEF PlanSlot, TypeOK, Value, repoVars, ledgerVars, pushVars
<1>3. ASSUME NEW s \in Slot, PushOp(s) PROVE TypeOK'
    <2>1. s \in declared => Holders(shards, s) # {}
        BY <1>3 DEF PushOp, Provided, Wanted
    <2> QED
        BY <1>3, <2>1, PushedType DEF PushOp, TypeOK, repoVars, ledgerVars, planVars, historyVars
<1>4. ASSUME NEW s \in Slot, PushOpFails(s) PROVE TypeOK'
    <2>1. s \in declared => Holders(shards, s) # {}
        BY <1>4 DEF PushOpFails, Provided, Wanted
    <2> QED
        BY <1>4, <2>1, PushedType
        DEF PushOpFails, Fault, TypeOK, repoVars, ledgerVars, planVars, historyVars
<1>5. CASE PutStored
    BY <1>5, NextShard
    DEF PutStored, TypeOK, Bundles, Batch, repoVars, ledgerVars, planVars, pushVars, historyVars
<1>6. CASE PutFails
    <2> DEFINE sh == Min(Unsent)
    <2>1. /\ sh \in Shard
          /\ Body(sh) \in [Slot -> Value \cup {NoValue}]
          /\ {fresh[s] : s \in Batch(sh)} \subseteq Value
        BY <1>6, NextShard DEF PutFails
    <2>2. \/ UNCHANGED <<secrets, lost, untracked>>
          \/ /\ secrets' = [secrets EXCEPT ![sh] = Body(sh)]
             /\ lost' = lost \cup {fresh[s] : s \in Batch(sh)}
             /\ untracked' = untracked \cup {fresh[s] : s \in Batch(sh)}
        BY <1>6 DEF PutFails
    <2> HIDE DEF sh
    <2>3. secrets' \in Bundles /\ lost' \subseteq Value /\ untracked' \subseteq Value
        BY <2>1, <2>2 DEF TypeOK, Bundles
    <2> QED
        BY <1>6, <2>3
        DEF PutFails, Fault, TypeOK, repoVars, ledgerVars, planVars, pushVars
<1>7. CASE Journal
    BY <1>7, RecordAllocationType
    DEF Journal, TypeOK, repoVars, planVars, pushVars, historyVars
<1>8. CASE JournalFails
    <2>1. Allocated \subseteq Value
        BY DEF Allocated, RunShape, TypeOK
    <2> QED
        BY <1>8, <2>1, RecordAllocationType
        DEF JournalFails, Fault, TypeOK, repoVars, ledgerVars, planVars, pushVars
<1>9. CASE Surface
    <2>1. Allocated \subseteq Value
        BY DEF Allocated, RunShape, TypeOK
    <2> QED
        BY <1>9, <2>1 DEF Surface, Handed, TypeOK, repoVars, ledgerVars, planVars, pushVars
<1>10. CASE ReserveAdds
    <2>1. mem' \in StateFile
        BY <1>10, KeysOfOps DEF ReserveAdds, TypeOK, StateFile, L!ReserveAdds, L!LedgerType
    <2> QED
        BY <1>10, <2>1 DEF ReserveAdds, TypeOK, repoVars, planVars, pushVars, historyVars
<1>11. CASE Record
    <2>1. PICK adopted \in SUBSET Adoptable :
             mem' = [mem EXCEPT
                 !.keys = L!RecordOps(@, OpsOf(landed) \cup
                                         {[key |-> s, act |-> "Modify"] : s \in adopted}, declared),
                 !.count = shardCount,
                 !.applied = IF failed' \/ blocked # {} THEN @ ELSE made]
        BY <1>11 DEF Record
    <2> DEFINE recorded == OpsOf(landed) \cup {[key |-> s, act |-> "Modify"] : s \in adopted}
               keys     == L!RecordOps(mem.keys, recorded, declared)
    <2>2. keys \in L!LedgerType
        BY DEF L!RecordOps, L!LedgerType, TypeOK, StateFile
    <2>3. made \in Value \cup {NoValue}
        BY DEF TypeOK, Value, NoValue
    <2>4. mem' \in StateFile
        BY <2>1, <2>2, <2>3 DEF TypeOK, StateFile
    <2>5. failed' \in BOOLEAN
        BY <1>11 DEF Record
    <2> QED
        BY <1>11, <2>4, <2>5 DEF Record, TypeOK, repoVars, planVars, pushVars, historyVars
<1>12. CASE PublishRow
    <2>1. target \in Slot /\ fresh[target] \in Value /\ Holders(shards, target) # {}
        BY <1>12 DEF PublishRow, TypeOK, RunShape, Provided, Wanted
    <2>2. Merged(shards, target) \in Value
        BY <2>1, MergedIsHeld DEF TypeOK
    <2>3. mem' \in StateFile
        <3>1. RotationRecord \in Metadata
            BY <2>1 DEF RotationRecord, NoMetadata, Metadata
        <3>2. mem' = [mem EXCEPT !.meta[target] = RotationRecord, !.count = shardCount]
            BY <1>12 DEF PublishRow
        <3>3. mem \in StateFile /\ shardCount \in 0 .. MaxShards
            BY DEF TypeOK
        <3>4. [mem.meta EXCEPT ![target] = RotationRecord] \in [Slot -> Metadata]
            BY <2>1, <3>1, <3>3 DEF StateFile
        <3>5. /\ mem'.meta = [mem.meta EXCEPT ![target] = RotationRecord]
              /\ mem' = [keys |-> mem.keys, meta |-> mem'.meta, count |-> shardCount,
                         applied |-> mem.applied]
            BY <3>2, <3>3 DEF StateFile
        <3> QED
            BY <3>3, <3>4, <3>5 DEF StateFile
    <2> QED
        BY <1>12, <2>1, <2>2, <2>3
        DEF PublishRow, TypeOK, repoVars, planVars, pushVars, historyVars
<1>13. CASE PublishRowFails
    <2>1. target \in Slot /\ fresh[target] \in Value /\ Holders(shards, target) # {}
        BY <1>13 DEF PublishRowFails, TypeOK, RunShape, Provided, Wanted
    <2>2. Merged(shards, target) \in Value
        BY <2>1, MergedIsHeld DEF TypeOK
    <2>3. /\ row' \in [Slot -> Value \cup {NoRow, Foreign}]
          /\ faults' \in 0 .. MaxFaults
        BY <1>13, <2>1, <2>2 DEF PublishRowFails, Fault, TypeOK
    <2> QED
        BY <1>13, <2>1, <2>3
        DEF PublishRowFails, TypeOK, repoVars, ledgerVars, planVars, pushVars
<1>14. CASE Crash
    <2>1. /\ Allocated \subseteq Value
          /\ {fresh[s] : s \in {r \in out : disk.meta[r].at # fresh[r]}} \subseteq Value
        BY DEF Allocated, RunShape, TypeOK
    <2> QED
        BY <1>14, <2>1 DEF Crash, Fault, TypeOK, repoVars, ledgerVars, planVars, pushVars
<1>15. ASSUME NEW l \in StateFile PROVE Abandoned(l, declared) \subseteq Value
    BY MergedIsHeld DEF Abandoned, Merged, TypeOK
<1>16. NewState \in StateFile /\ Empty \in Bundles
    BY DEF NewState, StateFile, NoMetadata, Metadata, L!EmptyLedger, L!LedgerType,
           Empty, Bundles
<1> DEFINE RunType ==
        /\ mem \in StateFile
        /\ phase = "idle" /\ target = NoSlot
        /\ shards \in Bundles /\ shardCount \in 0 .. MaxShards
        /\ plan \in [Slot -> Shard \cup {NoShard}]
        /\ fresh \in [Slot -> Value \cup {NoValue}]
        /\ {todo, out, blocked, adds, ops, landed, fenced} \subseteq SUBSET Slot
        /\ failed \in BOOLEAN
<1>17. ASSUME Reset PROVE RunType'
    <2>1. /\ (mem \in StateFile)' /\ (shards \in Bundles)'
        BY <1>16, <1>17 DEF Reset
    <2>2. /\ (plan \in [Slot -> Shard \cup {NoShard}])'
          /\ (fresh \in [Slot -> Value \cup {NoValue}])'
        BY <1>17 DEF Reset
    <2>3. phase' = "idle" /\ target' = NoSlot /\ shardCount' \in 0 .. MaxShards
        BY <1>17 DEF Reset
    <2>4. failed' \in BOOLEAN
        BY <1>17 DEF Reset
    <2>5. ({todo, out, blocked, adds, ops, landed, fenced} \subseteq SUBSET Slot)'
        BY <1>17 DEF Reset
    <2> QED
        BY <2>1, <2>2, <2>3, <2>4, <2>5
<1>18. CASE EndRun
    <2>1. Abandoned(disk, declared) \subseteq Value
        BY <1>15 DEF TypeOK
    <2>2. committed' \in StateFile /\ disk' \in StateFile /\ retired' \subseteq Value
        BY <1>18, <2>1 DEF EndRun, TypeOK
    <2>3. UNCHANGED <<secrets, row, repoVars, surfaced, lost, untracked, faults,
                      unrecorded, born, made, rotations>>
        BY <1>18 DEF EndRun, Reset
    <2>4. RunType'
        BY <1>18, <1>17 DEF EndRun
    <2> HIDE DEF RunType
    <2>5. {committed, disk, mem}' \subseteq StateFile
        BY <2>2, <2>4 DEF RunType
    <2> QED
        BY <2>2, <2>3, <2>4, <2>5 DEF RunType, TypeOK, repoVars
<1>19. CASE LoseRun
    <2>1. Allocated \subseteq Value
        BY DEF Allocated, RunShape, TypeOK
    <2>2. Abandoned(committed, declared) \subseteq Value
        BY <1>15 DEF TypeOK
    <2>3. /\ committed' \in StateFile /\ disk' \in StateFile
          /\ retired' \subseteq Value /\ untracked' \subseteq Value
          /\ faults' \in 0 .. MaxFaults
        BY <1>19, <2>1, <2>2 DEF LoseRun, Fault, TypeOK
    <2>4. UNCHANGED <<secrets, row, repoVars, surfaced, lost, unrecorded, born, made, rotations>>
        BY <1>19 DEF LoseRun, Reset
    <2>5. RunType'
        BY <1>19, <1>17 DEF LoseRun
    <2> HIDE DEF RunType
    <2>6. {committed, disk, mem}' \subseteq StateFile
        BY <2>3, <2>5 DEF RunType
    <2> QED
        BY <2>3, <2>4, <2>5, <2>6 DEF RunType, TypeOK, repoVars
<1>20. CASE Merge
    <2>1. Abandoned(committed, declared') \subseteq Value
        BY MergedIsHeld DEF Abandoned, Merged, TypeOK
    <2> QED
        BY <1>20, <2>1
        DEF Merge, TypeOK, ledgerVars, planVars, pushVars
<1>21. ASSUME NEW mode \in Modes, BeginApply(mode) PROVE TypeOK'
    <2>1. mem' \in StateFile
        BY <1>21 DEF BeginApply, TypeOK, StateFile, L!ReconcilePending, L!ReconcileAbsent, L!LedgerType
    <2>2. shardCount' \in 0 .. MaxShards
        BY <1>21, CountGrows DEF BeginApply, Load, TypeOK, StateFile
    <2>3. todo' \subseteq Slot /\ adds' \subseteq Slot /\ ops' \subseteq Slot /\ blocked' \subseteq Slot
        BY <1>21 DEF BeginApply, TypeOK
    <2> QED
        BY <1>21, <2>1, <2>2, <2>3 DEF BeginApply, Load, TypeOK, repoVars
<1>22. ASSUME NEW s \in Slot, BeginRotate(s) PROVE TypeOK'
    <2>1. shardCount' \in 0 .. MaxShards
        BY <1>22, CountGrows DEF BeginRotate, Load, TypeOK, StateFile
    <2> QED
        BY <1>22, <2>1 DEF BeginRotate, Load, TypeOK, repoVars
<1>23. ASSUME NEW s \in Slot, Retire(s) PROVE TypeOK'
    BY <1>23
    DEF Retire, TypeOK, Bundles, repoVars, ledgerVars, planVars, pushVars, historyVars
<1>24. ASSUME NEW s \in Slot, AdminEdit(s) PROVE TypeOK'
    BY <1>24
    DEF AdminEdit, Fault, TypeOK, repoVars, ledgerVars, planVars, pushVars, historyVars
<1> QED
    BY <1>1, <1>2, <1>3, <1>4, <1>5, <1>6, <1>7, <1>8, <1>9, <1>10, <1>11, <1>12, <1>13,
       <1>14, <1>18, <1>19, <1>20, <1>21, <1>22, <1>23, <1>24
    DEF Next, RunStep

-----------------------------------------------------------------------------
LEMMA ShapeStep ==
    ASSUME TypeOK, RunShape, [Next]_vars
    PROVE  RunShape'
<1> USE ShardsAssumption, BrokerAssumption DEF RunShape
<1>1. CASE UNCHANGED vars
    BY <1>1 DEF Unsent, vars, planVars, pushVars
<1>2. ASSUME NEW s \in Slot, PlanSlot(s) PROVE RunShape'
    <2> DEFINE r == ReserveShard(s, Planning, Max({shardCount, 1}))
    <2>1. r.shard \in Shard \cup {NoShard}
        BY ReserveShardRoom DEF TypeOK
    <2> HIDE DEF r
    <2>2. /\ plan' = [plan EXCEPT ![s] = r.shard]
          /\ failed' = (r.shard = NoShard)
          /\ fresh' = [fresh EXCEPT ![s] = made']
          /\ todo' = todo \ {s} /\ s \in todo
          /\ phase = "plan"
          /\ phase' = IF failed' THEN "ended" ELSE IF todo' = {} THEN "put" ELSE "plan"
          /\ UNCHANGED <<target, out, ops>>
        BY <1>2 DEF PlanSlot, r, pushVars
    <2>3. made' \in Value
        BY <1>2 DEF PlanSlot, TypeOK, Value
    <2>4. phase' \in {"put", "plan"} => plan'[s] # NoShard /\ ~failed'
        BY <2>2 DEF TypeOK
    <2>5. phase' = "put" => Unsent' # {}
        BY <2>2, <2>4 DEF Unsent, TypeOK
    <2>6. \A q \in Slot : plan'[q] # NoShard => fresh'[q] \in Value
        BY <2>2, <2>3 DEF TypeOK
    <2>7. target' # NoSlot => \A q \in Slot \ {target'} : plan'[q] = NoShard
        BY <2>2 DEF TypeOK
    <2>8. phase' = "plan" => \A q \in todo' : plan'[q] = NoShard
        BY <2>2 DEF TypeOK
    <2> QED
        BY <2>2, <2>4, <2>5, <2>6, <2>7, <2>8
<1>3. CASE PutStored
    <2> DEFINE sh == Min(Unsent)
    <2>1. sh \in Unsent
        BY <1>3, NextShard DEF PutStored
    <2>2. /\ phase = "put"
          /\ out' = out \cup Batch(sh)
          /\ phase' = IF Unsent # {sh} THEN "put"
                      ELSE IF target = NoSlot THEN "journal" ELSE "surface"
          /\ UNCHANGED <<target, failed, todo, plan, fresh, ops>>
        BY <1>3 DEF PutStored, planVars, pushVars
    <2> HIDE DEF sh
    <2>3. Unsent' = Unsent \ {sh}
        BY <2>2 DEF Unsent, Batch
    <2>4. \A s \in out' : plan'[s] # NoShard
        BY <2>1, <2>2 DEF Batch, Unsent
    <2>5. target # NoSlot /\ Unsent = {sh} => target \in out'
        BY <2>1, <2>2 DEF Unsent, Batch, TypeOK
    <2> QED
        BY <2>1, <2>2, <2>3, <2>4, <2>5
<1>4. CASE EndRun \/ LoseRun
    BY <1>4 DEF EndRun, LoseRun, Reset
<1>5. ASSUME NEW mode \in Modes, BeginApply(mode) PROVE RunShape'
    BY <1>5 DEF BeginApply, Load
<1>6. ASSUME NEW s \in Slot, BeginRotate(s) PROVE RunShape'
    BY <1>6 DEF BeginRotate, Load
<1>7. ASSUME NEW s \in Slot, PushOp(s) \/ PushOpFails(s) PROVE RunShape'
    BY <1>7 DEF PushOp, PushOpFails, planVars
<1>8. CASE PutFails
    BY <1>8 DEF PutFails, planVars, pushVars
<1>9. CASE Journal \/ JournalFails
    BY <1>9 DEF Journal, JournalFails, planVars, pushVars
<1>10. CASE Surface
    BY <1>10 DEF Surface, planVars, pushVars
<1>11. CASE ReserveAdds \/ Record
    BY <1>11 DEF ReserveAdds, Record, planVars, pushVars
<1>12. CASE PublishRow \/ PublishRowFails
    BY <1>12 DEF PublishRow, PublishRowFails, planVars, pushVars
<1>13. CASE Crash
    BY <1>13 DEF Crash, planVars, pushVars
<1>14. ASSUME NEW s \in Slot, Retire(s) \/ AdminEdit(s) PROVE RunShape'
    <2>1. UNCHANGED <<phase, failed, target, out, ops, plan, todo, fresh>>
        BY <1>14 DEF Retire, AdminEdit, planVars, pushVars
    <2>2. Unsent' = Unsent
        BY <2>1 DEF Unsent
    <2> QED
        BY <2>1, <2>2
<1>15. CASE Merge
    BY <1>15 DEF Merge, planVars, pushVars
<1> QED
    BY <1>1, <1>2, <1>3, <1>4, <1>5, <1>6, <1>7, <1>8, <1>9, <1>10, <1>11, <1>12, <1>13,
       <1>14, <1>15
    DEF Next, RunStep

-----------------------------------------------------------------------------
(* The steps that touch neither the bundles nor the plan, and do not begin *)
(* to allocate.                                                            *)
Quiet ==
    /\ UNCHANGED <<secrets, shards, plan, fresh>>
    /\ phase' \in {"plan", "put"} => phase' = phase

LEMMA QuietSteps ==
    ASSUME [Next]_vars
    PROVE  \/ Quiet
           \/ \E s \in Slot : PlanSlot(s) \/ BeginRotate(s) \/ Retire(s)
           \/ \E mode \in Modes : BeginApply(mode)
           \/ PutStored \/ PutFails \/ EndRun \/ LoseRun
<1> USE DEF Quiet
<1>1. CASE UNCHANGED vars
    BY <1>1 DEF vars, planVars
<1>2. ASSUME NEW s \in Slot, PushOp(s) \/ PushOpFails(s) \/ AdminEdit(s) PROVE Quiet
    BY <1>2 DEF PushOp, PushOpFails, AdminEdit, planVars
<1>3. CASE Journal \/ JournalFails \/ Surface \/ ReserveAdds \/ Record
    BY <1>3 DEF Journal, JournalFails, Surface, ReserveAdds, Record, planVars
<1>4. CASE PublishRow \/ PublishRowFails \/ Crash \/ Merge
    BY <1>4 DEF PublishRow, PublishRowFails, Crash, Merge, planVars
<1> QED
    BY <1>1, <1>2, <1>3, <1>4, Zenon DEF Next, RunStep

(* A slot of the PUT's body was planned for this shard or held by it.      *)
LEMMA BodySlots ==
    ASSUME NEW sh \in Shard, NEW s \in Slot
    PROVE  Body(sh)[s] = IF plan[s] = sh THEN fresh[s] ELSE shards[sh][s]
BY DEF Body, Staged

LEMMA PlacedStep ==
    ASSUME TypeOK, RunShape, Placed, [Next]_vars
    PROVE  Placed'
<1> USE ShardsAssumption, BrokerAssumption
<1>1. CASE Quiet
    BY <1>1 DEF Quiet, Placed, NoSlotTwice, Holders
<1>2. ASSUME NEW s \in Slot, PlanSlot(s) PROVE Placed'
    <2> DEFINE r == ReserveShard(s, Planning, Max({shardCount, 1}))
    <2>1. Holders(Staged, s) # {} => r.shard \in Holders(Staged, s)
        BY ReserveShardRoom DEF TypeOK, Planning
    <2> HIDE DEF r
    <2>2. /\ plan' = [plan EXCEPT ![s] = r.shard]
          /\ phase = "plan" /\ s \in todo
          /\ UNCHANGED <<secrets, shards>>
        BY <1>2 DEF PlanSlot, r
    <2>3. Holders(Staged, s) = Holders(shards, s)
        BY <2>2 DEF Holders, Staged, RunShape, Shard, NoShard
    <2>4. Holders(shards, s) \subseteq {r.shard}
        BY <2>1, <2>3 DEF Placed, NoSlotTwice, Holders
    <2> QED
        BY <2>2, <2>4 DEF Placed, TypeOK, NoSlotTwice, Holders
<1>3. ASSUME NEW sh \in Shard, phase = "put",
             secrets' = [secrets EXCEPT ![sh] = Body(sh)]
      PROVE  NoSlotTwice(secrets)'
    <2> SUFFICES ASSUME NEW s \in Slot, NEW x \in Shard, NEW y \in Shard,
                        secrets'[x][s] # NoValue, secrets'[y][s] # NoValue
                 PROVE  x = y
        BY DEF NoSlotTwice, Holders
    <2>1. \A z \in Shard : secrets'[z][s] # NoValue =>
             \/ z = sh /\ plan[s] = sh
             \/ z \in Holders(shards, s)
        BY <1>3, BodySlots DEF Placed, Holders, TypeOK, Bundles
    <2> QED
        BY <1>3, <2>1 DEF Placed, NoSlotTwice, Shard, NoShard
<1>4. CASE PutStored
    <2> DEFINE sh == Min(Unsent)
    <2>1. sh \in Shard
        BY <1>4, NextShard DEF PutStored
    <2>2. /\ secrets' = [secrets EXCEPT ![sh] = Body(sh)]
          /\ shards' = [shards EXCEPT ![sh] = Body(sh)]
          /\ phase = "put"
          /\ UNCHANGED <<plan, fresh>>
        BY <1>4 DEF PutStored, planVars
    <2> HIDE DEF sh
    <2>3. \A s \in Slot, z \in Shard : shards'[z][s] # NoValue =>
             \/ z = sh /\ plan[s] = sh
             \/ z \in Holders(shards, s)
        BY <2>1, <2>2, BodySlots DEF Holders, TypeOK, Bundles
    <2>4. NoSlotTwice(shards)'
        <3> SUFFICES ASSUME NEW s \in Slot, NEW x \in Shard, NEW y \in Shard,
                            shards'[x][s] # NoValue, shards'[y][s] # NoValue
                     PROVE  x = y
            BY DEF NoSlotTwice, Holders
        <3> QED
            BY <2>2, <2>3 DEF Placed, NoSlotTwice, Shard, NoShard
    <2>5. ASSUME NEW s \in Slot
          PROVE  /\ Holders(secrets, s)' \subseteq Holders(shards, s)'
                 /\ plan'[s] # NoShard => Holders(shards, s)' \subseteq {plan'[s]}
        <3>1. \A z \in Shard : secrets'[z][s] # NoValue => shards'[z][s] # NoValue
            BY <2>1, <2>2 DEF Placed, Holders, TypeOK, Bundles
        <3>2. plan'[s] # NoShard => \A z \in Shard : shards'[z][s] # NoValue => z = plan'[s]
            BY <2>2, <2>3 DEF Placed
        <3> QED
            BY <3>1, <3>2 DEF Holders
    <2> QED
        BY <1>3, <2>1, <2>2, <2>4, <2>5 DEF Placed
<1>5. CASE PutFails
    <2> DEFINE sh == Min(Unsent)
    <2>1. sh \in Shard
        BY <1>5, NextShard DEF PutFails
    <2>2. /\ secrets' = secrets \/ secrets' = [secrets EXCEPT ![sh] = Body(sh)]
          /\ phase = "put" /\ phase' \notin {"plan", "put"}
          /\ UNCHANGED shards
        BY <1>5 DEF PutFails
    <2> HIDE DEF sh
    <2>3. NoSlotTwice(secrets)'
        BY <1>3, <2>1, <2>2 DEF Placed, NoSlotTwice, Holders
    <2> QED
        BY <2>2, <2>3 DEF Placed, NoSlotTwice, Holders
<1>6. CASE EndRun \/ LoseRun
    BY <1>6 DEF EndRun, LoseRun, Reset, Placed, NoSlotTwice, Holders, Empty
<1>7. CASE phase = "idle" /\ shards' = secrets /\ UNCHANGED <<secrets, plan>>
    BY <1>7 DEF Placed, NoSlotTwice, Holders, RunShape
<1>8. ASSUME NEW s \in Slot, Retire(s) PROVE Placed'
    <2>1. \A z \in Shard, q \in Slot : secrets'[z][q] # NoValue => secrets[z][q] # NoValue
        BY <1>8 DEF Retire, TypeOK, Bundles
    <2>2. UNCHANGED <<shards, plan, phase>>
        BY <1>8 DEF Retire, planVars
    <2> QED
        BY <2>1, <2>2 DEF Placed, NoSlotTwice, Holders
<1> QED
    BY <1>1, <1>2, <1>4, <1>5, <1>6, <1>7, <1>8, QuietSteps
    DEF BeginApply, BeginRotate, Load

-----------------------------------------------------------------------------
LEMMA FitsStep ==
    ASSUME TypeOK, RunShape, Fits, [Next]_vars
    PROVE  Fits'
<1> USE ShardsAssumption, BrokerAssumption
<1>1. CASE Quiet
    BY <1>1 DEF Quiet, Fits, CapacityRespected, Kept, Staged
<1>2. ASSUME NEW s \in Slot, PlanSlot(s) PROVE Fits'
    <2> DEFINE r == ReserveShard(s, Planning, Max({shardCount, 1}))
    <2>1. /\ r.shard \in Shard \cup {NoShard}
          /\ Holders(Staged, s) # {} => r.shard \in Holders(Staged, s)
          /\ Holders(Staged, s) = {} /\ r.shard # NoShard => HasRoom(Staged, r.shard)
        BY ReserveShardRoom DEF TypeOK, Planning
    <2> HIDE DEF r
    <2>2. /\ plan' = [plan EXCEPT ![s] = r.shard]
          /\ fresh' = [fresh EXCEPT ![s] = made']
          /\ phase = "plan" /\ s \in todo
          /\ phase' \in {"plan", "put"} => r.shard # NoShard
          /\ UNCHANGED <<secrets, shards>>
        BY <1>2 DEF PlanSlot, r
    <2>3. CapacityRespected'
        BY <2>2 DEF Fits, CapacityRespected, Kept
    <2>4. ASSUME r.shard # NoShard, NEW sh \in Shard
          PROVE  Cardinality(Kept(Staged, sh)') <= Capacity
        <3>1. plan[s] = NoShard
            BY <2>2 DEF RunShape
        <3>2. \A q \in Slot : Staged'[sh][q] = IF q = s /\ sh = r.shard THEN made' ELSE Staged[sh][q]
            BY <2>2, <3>1 DEF Staged, TypeOK, Shard, NoShard
        <3>3. Kept(Staged, sh)' \subseteq Kept(Staged, sh) \cup (IF sh = r.shard THEN {s} ELSE {})
            BY <3>2 DEF Kept
        <3>4. Kept(Staged, sh) \in SUBSET Slot /\ IsFiniteSet(Kept(Staged, sh))
            BY FS_Subset DEF Kept
        <3>5. Cardinality(Kept(Staged, sh)) \in Nat /\ Cardinality(Kept(Staged, sh)) <= Capacity
            BY <2>2, <3>4, FS_CardinalityType DEF Fits
        <3>6. CASE s \in Kept(Staged, sh) \/ sh # r.shard
            <4>1. Kept(Staged, sh)' \subseteq Kept(Staged, sh)
                BY <3>3, <3>6
            <4>2. Cardinality(Kept(Staged, sh)') <= Cardinality(Kept(Staged, sh))
                BY <3>4, <4>1, FS_Subset, Zenon
            <4>3. Cardinality(Kept(Staged, sh)') \in Nat
                BY <3>4, <4>1, FS_Subset, FS_CardinalityType, Zenon
            <4> QED
                BY <3>5, <4>2, <4>3
        <3>7. CASE s \notin Kept(Staged, sh) /\ sh = r.shard
            <4>1. Holders(Staged, s) = {}
                BY <2>1, <3>7 DEF Holders, Kept
            <4>2. Cardinality(Kept(Staged, sh)) < Capacity
                BY <2>1, <2>4, <3>7, <4>1 DEF HasRoom
            <4> DEFINE both == Kept(Staged, sh) \cup {s}
            <4>3. IsFiniteSet(both) /\ Cardinality(both) = Cardinality(Kept(Staged, sh)) + 1
                BY <3>4, <3>7, FS_AddElement
            <4>4. Kept(Staged, sh)' \in SUBSET both
                BY <3>3
            <4>5. Cardinality(Kept(Staged, sh)') <= Cardinality(both)
                BY <4>3, <4>4, FS_Subset, Zenon
            <4>6. Cardinality(Kept(Staged, sh)') \in Nat
                BY <4>3, <4>4, FS_Subset, FS_CardinalityType, Zenon
            <4> QED
                BY <3>5, <4>2, <4>3, <4>5, <4>6
        <3> QED
            BY <3>6, <3>7
    <2> QED
        BY <2>2, <2>3, <2>4 DEF Fits
<1>3. ASSUME NEW sh \in Shard, phase = "put",
             secrets' = [secrets EXCEPT ![sh] = Body(sh)]
      PROVE  CapacityRespected'
    <2> SUFFICES ASSUME NEW x \in Shard
                 PROVE  Cardinality(Kept(secrets, x)') <= Capacity
        BY DEF CapacityRespected
    <2>1. Kept(secrets, x)' = IF x = sh THEN Kept(Staged, sh) ELSE Kept(secrets, x)
        BY <1>3 DEF Kept, Body, TypeOK, Bundles
    <2> QED
        BY <1>3, <2>1 DEF Fits, CapacityRespected
<1>4. CASE PutStored
    <2> DEFINE sh == Min(Unsent)
    <2>1. sh \in Shard
        BY <1>4, NextShard DEF PutStored
    <2>2. /\ secrets' = [secrets EXCEPT ![sh] = Body(sh)]
          /\ shards' = [shards EXCEPT ![sh] = Body(sh)]
          /\ phase = "put"
          /\ UNCHANGED <<plan, fresh>>
        BY <1>4 DEF PutStored, planVars
    <2> HIDE DEF sh
    <2>3. \A x \in Shard, s \in Slot : Staged'[x][s] = Staged[x][s]
        BY <2>1, <2>2 DEF Staged, Body, TypeOK, Bundles
    <2>4. \A x \in Shard : Kept(Staged, x)' = Kept(Staged, x)
        BY <2>3 DEF Kept
    <2> QED
        BY <1>3, <2>1, <2>2, <2>4 DEF Fits
<1>5. CASE PutFails
    <2> DEFINE sh == Min(Unsent)
    <2>1. sh \in Shard
        BY <1>5, NextShard DEF PutFails
    <2>2. /\ secrets' = secrets \/ secrets' = [secrets EXCEPT ![sh] = Body(sh)]
          /\ phase = "put" /\ phase' \notin {"plan", "put"}
        BY <1>5 DEF PutFails
    <2> HIDE DEF sh
    <2>3. CapacityRespected'
        BY <1>3, <2>1, <2>2 DEF Fits, CapacityRespected, Kept
    <2> QED
        BY <2>2, <2>3 DEF Fits
<1>6. CASE EndRun \/ LoseRun
    BY <1>6 DEF EndRun, LoseRun, Reset, Fits, CapacityRespected, Kept
<1>7. CASE phase = "idle" /\ shards' = secrets /\ UNCHANGED <<secrets, plan, fresh>>
    <2>1. \A x \in Shard : Kept(Staged, x)' = Kept(secrets, x)
        BY <1>7 DEF Kept, Staged, RunShape, Shard, NoShard
    <2> QED
        BY <1>7, <2>1 DEF Fits, CapacityRespected, Kept
<1>8. ASSUME NEW s \in Slot, Retire(s) PROVE Fits'
    <2>1. UNCHANGED <<shards, plan, fresh, phase>>
        BY <1>8 DEF Retire, planVars
    <2>2. ASSUME NEW x \in Shard
          PROVE  Cardinality(Kept(secrets, x)') <= Capacity
        <3>1. Kept(secrets, x)' \in SUBSET Kept(secrets, x)
            BY <1>8 DEF Retire, Kept, TypeOK, Bundles
        <3>2. IsFiniteSet(Kept(secrets, x))
            BY FS_Subset DEF Kept
        <3>3. /\ Cardinality(Kept(secrets, x)') <= Cardinality(Kept(secrets, x))
              /\ Cardinality(Kept(secrets, x)') \in Nat
              /\ Cardinality(Kept(secrets, x)) \in Nat
            BY <3>1, <3>2, FS_Subset, FS_CardinalityType, Zenon
        <3> QED
            BY <3>3 DEF Fits, CapacityRespected
    <2> QED
        BY <2>1, <2>2 DEF Fits, CapacityRespected, Kept, Staged
<1> QED
    BY <1>1, <1>2, <1>4, <1>5, <1>6, <1>7, <1>8, QuietSteps
    DEF BeginApply, BeginRotate, Load

-----------------------------------------------------------------------------
(* A PUT of the next shard adds only values of its batch.                  *)
LEMMA StoredValues ==
    ASSUME TypeOK, NEW bundle \in Bundles, NEW sh \in Shard
    PROVE  Values([bundle EXCEPT ![sh] = Body(sh)])
             \subseteq Values(bundle) \cup Values(shards) \cup {fresh[s] : s \in Batch(sh)}
<1> DEFINE stored == [bundle EXCEPT ![sh] = Body(sh)]
<1> SUFFICES ASSUME NEW x \in Shard, NEW s \in Slot, stored[x][s] # NoValue
             PROVE  stored[x][s] \in Values(bundle) \cup Values(shards) \cup {fresh[q] : q \in Batch(sh)}
    BY DEF Values
<1>1. stored[x][s] = IF x = sh THEN Body(sh)[s] ELSE bundle[x][s]
    BY DEF Bundles
<1> HIDE DEF stored
<1>2. CASE x = sh /\ plan[s] = sh
    BY <1>1, <1>2, BodySlots DEF Batch
<1>3. CASE x = sh /\ plan[s] # sh
    BY <1>1, <1>3, BodySlots DEF Values
<1>4. CASE x # sh
    BY <1>1, <1>4 DEF Values
<1> QED
    BY <1>2, <1>3, <1>4

LEMMA HeldStep ==
    ASSUME TypeOK, RunShape, Held, Provided, [Next]_vars
    PROVE  Held'
<1> USE ShardsAssumption, BrokerAssumption
<1>1. CASE UNCHANGED vars
    BY <1>1 DEF Held, Values, Accounted, Allocated, ServedValuesAreHeld, vars, planVars, historyVars
<1>2. ASSUME NEW s \in Slot, PlanSlot(s) PROVE Held'
    <2>1. /\ out = {} /\ out' = {}
          /\ UNCHANGED <<secrets, shards, row, surfaced, lost>>
        BY <1>2 DEF PlanSlot, RunShape
    <2>2. Allocated = {} /\ Allocated' = {}
        BY <2>1 DEF Allocated
    <2> QED
        BY <2>1, <2>2 DEF Held, Values, Accounted, ServedValuesAreHeld
<1>3. CASE PutStored
    <2> DEFINE sh == Min(Unsent)
    <2>1. sh \in Shard
        BY <1>3, NextShard DEF PutStored
    <2>2. /\ secrets' = [secrets EXCEPT ![sh] = Body(sh)]
          /\ shards' = [shards EXCEPT ![sh] = Body(sh)]
          /\ out' = out \cup Batch(sh)
          /\ phase' \in {"put", "journal", "surface"}
          /\ UNCHANGED <<fresh, row, surfaced, lost>>
        BY <1>3 DEF PutStored, planVars, historyVars
    <2> HIDE DEF sh
    <2>3. Allocated' = Allocated \cup {fresh[s] : s \in Batch(sh)}
        BY <2>2 DEF Allocated
    <2>4. Values(secrets)' \cup Values(shards)'
             \subseteq Values(secrets) \cup Values(shards) \cup {fresh[s] : s \in Batch(sh)}
        <3>1. Values(secrets') \subseteq Values(secrets) \cup Values(shards) \cup {fresh[s] : s \in Batch(sh)}
            BY <2>1, <2>2, StoredValues DEF TypeOK
        <3>2. Values(shards') \subseteq Values(shards) \cup {fresh[s] : s \in Batch(sh)}
            BY <2>1, <2>2, StoredValues DEF TypeOK
        <3> QED
            BY <3>1, <3>2
    <2> QED
        BY <2>2, <2>3, <2>4 DEF Held, Accounted, ServedValuesAreHeld
<1>4. CASE PutFails
    <2> DEFINE sh == Min(Unsent)
    <2>1. sh \in Shard
        BY <1>4, NextShard DEF PutFails
    <2>2. /\ \/ UNCHANGED <<secrets, lost>>
             \/ /\ secrets' = [secrets EXCEPT ![sh] = Body(sh)]
                /\ lost' = lost \cup {fresh[s] : s \in Batch(sh)}
          /\ phase' = IF target = NoSlot THEN "journal" ELSE "ended"
          /\ phase = "put"
          /\ UNCHANGED <<shards, out, fresh, row, surfaced>>
        BY <1>4 DEF PutFails, planVars
    <2> HIDE DEF sh
    <2>3. Values(secrets') \cup Values(shards') \subseteq Accounted' \cup Allocated
        <3>1. CASE UNCHANGED <<secrets, lost>>
            BY <2>2, <3>1 DEF Held, Accounted
        <3>2. CASE /\ secrets' = [secrets EXCEPT ![sh] = Body(sh)]
                   /\ lost' = lost \cup {fresh[s] : s \in Batch(sh)}
            <4>1. Values(secrets') \subseteq Values(secrets) \cup Values(shards) \cup {fresh[s] : s \in Batch(sh)}
                BY <2>1, <3>2, StoredValues DEF TypeOK
            <4> QED
                BY <2>2, <3>2, <4>1 DEF Held, Accounted
        <3> QED
            BY <2>2, <3>1, <3>2
    <2>4. Allocated' = Allocated
        BY <2>2 DEF Allocated
    <2>5. target # NoSlot => Allocated = {}
        BY <2>2 DEF RunShape, Unsent, Allocated, TypeOK
    <2> QED
        BY <2>2, <2>3, <2>4, <2>5 DEF Held, Accounted, ServedValuesAreHeld
<1>5. CASE Journal \/ JournalFails
    BY <1>5 DEF Journal, JournalFails, Held, Values, Accounted, Allocated,
                ServedValuesAreHeld, planVars, historyVars
<1>6. CASE Surface
    BY <1>6 DEF Surface, Handed, Held, Values, Accounted, Allocated, ServedValuesAreHeld, planVars
<1>7. CASE ReserveAdds \/ Record
    <2>1. /\ phase \in {"reserve", "push"}
          /\ UNCHANGED <<secrets, shards, row, out, fresh, surfaced, lost>>
        BY <1>7 DEF ReserveAdds, Record, planVars, historyVars
    <2> QED
        BY <2>1 DEF Held, Values, Accounted, Allocated, ServedValuesAreHeld
<1>8. ASSUME NEW s \in Slot, phase \in {"push", "publish"}, Holders(shards, s) # {}
      PROVE  Merged(shards, s) \in Accounted
    BY <1>8, MergedIsHeld DEF Held, TypeOK
<1>9. ASSUME NEW s \in Slot, phase = "push", s \in ops
      PROVE  \A q \in Slot : Pushed(s)[q] \in Value => Pushed(s)[q] \in Accounted
    <2>1. s \in declared => Merged(shards, s) \in Accounted
        BY <1>8, <1>9 DEF Provided, Wanted
    <2> QED
        BY <2>1 DEF Pushed, Held, Accounted, ServedValuesAreHeld, TypeOK
<1>10. ASSUME NEW s \in Slot, PushOp(s) \/ PushOpFails(s) PROVE Held'
    <2>1. /\ row' = row \/ row' = Pushed(s)
          /\ phase = "push" /\ s \in ops
          /\ UNCHANGED <<secrets, shards, phase, out, fresh, surfaced, lost>>
        BY <1>10 DEF PushOp, PushOpFails, planVars, historyVars
    <2>2. ServedValuesAreHeld'
        BY <1>9, <2>1 DEF Held, Accounted, ServedValuesAreHeld
    <2> QED
        BY <2>1, <2>2 DEF Held, Values, Accounted, Allocated
<1>11. CASE PublishRow \/ PublishRowFails
    <2>1. /\ row' = row \/ row' = [row EXCEPT ![target] = Merged(shards, target)]
          /\ phase = "publish"
          /\ UNCHANGED <<secrets, shards, out, fresh, surfaced, lost>>
        BY <1>11 DEF PublishRow, PublishRowFails, planVars, historyVars
    <2>2. target \in Slot /\ Merged(shards, target) \in Accounted
        BY <1>8, <2>1 DEF RunShape, Provided, Wanted, TypeOK
    <2>3. ServedValuesAreHeld'
        BY <2>1, <2>2 DEF Held, Accounted, ServedValuesAreHeld, TypeOK
    <2>4. Allocated' \subseteq Accounted'
        BY <2>1 DEF Held, Allocated, Accounted
    <2> QED
        BY <2>1, <2>3, <2>4 DEF Held, Values, Accounted, Allocated
<1>12. CASE Crash
    BY <1>12 DEF Crash, Held, Values, Accounted, Allocated, ServedValuesAreHeld, planVars
<1>13. CASE EndRun \/ LoseRun
    <2>1. /\ shards' = Empty /\ out' = {} /\ phase = "ended" /\ phase' = "idle"
          /\ UNCHANGED <<secrets, row, surfaced, lost>>
        BY <1>13 DEF EndRun, LoseRun, Reset
    <2>2. Values(shards') = {}
        BY <2>1 DEF Values, Empty
    <2> QED
        BY <2>1, <2>2 DEF Held, Values, Accounted, Allocated, ServedValuesAreHeld
<1>14. CASE Load /\ phase' \in {"plan", "reserve"}
    <2>1. out = {} /\ shards' = secrets /\ UNCHANGED <<secrets, row, out, surfaced, lost>>
        BY <1>14 DEF Load, RunShape
    <2>2. Allocated = {} /\ Allocated' = {}
        BY <2>1 DEF Allocated
    <2> QED
        BY <2>1, <2>2 DEF Held, Values, Accounted, ServedValuesAreHeld
<1>15. ASSUME NEW s \in Slot, Retire(s) PROVE Held'
    <2>1. Values(secrets)' \subseteq Values(secrets)
        <3>1. \A x \in Shard, q \in Slot : secrets'[x][q] \in {secrets[x][q], NoValue}
            BY <1>15 DEF Retire, TypeOK, Bundles
        <3> QED
            BY <3>1 DEF Values
    <2> QED
        BY <1>15, <2>1 DEF Retire, Held, Values, Accounted, Allocated, ServedValuesAreHeld, planVars, historyVars
<1>16. ASSUME NEW s \in Slot, AdminEdit(s) PROVE Held'
    <2>1. \A q \in Slot : row'[q] \in {row[q], NoRow, Foreign}
        BY <1>16 DEF AdminEdit, TypeOK
    <2>2. ServedValuesAreHeld'
        BY <1>16, <2>1 DEF AdminEdit, Held, ServedValuesAreHeld, historyVars
    <2> QED
        BY <1>16, <2>2 DEF AdminEdit, Held, Values, Accounted, Allocated, planVars, historyVars
<1>17. CASE Merge
    BY <1>17 DEF Merge, Held, Values, Accounted, Allocated, ServedValuesAreHeld, planVars
<1> QED
    BY <1>1, <1>2, <1>3, <1>4, <1>5, <1>6, <1>7, <1>10, <1>11, <1>12, <1>13, <1>14, <1>15,
       <1>16, <1>17
    DEF Next, RunStep, BeginApply, BeginRotate
-----------------------------------------------------------------------------
LEMMA ProvidedStep ==
    ASSUME TypeOK, RunShape, Provided, [Next]_vars
    PROVE  Provided'
<1> USE ShardsAssumption, BrokerAssumption
<1>1. CASE UNCHANGED vars
    BY <1>1 DEF Provided, Wanted, Holders, vars, repoVars, planVars, pushVars
<1>2. ASSUME NEW s \in Slot, PlanSlot(s) PROVE Provided'
    <2> DEFINE sh == plan'[s]
    <2>1. /\ plan' = [plan EXCEPT ![s] = sh]
          /\ phase = "plan" /\ out = {}
          /\ todo' = todo \ {s}
          /\ phase' \in {"plan", "put", "ended"}
          /\ phase' = "put" => todo' = {}
          /\ phase' # "ended" => sh # NoShard
          /\ UNCHANGED <<shards, declared, ops, target, out>>
        BY <1>2 DEF PlanSlot, RunShape, TypeOK, repoVars, pushVars
    <2> HIDE DEF sh
    <2> QED
        BY <2>1 DEF Provided, Wanted, Holders, TypeOK
<1>3. CASE PutStored
    <2> DEFINE sh == Min(Unsent)
    <2>1. sh \in Shard
        BY <1>3, NextShard DEF PutStored
    <2>2. /\ shards' = [shards EXCEPT ![sh] = Body(sh)]
          /\ out' = out \cup Batch(sh)
          /\ phase = "put" /\ phase' \in {"put", "journal", "surface"}
          /\ phase' # "put" => Unsent = {sh}
          /\ UNCHANGED <<declared, ops, target, plan>>
        BY <1>3 DEF PutStored, repoVars, planVars, pushVars
    <2> HIDE DEF sh
    <2> SUFFICES ASSUME NEW s \in Wanted
                 PROVE  \/ Holders(shards, s)' # {}
                        \/ phase' = "put" /\ plan'[s] # NoShard /\ s \notin out'
        BY <2>2 DEF Provided, Wanted
    <2>3. s \in Slot
        BY DEF Wanted, TypeOK
    <2>4. shards'[sh][s] = Body(sh)[s]
        BY <2>1, <2>2 DEF TypeOK, Bundles
    <2>5. CASE plan[s] = sh
        <3>1. shards'[sh][s] \in Value
            BY <2>1, <2>3, <2>4, <2>5, BodySlots DEF RunShape, Shard, NoShard
        <3> QED
            BY <2>1, <3>1 DEF Holders, Value, NoValue
    <2>6. CASE plan[s] # sh /\ Holders(shards, s) # {}
        <3>1. \A z \in Shard : shards'[z][s] = shards[z][s]
            BY <2>1, <2>2, <2>3, <2>4, <2>6, BodySlots DEF TypeOK, Bundles
        <3> QED
            BY <2>6, <3>1 DEF Holders
    <2>7. CASE plan[s] \notin {sh, NoShard} /\ s \notin out
        BY <2>2, <2>3, <2>7 DEF Unsent, Batch
    <2> QED
        BY <2>2, <2>5, <2>6, <2>7 DEF Provided
<1>4. CASE PutFails \/ JournalFails
    <2>1. failed' /\ phase' \in {"journal", "surface", "ended"}
        BY <1>4 DEF PutFails, JournalFails
    <2> QED
        BY <2>1 DEF Provided
<1>5. CASE Journal \/ Surface \/ ReserveAdds
    <2>1. /\ UNCHANGED <<shards, declared, ops, target, failed>>
          /\ \/ phase = "journal" /\ phase' = "surface"
             \/ phase = "surface" /\ phase' \in {"reserve", "publish", "ended"}
                /\ (failed => phase' = "ended")
             \/ phase = "reserve" /\ phase' = "push"
        BY <1>5 DEF Journal, Surface, ReserveAdds, repoVars, pushVars
    <2> QED
        BY <2>1 DEF Provided, Wanted, Holders
<1>6. ASSUME NEW s \in Slot, PushOp(s) \/ PushOpFails(s) PROVE Provided'
    BY <1>6 DEF PushOp, PushOpFails, Provided, Wanted, Holders, repoVars
<1>7. CASE phase' \in {"idle", "ended"}
    BY <1>7 DEF Provided
<1>8. ASSUME NEW mode \in Modes, BeginApply(mode) PROVE Provided'
    <2>1. /\ shards' = secrets /\ UNCHANGED <<declared, target>> /\ target = NoSlot
          /\ phase' = IF todo' = {} THEN "reserve" ELSE "plan"
          /\ todo' = {s \in declared \cap (Slot \ blocked') : Merged(secrets, s) = NoValue}
          /\ ops' \subseteq Slot \ blocked'
        BY <1>8 DEF BeginApply, Load, RunShape, repoVars
    <2>2. \A s \in Slot : Merged(secrets, s) # NoValue => Holders(shards', s) # {}
        BY <2>1 DEF Merged
    <2> QED
        BY <2>1, <2>2 DEF Provided, Wanted, Holders
<1>9. ASSUME NEW s \in Slot, BeginRotate(s) PROVE Provided'
    <2>1. ops' = {} /\ target' = s /\ todo' = {s} /\ phase' = "plan"
        BY <1>9 DEF BeginRotate, Load, RunShape
    <2> QED
        BY <2>1 DEF Provided, Wanted
<1>10. ASSUME NEW s \in Slot, Retire(s) \/ AdminEdit(s) PROVE Provided'
    <2>1. UNCHANGED <<shards, declared, ops, target, phase, todo, plan, out, failed>>
        BY <1>10 DEF Retire, AdminEdit, repoVars, planVars, pushVars
    <2> QED
        BY <2>1 DEF Provided, Wanted, Holders
<1> QED
    BY <1>1, <1>2, <1>3, <1>4, <1>5, <1>6, <1>7, <1>8, <1>9, <1>10
    DEF Next, RunStep, Record, PublishRow, PublishRowFails, EndRun, LoseRun, Reset, Merge, Crash

-----------------------------------------------------------------------------
LEMMA BrokerInit ==
    ASSUME Init
    PROVE  BrokerInv
<1> USE ShardsAssumption, BrokerAssumption DEF Init
<1>1. NewState \in StateFile /\ Empty \in Bundles
    BY DEF NewState, StateFile, NoMetadata, Metadata, L!EmptyLedger, L!LedgerType,
           Empty, Bundles
<1>2. TypeOK
    <2>1. {committed, disk, mem} \subseteq StateFile /\ secrets \in Bundles /\ shards \in Bundles
        BY <1>1
    <2>2. /\ row \in [Slot -> Value \cup {NoRow, Foreign}]
          /\ plan \in [Slot -> Shard \cup {NoShard}]
          /\ fresh \in [Slot -> Value \cup {NoValue}]
          /\ born \in [Value -> 0 .. MaxRevision]
        OBVIOUS
    <2>3. failed \in BOOLEAN
        OBVIOUS
    <2>4. /\ {todo, out, blocked, adds, ops, landed, fenced} \subseteq SUBSET Slot
          /\ {surfaced, lost, untracked, retired, unrecorded} \subseteq SUBSET Value
          /\ declared \subseteq Slot /\ target \in Slot \cup {NoSlot}
        OBVIOUS
    <2>5. /\ revision \in 1 .. MaxRevision /\ shardCount \in 0 .. MaxShards
          /\ made \in 0 .. MaxValue /\ rotations \in 0 .. MaxRotations
          /\ faults \in 0 .. MaxFaults /\ author \in Author /\ phase = "idle"
        OBVIOUS
    <2> QED
        BY <2>1, <2>2, <2>3, <2>4, <2>5 DEF TypeOK
<1>3. RunShape
    BY DEF RunShape
<1>4. Placed
    BY DEF Placed, NoSlotTwice, Holders, Empty
<1>5. Fits
    <2>1. \A sh \in Shard : Kept(secrets, sh) = {}
        BY DEF Kept, Empty
    <2>2. 0 <= Capacity
        OBVIOUS
    <2> QED
        BY <2>1, <2>2, FS_EmptySet DEF Fits, CapacityRespected
<1>6. Held
    <2>1. Values(Empty) = {}
        BY DEF Values, Empty
    <2> QED
        BY <2>1 DEF Held, ServedValuesAreHeld
<1>7. Provided
    BY DEF Provided, Wanted
<1> QED
    BY <1>2, <1>3, <1>4, <1>5, <1>6, <1>7 DEF BrokerInv

(* Every reachable state satisfies the inductive invariant.                *)
THEOREM BrokerInvariant == Spec => []BrokerInv
<1>1. Init => BrokerInv
    BY BrokerInit
<1>2. BrokerInv /\ [Next]_vars => BrokerInv'
    BY TypeStep, ShapeStep, PlacedStep, FitsStep, HeldStep, ProvidedStep DEF BrokerInv
<1> QED
    BY <1>1, <1>2, PTL DEF Spec

-----------------------------------------------------------------------------
(* The variables of the broker keep their types: in particular a push only *)
(* ever writes a slot its bundle holds, so no row is given an empty value. *)
THEOREM BrokerTypeCorrect == Spec => []TypeOK
BY BrokerInvariant, PTL DEF BrokerInv

(* However many slots, shards and runs there are, and wherever they stop,  *)
(* no slot ends up in two secrets: a rotated value replaces its            *)
(* predecessor in place and a retried PUT repeats itself (reserve_shard).  *)
THEOREM SlotsHaveOneShard == Spec => []OneShardPerSlot
<1>1. BrokerInv => OneShardPerSlot
    BY DEF BrokerInv, Placed, OneShardPerSlot
<1> QED
    BY <1>1, BrokerInvariant, PTL

(* No secret outgrows its limit, for every limit and every batch: a slot   *)
(* is placed in view of the slots of its batch placed before it.           *)
THEOREM BundlesFit == Spec => []CapacityRespected
<1>1. BrokerInv => CapacityRespected
    BY DEF BrokerInv, Fits
<1> QED
    BY <1>1, BrokerInvariant, PTL

(* A row the gateway serves carries a value whose ciphertext was handed    *)
(* over, or that a crash or an unanswered PUT lost: the hand-over precedes *)
(* every push of the same run, and a later run pushes what an earlier one  *)
(* stored and accounted for.                                               *)
THEOREM ServedValuesWereHandedOver == Spec => []ServedValuesAreHeld
<1>1. BrokerInv => ServedValuesAreHeld
    BY DEF BrokerInv, Held
<1> QED
    BY <1>1, BrokerInvariant, PTL

-----------------------------------------------------------------------------
(***************************************************************************)
(* What the run and the ledger remember.  The values stored under a slot,  *)
(* those of them this run did not generate, and all that are its own:      *)
(***************************************************************************)
Kin(s) == ({secrets[sh][s] : sh \in Shard} \cup {shards[sh][s] : sh \in Shard}) \ {NoValue}
Old(s) == Kin(s) \ {fresh[s]}
Own(s) == (Kin(s) \cup {fresh[s]}) \ {NoValue}

(* A value is of one slot, and is handed over only when stored.            *)
Unique ==
    /\ \A s \in Slot : Own(s) \subseteq 1 .. made
    /\ \A s, t \in Slot : s # t => Own(s) \cap Own(t) = {}
    /\ surfaced \cup retired \subseteq 1 .. made
    /\ SurfacedWasStored

(* Between runs nothing of a run is left.  While it stores, its bundle     *)
(* repeats what GitHub holds.                                              *)
Settled ==
    /\ phase = "idle" => /\ disk = committed /\ mem = NewState /\ shards = Empty
                         /\ fresh = [s \in Slot |-> NoValue]
    /\ phase \in {"plan", "put"} => \A sh \in Shard, s \in Slot :
          secrets[sh][s] # NoValue => shards[sh][s] = secrets[sh][s]
    /\ target # NoSlot => /\ target \in declared \cap committed.keys.managed
                          /\ phase \in {"surface", "publish"} => ~failed

(* No ledger is dated after the last value and the last revision, and what *)
(* a run generates is newer than the ledger it came with.                  *)
Dated(l) ==
    /\ l.applied <= made
    /\ \A s \in Slot : l.meta[s].at <= made /\ l.meta[s].revision <= revision
Ordered ==
    /\ Dated(committed) /\ Dated(disk) /\ Dated(mem)
    /\ \A v \in 1 .. made : born[v] <= revision
    /\ \A s \in Slot : fresh[s] # NoValue =>
          committed.applied < fresh[s] /\ committed.meta[s].at < fresh[s]

(* A value that was let go is of a slot no ledger can vouch for, and an    *)
(* apply that began has none under a declared slot.                        *)
Unvouched(l, s) ==
    s \notin Known(l) /\ (s \in declared => l.meta[s].revision # revision)
LetGo ==
    \A s \in Slot :
       /\ fresh[s] \notin retired
       /\ Kin(s) \cap retired # {} =>
             Unvouched(committed, s) /\ Unvouched(disk, s) /\ Unvouched(mem, s)
       /\ phase # "idle" /\ target = NoSlot /\ s \in declared => Kin(s) \cap retired = {}

(* The batch replaces what it stores, and an apply only fills what is      *)
(* empty.                                                                  *)
Replaced ==
    \A s \in Slot :
       /\ s \in out => Old(s) = {}
       /\ fresh[s] \in Kin(s) /\ s \notin out =>
             fresh[s] \in untracked /\ phase \notin {"idle", "plan", "put"}
       /\ target = NoSlot /\ phase \in {"plan", "put"} /\ (s \in todo \/ plan[s] # NoShard) =>
             Old(s) = {} /\ s \in ops

(* What the run's ledgers say, of a slot it did not store and of one it    *)
(* did.                                                                    *)
Entry(s) == [at |-> fresh[s], revision |-> revision, recipient |-> author]
Journaled ==
    \A s \in Slot :
       /\ phase # "idle" /\ s \notin out =>
             mem.meta[s] = committed.meta[s] /\ disk.meta[s] = committed.meta[s]
       /\ phase \in {"plan", "put", "journal"} \/ (target # NoSlot /\ phase \in {"surface", "publish"}) =>
             mem.meta[s] = committed.meta[s] /\ disk.meta[s] = committed.meta[s]
       /\ s \in out /\ target = NoSlot /\ phase \in {"surface", "reserve", "push"} =>
             mem.meta[s] = Entry(s)
       /\ s \in out /\ target = NoSlot /\ phase \in {"surface", "reserve", "push", "ended"} =>
             disk.meta[s] = Entry(s) \/ fresh[s] \in untracked
       /\ s \in out /\ phase = "ended" =>
             disk.meta[s].at = fresh[s] \/ fresh[s] \in untracked \cup unrecorded

(* Every older value has its record, and one of this revision that a       *)
(* recipient was to get is known or pending.                               *)
Vouched(l, s, v) ==
    \/ s \in Known(l)
    \/ /\ l.meta[s] = [at |-> v, revision |-> revision, recipient |-> author]
       /\ v > l.applied
Tracked ==
    \A s \in Slot : \A v \in Old(s) :
       /\ committed.meta[s].at = v \/ v \in untracked \cup unrecorded
       /\ s \in declared /\ author # Nobody /\ born[v] = revision /\ v \notin untracked =>
             Vouched(committed, s, v)

(* A run never disowns what is declared, and is clean only once it owns it *)
(* all: what it has yet to do is among its operations, or needs nothing    *)
(* while its row has not moved.                                            *)
Keeps(l) ==
    /\ Known(committed) \cap declared \subseteq Known(l)
    /\ l.applied = committed.applied \/ declared \subseteq Known(l)
Owned ==
    /\ phase # "idle" => Keeps(disk) /\ Keeps(mem)
    /\ phase \notin {"idle", "ended"} => mem.applied = committed.applied
    /\ target = NoSlot /\ phase \notin {"idle", "ended"} /\ ~failed =>
          \A s \in (declared \cap fenced) \ (blocked \cup ops \cup landed) :
              row[s] = Merged(shards, s)

HistoryInv == Unique /\ Settled /\ Ordered /\ LetGo /\ Replaced /\ Journaled /\ Tracked /\ Owned

-----------------------------------------------------------------------------
LEMMA MergedIsKin ==
    ASSUME TypeOK, NEW s \in Slot
    PROVE  /\ Merged(secrets, s) \in Kin(s) \cup {NoValue}
           /\ Merged(shards, s) \in Kin(s) \cup {NoValue}
<1>1. ASSUME NEW b \in Bundles
      PROVE  Merged(b, s) \in {b[sh][s] : sh \in Shard} \cup {NoValue}
    <2>1. CASE Holders(b, s) = {}
        BY <2>1 DEF Merged
    <2>2. CASE Holders(b, s) # {}
        <3> DEFINE sh == Max(Holders(b, s))
        <3>1. Holders(b, s) \in SUBSET (0 .. MaxShards)
            BY ShardsAssumption DEF Holders, Shard
        <3>2. sh \in Holders(b, s)
            BY <2>2, <3>1, ShardsAssumption, MaxIsGreatest
        <3>3. Merged(b, s) = b[sh][s]
            BY <2>2 DEF Merged
        <3> HIDE DEF sh
        <3> QED
            BY <3>2, <3>3 DEF Holders
    <2> QED
        BY <2>1, <2>2
<1>2. secrets \in Bundles /\ shards \in Bundles
    BY DEF TypeOK
<1>3. /\ Merged(secrets, s) \in {secrets[sh][s] : sh \in Shard} \cup {NoValue}
      /\ Merged(shards, s) \in {shards[sh][s] : sh \in Shard} \cup {NoValue}
    BY <1>1, <1>2
<1> QED
    BY <1>3 DEF Kin

(* A slot held once is merged to what its shard holds.                     *)
LEMMA SoleHolder ==
    ASSUME NEW b \in Bundles, NoSlotTwice(b), NEW s \in Slot, NEW sh \in Shard,
           b[sh][s] # NoValue
    PROVE  Merged(b, s) = b[sh][s]
<1> DEFINE x == Max(Holders(b, s))
<1>1. sh \in Holders(b, s)
    BY DEF Holders
<1>2. Holders(b, s) \in SUBSET (0 .. MaxShards)
    BY ShardsAssumption DEF Holders, Shard
<1>3. x \in Holders(b, s)
    BY <1>1, <1>2, ShardsAssumption, MaxIsGreatest
<1>4. Merged(b, s) = b[x][s]
    BY <1>1 DEF Merged
<1> HIDE DEF x
<1> QED
    BY <1>1, <1>3, <1>4 DEF NoSlotTwice

LEMMA NoHolder ==
    ASSUME NEW b \in Bundles, NEW s \in Slot, Merged(b, s) = NoValue
    PROVE  \A sh \in Shard : b[sh][s] = NoValue
<1>1. Holders(b, s) = {}
    <2>1. NoValue \notin Value
        BY DEF NoValue, Value
    <2> QED
        BY <2>1, MergedIsHeld
<1> QED
    BY <1>1 DEF Holders

(* Storing a shard writes values the run knows.                            *)
LEMMA KinOfStore ==
    ASSUME TypeOK, NEW sh \in Shard, NEW s \in Slot,
           secrets' \in {secrets, [secrets EXCEPT ![sh] = Body(sh)]},
           shards' \in {shards, [shards EXCEPT ![sh] = Body(sh)]}
    PROVE  Kin(s)' \subseteq Kin(s) \cup {fresh[s]}
<1>1. secrets \in Bundles /\ shards \in Bundles
    BY DEF TypeOK
<1>2. Body(sh)[s] \in {fresh[s], shards[sh][s]}
    BY BodySlots
<1>3. \A x \in Shard : /\ secrets'[x][s] \in {secrets[x][s], Body(sh)[s]}
                       /\ shards'[x][s] \in {shards[x][s], Body(sh)[s]}
    BY <1>1 DEF Bundles
<1>4. \A x \in Shard : {secrets'[x][s], shards'[x][s]} \subseteq
         {secrets[x][s], shards[x][s], fresh[s], shards[sh][s]}
    BY <1>2, <1>3
<1> QED
    BY <1>4 DEF Kin

(* No step but a PUT leaves a slot a value it did not have.                *)
LEMMA KinStep ==
    ASSUME TypeOK, RunShape, [Next]_vars, NEW s \in Slot
    PROVE  /\ Kin(s)' \subseteq Kin(s) \cup {fresh[s]}
           /\ Kin(s)' \subseteq Kin(s) \/ PutStored \/ PutFails
<1> USE ShardsAssumption, BrokerAssumption
<1>1. CASE UNCHANGED <<secrets, shards>>
    BY <1>1 DEF Kin
<1>2. CASE PutStored \/ PutFails
    <2> DEFINE sh == Min(Unsent)
    <2>1. sh \in Shard
        BY <1>2, NextShard DEF PutStored, PutFails
    <2>2. /\ secrets' \in {secrets, [secrets EXCEPT ![sh] = Body(sh)]}
          /\ shards' \in {shards, [shards EXCEPT ![sh] = Body(sh)]}
        BY <1>2 DEF PutStored, PutFails
    <2> HIDE DEF sh
    <2>3. Kin(s)' \subseteq Kin(s) \cup {fresh[s]}
        BY <2>1, <2>2, KinOfStore
    <2> QED
        BY <1>2, <2>3
<1>3. CASE UNCHANGED secrets /\ shards' \in {secrets, Empty}
    <2>1. Kin(s)' \subseteq Kin(s)
        BY <1>3 DEF Kin, Empty
    <2> QED
        BY <2>1
<1>4. ASSUME NEW q \in Slot, Retire(q) PROVE Kin(s)' \subseteq Kin(s)
    <2>1. \A x \in Shard : secrets'[x][s] \in {secrets[x][s], NoValue}
        BY <1>4 DEF Retire, TypeOK, Bundles
    <2>2. shards' = shards
        BY <1>4 DEF Retire
    <2> QED
        BY <2>1, <2>2 DEF Kin
<1>5. ASSUME NEW q \in Slot, PlanSlot(q) PROVE UNCHANGED <<secrets, shards>>
    BY <1>5 DEF PlanSlot
<1> QED
    BY <1>1, <1>2, <1>3, <1>4, <1>5, QuietSteps
    DEF Quiet, BeginApply, BeginRotate, Load, EndRun, LoseRun, Reset

(* A slot's fresh value stays, is dropped at the end, or is the next one.  *)
LEMMA FreshStep ==
    ASSUME TypeOK, [Next]_vars
    PROVE  \/ fresh' = fresh /\ made' = made /\ born' = born
           \/ /\ fresh' = [s \in Slot |-> NoValue] /\ made' = made /\ born' = born
              /\ EndRun \/ LoseRun
           \/ \E s \in Slot : /\ PlanSlot(s) /\ made' = made + 1
                              /\ fresh' = [fresh EXCEPT ![s] = made + 1]
                              /\ born' = [born EXCEPT ![made + 1] = revision]
<1>1. CASE UNCHANGED vars
    BY <1>1 DEF vars, planVars, historyVars
<1>2. ASSUME NEW s \in Slot, PlanSlot(s)
      PROVE  \E q \in Slot : /\ PlanSlot(q) /\ made' = made + 1
                              /\ fresh' = [fresh EXCEPT ![q] = made + 1]
                              /\ born' = [born EXCEPT ![made + 1] = revision]
    BY <1>2 DEF PlanSlot
<1>3. ASSUME NEW s \in Slot,
             PushOp(s) \/ PushOpFails(s) \/ AdminEdit(s) \/ Retire(s) \/ BeginRotate(s)
      PROVE  fresh' = fresh /\ made' = made /\ born' = born
    BY <1>3 DEF PushOp, PushOpFails, AdminEdit, Retire, BeginRotate, Load, planVars, historyVars
<1>4. CASE Journal \/ JournalFails \/ Surface \/ ReserveAdds \/ Record \/ PutStored \/ PutFails
    BY <1>4 DEF Journal, JournalFails, Surface, ReserveAdds, Record, PutStored, PutFails,
                planVars, historyVars
<1>5. CASE PublishRow \/ PublishRowFails \/ Crash \/ Merge
    BY <1>5 DEF PublishRow, PublishRowFails, Crash, Merge, planVars, historyVars
<1>6. ASSUME NEW mode \in Modes, BeginApply(mode)
      PROVE  fresh' = fresh /\ made' = made /\ born' = born
    BY <1>6 DEF BeginApply, Load
<1>7. CASE EndRun \/ LoseRun
    BY <1>7 DEF EndRun, LoseRun, Reset
<1> QED
    BY <1>1, <1>2, <1>3, <1>4, <1>5, <1>6, <1>7, Zenon DEF Next, RunStep

(* What moves the history, the outcome, the head and the ledger file.      *)
LEMMA HistoryMoves ==
    ASSUME [Next]_vars
    PROVE  /\ surfaced' = surfaced \/ Surface
           /\ out' = out \/ PutStored \/ EndRun \/ LoseRun
           /\ \/ retired' = retired
              \/ Merge \/ EndRun \/ LoseRun \/ \E mode \in Modes : BeginApply(mode)
           /\ untracked' = untracked \/ PutFails \/ JournalFails \/ Crash \/ LoseRun
           /\ unrecorded' = unrecorded \/ PublishRowFails
           /\ committed' = committed \/ EndRun
           /\ UNCHANGED repoVars \/ Merge
<1> DEFINE Goal ==
           /\ surfaced' = surfaced \/ Surface
           /\ out' = out \/ PutStored \/ EndRun \/ LoseRun
           /\ \/ retired' = retired
              \/ Merge \/ EndRun \/ LoseRun \/ \E mode \in Modes : BeginApply(mode)
           /\ untracked' = untracked \/ PutFails \/ JournalFails \/ Crash \/ LoseRun
           /\ unrecorded' = unrecorded \/ PublishRowFails
           /\ committed' = committed \/ EndRun
           /\ UNCHANGED repoVars \/ Merge
<1>1. ASSUME UNCHANGED vars PROVE Goal
    BY <1>1 DEF vars, historyVars, ledgerVars
<1>2. ASSUME NEW s \in Slot, PlanSlot(s) \/ BeginRotate(s) PROVE Goal
    BY <1>2 DEF PlanSlot, BeginRotate, Load, ledgerVars
<1>3. ASSUME NEW s \in Slot, PushOp(s) \/ PushOpFails(s) \/ AdminEdit(s) \/ Retire(s) PROVE Goal
    BY <1>3 DEF PushOp, PushOpFails, AdminEdit, Retire, ledgerVars, historyVars
<1>4. ASSUME Journal \/ Surface \/ ReserveAdds \/ Record \/ PutStored PROVE Goal
    BY <1>4 DEF Journal, Surface, ReserveAdds, Record, PutStored, ledgerVars, historyVars
<1>5. ASSUME PublishRow \/ PublishRowFails \/ JournalFails \/ PutFails PROVE Goal
    BY <1>5 DEF PublishRow, PublishRowFails, JournalFails, PutFails, ledgerVars, historyVars
<1>6. ASSUME Crash \/ Merge PROVE Goal
    BY <1>6 DEF Crash, Merge, ledgerVars
<1>7. ASSUME NEW mode \in Modes, BeginApply(mode) PROVE Goal
    BY <1>7 DEF BeginApply, Load
<1>8. ASSUME EndRun \/ LoseRun PROVE Goal
    BY <1>8 DEF EndRun, LoseRun, Reset, repoVars
<1> HIDE DEF Goal
<1>9. Goal
    BY <1>1, <1>2, <1>3, <1>4, <1>5, <1>6, <1>7, <1>8, Zenon DEF Next, RunStep
<1> QED
    BY <1>9 DEF Goal

(* A value is let go between runs, with the Consumer of its slot.          *)
LEMMA RetiredStep ==
    ASSUME TypeOK, [Next]_vars, NEW v \in retired' \ retired
    PROVE  /\ phase' = "idle"
           /\ \E s \in Slot \ (declared' \cup Known(committed')) : v \in Kin(s)
<1>1. CASE Merge
    <2>1. v \in Abandoned(committed, declared') /\ committed' = committed /\ phase' = "idle"
        BY <1>1 DEF Merge, ledgerVars
    <2> QED
        BY <2>1, MergedIsKin DEF Abandoned
<1>2. CASE EndRun \/ LoseRun
    <2>1. v \in Abandoned(committed', declared) /\ declared' = declared /\ phase' = "idle"
        BY <1>2 DEF EndRun, LoseRun, Reset, repoVars
    <2> QED
        BY <2>1, MergedIsKin DEF Abandoned
<1>3. ASSUME NEW mode \in Modes, BeginApply(mode) PROVE FALSE
    BY <1>3 DEF BeginApply
<1> QED
    BY <1>1, <1>2, <1>3, HistoryMoves

LEMMA UniqueStep ==
    ASSUME TypeOK, RunShape, Unique, [Next]_vars
    PROVE  Unique'
<1> DEFINE new == made' # made
<1>1. /\ made \in Nat /\ made' \in {made, made + 1}
      /\ \A s \in Slot : Kin(s)' \subseteq Own(s)
      /\ \A s \in Slot : Kin(s) \subseteq Own(s)
    <2>1. \A s \in Slot : Kin(s)' \subseteq Kin(s) \cup {fresh[s]} /\ NoValue \notin Kin(s)'
        BY KinStep DEF Kin
    <2>2. \A s \in Slot : Kin(s) \subseteq Own(s)
        BY DEF Own, Kin
    <2>3. \A s \in Slot : Kin(s)' \subseteq Own(s)
        BY <2>1 DEF Own
    <2>4. made \in Nat /\ made' \in {made, made + 1}
        BY FreshStep DEF TypeOK
    <2> QED
        BY <2>2, <2>3, <2>4
<1>2. \A s \in Slot : \/ Own(s)' \subseteq Own(s)
                      \/ /\ Own(s)' \subseteq Own(s) \cup {made + 1}
                         /\ fresh'[s] = made + 1 /\ made' = made + 1
    <2>1. CASE fresh' = fresh
        BY <1>1, <2>1 DEF Own
    <2>2. CASE fresh' = [s \in Slot |-> NoValue]
        BY <1>1, <2>2 DEF Own
    <2>3. ASSUME NEW q \in Slot, made' = made + 1, fresh' = [fresh EXCEPT ![q] = made + 1]
          PROVE  \A s \in Slot : \/ Own(s)' \subseteq Own(s)
                      \/ /\ Own(s)' \subseteq Own(s) \cup {made + 1}
                         /\ fresh'[s] = made + 1 /\ made' = made + 1
        BY <1>1, <2>3 DEF Own, TypeOK
    <2> QED
        BY <2>1, <2>2, <2>3, FreshStep
<1>3. \A s \in Slot : fresh'[s] # made + 1 \/ made' = made => Own(s)' \subseteq Own(s)
    BY <1>1, <1>2
<1>4. ASSUME NEW s \in Slot PROVE Own(s)' \subseteq 1 .. made'
    BY <1>1, <1>2 DEF Unique
<1>5. ASSUME NEW s \in Slot, NEW t \in Slot, s # t PROVE Own(s)' \cap Own(t)' = {}
    <2>1. /\ Own(s) \cap Own(t) = {} /\ made + 1 \notin Own(s) \cup Own(t)
        BY <1>1, <1>5 DEF Unique
    <2>2. \/ Own(s)' \subseteq Own(s)
          \/ Own(t)' \subseteq Own(t)
        <3>1. CASE \E q \in Slot : made' = made + 1 /\ fresh' = [fresh EXCEPT ![q] = made + 1]
            <4>1. fresh[s] # made + 1 /\ fresh[t] # made + 1
                BY <1>1, <2>1 DEF Own, NoValue
            <4> QED
                BY <1>3, <1>5, <3>1, <4>1 DEF TypeOK
        <3>2. CASE made' = made
            BY <1>3, <3>2
        <3> QED
            BY <3>1, <3>2, FreshStep
    <2> QED
        BY <1>2, <2>1, <2>2
<1>6. surfaced' \subseteq 1 .. made'
    <2>1. CASE Surface
        <3>1. surfaced' \subseteq surfaced \cup Allocated
            BY <2>1 DEF Surface, Handed
        <3>2. Allocated \subseteq 1 .. made
            <4>1. \A s \in out : s \in Slot /\ fresh[s] \in Own(s)
                BY DEF RunShape, TypeOK, Own, Value, NoValue
            <4> QED
                BY <4>1 DEF Allocated, Unique
        <3>3. surfaced \subseteq 1 .. made
            BY DEF Unique
        <3> QED
            BY <1>1, <3>1, <3>2, <3>3
    <2> QED
        BY <1>1, <2>1, HistoryMoves DEF Unique
<1>7. retired' \subseteq 1 .. made'
    <2>1. \A v \in retired' \ retired : v \in 1 .. made
        BY <1>1, RetiredStep DEF Unique
    <2> QED
        BY <1>1, <2>1 DEF Unique
<1>8. SurfacedWasStored'
    <2> SUFFICES ASSUME NEW s \in Slot, fresh'[s] \in surfaced'
                 PROVE  s \in out'
        BY DEF SurfacedWasStored
    <2>1. CASE Surface
        <3>1. surfaced' = surfaced \cup Allocated /\ out' = out /\ fresh' = fresh
            BY <2>1 DEF Surface, Handed, planVars
        <3>2. CASE fresh[s] \in Allocated
            <4>1. PICK q \in out : fresh[s] = fresh[q]
                BY <3>2 DEF Allocated
            <4>2. q \in Slot /\ fresh[q] \in Value
                BY DEF RunShape, TypeOK
            <4> QED
                BY <3>1, <4>1, <4>2 DEF Unique, Own, Value, NoValue
        <3> QED
            BY <3>1, <3>2 DEF Unique, SurfacedWasStored
    <2>2. CASE surfaced' = surfaced
        <3>1. surfaced \subseteq 1 .. made
            BY DEF Unique
        <3>2. CASE fresh' = [q \in Slot |-> NoValue]
            BY <2>2, <3>1, <3>2 DEF NoValue
        <3>3. CASE fresh'[s] = made + 1
            BY <1>1, <2>2, <3>1, <3>3
        <3>4. CASE fresh'[s] = fresh[s] /\ ~(EndRun \/ LoseRun)
            <4>1. s \in out
                BY <2>2, <3>4 DEF Unique, SurfacedWasStored
            <4>2. out' = out \/ PutStored
                BY <3>4, HistoryMoves
            <4> QED
                BY <4>1, <4>2 DEF PutStored
        <3>5. EndRun \/ LoseRun => fresh' = [q \in Slot |-> NoValue]
            BY DEF EndRun, LoseRun, Reset
        <3> QED
            BY <3>2, <3>3, <3>4, <3>5, FreshStep DEF TypeOK
    <2> QED
        BY <2>1, <2>2, HistoryMoves
<1> QED
    BY <1>4, <1>5, <1>6, <1>7, <1>8 DEF Unique

LEMMA SettledStep ==
    ASSUME TypeOK, RunShape, Settled, [Next]_vars
    PROVE  Settled'
<1> USE ShardsAssumption, BrokerAssumption
<1>1. CASE UNCHANGED vars
    BY <1>1 DEF Settled, vars, repoVars, ledgerVars, planVars
<1>2. ASSUME NEW s \in Slot, PlanSlot(s) PROVE Settled'
    BY <1>2 DEF PlanSlot, Settled, repoVars, ledgerVars
<1>3. ASSUME NEW s \in Slot, PushOp(s) \/ PushOpFails(s) \/ AdminEdit(s) PROVE Settled'
    BY <1>3 DEF PushOp, PushOpFails, AdminEdit, Settled, repoVars, ledgerVars, planVars
<1>4. ASSUME NEW s \in Slot, Retire(s) PROVE Settled'
    <2>1. \A sh \in Shard, q \in Slot : secrets'[sh][q] \in {secrets[sh][q], NoValue}
        BY <1>4 DEF Retire, TypeOK, Bundles
    <2>2. UNCHANGED <<phase, disk, committed, mem, shards, fresh, target, declared, failed>>
        BY <1>4 DEF Retire, repoVars, ledgerVars, planVars
    <2> QED
        BY <2>1, <2>2 DEF Settled
<1>5. CASE PutStored
    <2> DEFINE sh == Min(Unsent)
    <2>1. sh \in Shard
        BY <1>5, NextShard DEF PutStored
    <2>2. /\ secrets' = [secrets EXCEPT ![sh] = Body(sh)]
          /\ shards' = [shards EXCEPT ![sh] = Body(sh)]
          /\ phase = "put" /\ phase' # "idle" /\ ~failed
          /\ UNCHANGED <<target, declared, committed, failed>>
        BY <1>5 DEF PutStored, RunShape, repoVars, ledgerVars
    <2> HIDE DEF sh
    <2>3. \A x \in Shard, q \in Slot : secrets'[x][q] # NoValue => shards'[x][q] = secrets'[x][q]
        BY <2>1, <2>2 DEF Settled, TypeOK, Bundles
    <2> QED
        BY <2>2, <2>3 DEF Settled
<1>6. CASE \/ PutFails \/ Journal \/ JournalFails \/ Surface \/ ReserveAdds \/ Record
           \/ PublishRow \/ PublishRowFails \/ Crash
    <2>1. /\ phase' \notin {"idle", "plan", "put"}
          /\ UNCHANGED <<target, declared, committed>>
        BY <1>6 DEF PutFails, Journal, JournalFails, Surface, ReserveAdds, Record,
                    PublishRow, PublishRowFails, Crash, repoVars, ledgerVars
    <2>2. \/ phase' \notin {"surface", "publish"}
          \/ (Journal \/ JournalFails) /\ target = NoSlot
          \/ Surface /\ ~failed'
        BY <1>6 DEF PutFails, Journal, JournalFails, Surface, ReserveAdds, Record,
                    PublishRow, PublishRowFails, Crash, RunShape
    <2> QED
        BY <2>1, <2>2 DEF Settled
<1>7. CASE EndRun \/ LoseRun
    BY <1>7 DEF EndRun, LoseRun, Reset, Settled
<1>8. ASSUME NEW mode \in Modes, BeginApply(mode) PROVE Settled'
    BY <1>8 DEF BeginApply, Load, Settled, RunShape
<1>9. ASSUME NEW s \in Slot, BeginRotate(s) PROVE Settled'
    BY <1>9 DEF BeginRotate, Load, Settled, repoVars
<1>10. CASE Merge
    BY <1>10 DEF Merge, Settled, RunShape, ledgerVars, planVars
<1> QED
    BY <1>1, <1>2, <1>3, <1>4, <1>5, <1>6, <1>7, <1>8, <1>9, <1>10, Zenon DEF Next, RunStep

-----------------------------------------------------------------------------
(* What each step writes of a ledger's records and its date.               *)
LEMMA LedgerMoves ==
    ASSUME TypeOK, RunShape, [Next]_vars
    PROVE  /\ \/ mem' = mem
              \/ (EndRun \/ LoseRun) /\ mem' = NewState
              \/ /\ phase = "idle" /\ disk' = mem'
                 /\ mem'.meta = committed.meta /\ mem'.applied = committed.applied
              \/ /\ Journal \/ JournalFails
                 /\ \A s \in Slot : mem'.meta[s] = IF s \in out THEN Entry(s) ELSE mem.meta[s]
                 /\ mem'.applied = mem.applied
              \/ ReserveAdds /\ disk' = mem' /\ mem'.meta = mem.meta /\ mem'.applied = mem.applied
              \/ Record /\ disk' = mem' /\ mem'.meta = mem.meta /\ mem'.applied \in {mem.applied, made}
              \/ /\ PublishRow /\ disk' = mem' /\ mem'.applied = mem.applied
                 /\ \A s \in Slot : mem'.meta[s] = IF s = target THEN RotationRecord ELSE mem.meta[s]
           /\ disk' = disk \/ disk' = mem' \/ (LoseRun /\ disk' = committed)
<1> DEFINE Goal ==
           /\ \/ mem' = mem
              \/ (EndRun \/ LoseRun) /\ mem' = NewState
              \/ /\ phase = "idle" /\ disk' = mem'
                 /\ mem'.meta = committed.meta /\ mem'.applied = committed.applied
              \/ /\ Journal \/ JournalFails
                 /\ \A s \in Slot : mem'.meta[s] = IF s \in out THEN Entry(s) ELSE mem.meta[s]
                 /\ mem'.applied = mem.applied
              \/ ReserveAdds /\ disk' = mem' /\ mem'.meta = mem.meta /\ mem'.applied = mem.applied
              \/ Record /\ disk' = mem' /\ mem'.meta = mem.meta /\ mem'.applied \in {mem.applied, made}
              \/ /\ PublishRow /\ disk' = mem' /\ mem'.applied = mem.applied
                 /\ \A s \in Slot : mem'.meta[s] = IF s = target THEN RotationRecord ELSE mem.meta[s]
           /\ disk' = disk \/ disk' = mem' \/ (LoseRun /\ disk' = committed)
<1>1. ASSUME UNCHANGED vars PROVE Goal
    BY <1>1 DEF vars, ledgerVars
<1>2. ASSUME NEW s \in Slot, PlanSlot(s) PROVE Goal
    BY <1>2 DEF PlanSlot, ledgerVars
<1>3. ASSUME NEW s \in Slot, PushOp(s) \/ PushOpFails(s) \/ AdminEdit(s) \/ Retire(s) PROVE Goal
    BY <1>3 DEF PushOp, PushOpFails, AdminEdit, Retire, ledgerVars
<1>4. ASSUME PutStored \/ PutFails \/ Surface \/ PublishRowFails \/ Crash \/ Merge PROVE Goal
    BY <1>4 DEF PutStored, PutFails, Surface, PublishRowFails, Crash, Merge, ledgerVars
<1>5. ASSUME Journal \/ JournalFails PROVE Goal
    <2>1. mem' = RecordAllocation(mem) /\ mem \in StateFile /\ (disk' = disk \/ disk' = mem')
        BY <1>5 DEF Journal, JournalFails, TypeOK, ledgerVars
    <2>2. /\ \A s \in Slot : mem'.meta[s] = IF s \in out THEN Entry(s) ELSE mem.meta[s]
          /\ mem'.applied = mem.applied
        BY <2>1 DEF RecordAllocation, Entry, StateFile
    <2> QED
        BY <1>5, <2>1, <2>2
<1>6. ASSUME ReserveAdds PROVE Goal
    BY <1>6 DEF ReserveAdds, TypeOK, StateFile
<1>7. ASSUME Record PROVE Goal
    <2>1. PICK adopted \in SUBSET Adoptable :
             mem' = [mem EXCEPT
                 !.keys = L!RecordOps(@, OpsOf(landed) \cup
                                         {[key |-> s, act |-> "Modify"] : s \in adopted}, declared),
                 !.count = shardCount,
                 !.applied = IF failed' \/ blocked # {} THEN @ ELSE made]
        BY <1>7 DEF Record
    <2>2. mem \in StateFile /\ disk' = mem'
        BY <1>7 DEF Record, TypeOK
    <2>3. mem'.meta = mem.meta /\ mem'.applied = IF failed' \/ blocked # {} THEN mem.applied ELSE made
        BY <2>1, <2>2 DEF StateFile
    <2> QED
        BY <1>7, <2>2, <2>3
<1>8. ASSUME PublishRow PROVE Goal
    <2>1. /\ target \in Slot /\ mem \in StateFile /\ disk' = mem'
          /\ mem' = [mem EXCEPT !.meta[target] = RotationRecord, !.count = shardCount]
        BY <1>8 DEF PublishRow, TypeOK, RunShape
    <2>2. mem'.meta = [mem.meta EXCEPT ![target] = RotationRecord] /\ mem'.applied = mem.applied
        BY <2>1 DEF StateFile
    <2>3. \A s \in Slot : mem'.meta[s] = IF s = target THEN RotationRecord ELSE mem.meta[s]
        BY <2>1, <2>2 DEF StateFile
    <2> QED
        BY <1>8, <2>1, <2>2, <2>3
<1>9. ASSUME EndRun \/ LoseRun PROVE Goal
    BY <1>9 DEF EndRun, LoseRun, Reset
<1>10. ASSUME NEW mode \in Modes, BeginApply(mode) PROVE Goal
    BY <1>10 DEF BeginApply, Load, TypeOK, StateFile
<1>11. ASSUME NEW s \in Slot, BeginRotate(s) PROVE Goal
    BY <1>11 DEF BeginRotate, Load
<1> HIDE DEF Goal
<1>12. Goal
    BY <1>1, <1>2, <1>3, <1>4, <1>5, <1>6, <1>7, <1>8, <1>9, <1>10, <1>11, Zenon
    DEF Next, RunStep
<1> QED
    BY <1>12 DEF Goal

LEMMA OrderedStep ==
    ASSUME TypeOK, TypeOK', RunShape, Unique, Settled, Ordered, [Next]_vars
    PROVE  Ordered'
<1> USE ShardsAssumption, BrokerAssumption
<1> DEFINE After(l) == /\ l.applied <= made'
                       /\ \A s \in Slot : l.meta[s].at <= made' /\ l.meta[s].revision <= revision'
<1>1. /\ made \in Nat /\ made' \in {made, made + 1}
      /\ revision \in Nat /\ revision' \in {revision, revision + 1}
    <2>1. revision' \in {revision, revision + 1}
        BY HistoryMoves DEF repoVars, Merge
    <2> QED
        BY <2>1, FreshStep DEF TypeOK
<1>2. \A l \in StateFile : Dated(l) => After(l)
    <2> SUFFICES ASSUME NEW l \in StateFile, Dated(l) PROVE After(l)
        OBVIOUS
    <2>1. l.applied \in Nat /\ \A s \in Slot : l.meta[s].at \in Nat /\ l.meta[s].revision \in Nat
        BY DEF StateFile, Metadata, Value, NoValue
    <2> QED
        BY <1>1, <2>1 DEF Dated
<1>3. {committed, disk, mem} \subseteq StateFile /\ {committed, disk, mem}' \subseteq StateFile
    BY DEF TypeOK
<1>4. After(committed) /\ After(disk) /\ After(mem)
    BY <1>2, <1>3 DEF Ordered
<1>5. After(NewState)
    BY <1>1 DEF NewState, NoMetadata, NoValue
<1>6. \A s \in out : s \in Slot /\ fresh[s] \in Value /\ fresh[s] <= made
    <2>1. \A s \in out : s \in Slot /\ fresh[s] \in Value
        BY DEF RunShape, TypeOK
    <2>2. \A s \in out : fresh[s] \in Own(s)
        BY <2>1 DEF Own, Value, NoValue
    <2> QED
        BY <2>1, <2>2 DEF Unique
<1>7. After(mem')
    <2>1. CASE mem' = mem
        BY <1>4, <2>1
    <2>2. CASE mem' = NewState
        BY <1>5, <2>2
    <2>3. CASE mem'.meta = committed.meta /\ mem'.applied = committed.applied
        BY <1>4, <2>3
    <2>4. CASE /\ Journal \/ JournalFails
               /\ \A s \in Slot : mem'.meta[s] = IF s \in out THEN Entry(s) ELSE mem.meta[s]
               /\ mem'.applied = mem.applied
        <3>1. made' = made /\ revision' = revision
            BY <2>4 DEF Journal, JournalFails, historyVars, repoVars
        <3>2. \A s \in out : /\ Entry(s).at = fresh[s] /\ Entry(s).revision = revision
                              /\ fresh[s] <= made' /\ revision <= revision'
            BY <1>1, <1>6, <3>1 DEF Entry
        <3>3. \A s \in Slot : mem'.meta[s].at <= made' /\ mem'.meta[s].revision <= revision'
            BY <1>4, <2>4, <3>2
        <3> QED
            BY <1>4, <2>4, <3>3
    <2>5. CASE mem'.meta = mem.meta /\ mem'.applied \in {mem.applied, made}
        BY <1>1, <1>4, <2>5
    <2>6. CASE /\ PublishRow /\ mem'.applied = mem.applied
               /\ \A s \in Slot : mem'.meta[s] = IF s = target THEN RotationRecord ELSE mem.meta[s]
        <3>1. target \in out
            BY <2>6 DEF PublishRow, RunShape
        <3>2. RotationRecord.at = fresh[target] /\ RotationRecord.revision = 0
            BY DEF RotationRecord, NoMetadata
        <3> QED
            BY <1>1, <1>4, <1>6, <2>6, <3>1, <3>2 DEF Value
    <2> HIDE DEF After
    <2> QED
        BY <2>1, <2>2, <2>3, <2>4, <2>5, <2>6, LedgerMoves
<1>8. After(disk') /\ After(committed')
    <2>1. After(disk')
        <3> HIDE DEF After
        <3> QED
            BY <1>4, <1>7, LedgerMoves
    <2>2. committed' = committed \/ committed' = disk
        BY HistoryMoves DEF EndRun
    <2> HIDE DEF After
    <2> QED
        BY <1>4, <2>1, <2>2
<1>9. \A v \in 1 .. made' : born'[v] <= revision'
    <2>1. CASE born' = born /\ made' = made
        <3>1. \A v \in 1 .. made : born[v] \in Nat
            BY DEF TypeOK, Value
        <3> QED
            BY <1>1, <2>1, <3>1 DEF Ordered
    <2>2. CASE made' = made + 1 /\ born' = [born EXCEPT ![made + 1] = revision]
        <3>1. \A v \in 1 .. made + 1 : born[v] \in Nat /\ v \in Value
            BY <2>2 DEF TypeOK, Value
        <3>2. \A v \in 1 .. made + 1 : born'[v] = IF v = made + 1 THEN revision ELSE born[v]
            BY <2>2, <3>1 DEF TypeOK
        <3> QED
            BY <1>1, <2>2, <3>1, <3>2 DEF Ordered
    <2> QED
        BY <2>1, <2>2, FreshStep
<1>10. ASSUME NEW s \in Slot, fresh'[s] # NoValue
       PROVE  committed'.applied < fresh'[s] /\ committed'.meta[s].at < fresh'[s]
    <2>1. CASE fresh' = [q \in Slot |-> NoValue]
        BY <1>10, <2>1
    <2>2. committed' = committed \/ fresh' = [q \in Slot |-> NoValue]
        BY HistoryMoves DEF EndRun, Reset
    <2>3. CASE fresh'[s] = fresh[s] /\ committed' = committed
        BY <1>10, <2>3 DEF Ordered
    <2>4. CASE fresh'[s] = made + 1 /\ committed' = committed
        <3>1. committed.applied \in Nat /\ committed.meta[s].at \in Nat
            BY <1>3 DEF StateFile, Metadata, Value, NoValue
        <3> QED
            BY <1>1, <2>4, <3>1 DEF Ordered, Dated
    <2> QED
        BY <2>1, <2>2, <2>3, <2>4, FreshStep DEF TypeOK
<1> QED
    BY <1>7, <1>8, <1>9, <1>10 DEF Ordered, Dated

-----------------------------------------------------------------------------
LEMMA OpsKeys ==
    ASSUME NEW S, NEW acts
    PROVE  L!KeysOf(OpsOf(S), acts) = {s \in S : ActOf(s) \in acts}
<1>1. \A s : [key |-> s, act |-> ActOf(s)].key = s /\ [key |-> s, act |-> ActOf(s)].act = ActOf(s)
    OBVIOUS
<1>2. {p \in OpsOf(S) : p.act \in acts}
         = {[key |-> s, act |-> ActOf(s)] : s \in {q \in S : ActOf(q) \in acts}}
    BY <1>1 DEF OpsOf
<1>3. L!KeysOf(OpsOf(S), acts) = {o.key : o \in {p \in OpsOf(S) : p.act \in acts}}
    BY DEF L!KeysOf
<1> DEFINE T == {q \in S : ActOf(q) \in acts}
<1>4. {o.key : o \in {[key |-> s, act |-> ActOf(s)] : s \in T}} = T
    BY <1>1
<1> HIDE DEF T
<1>5. L!KeysOf(OpsOf(S), acts) = T
    BY <1>2, <1>3, <1>4 DEF T
<1> QED
    BY <1>5 DEF T

(* What the ledger of a run knows: it learns only what is declared.        *)
LEMMA KnownMoves ==
    ASSUME TypeOK, RunShape, [Next]_vars
    PROVE  \/ mem'.keys = mem.keys
           \/ mem' = NewState
           \/ phase = "idle" /\ Known(mem') \subseteq Known(committed)
           \/ /\ target = NoSlot /\ phase \in {"reserve", "push"}
              /\ Known(mem') \subseteq Known(mem) \cup declared
<1> DEFINE Goal ==
           \/ mem'.keys = mem.keys
           \/ mem' = NewState
           \/ phase = "idle" /\ Known(mem') \subseteq Known(committed)
           \/ /\ target = NoSlot /\ phase \in {"reserve", "push"}
              /\ Known(mem') \subseteq Known(mem) \cup declared
<1>1. ASSUME UNCHANGED vars PROVE Goal
    BY <1>1 DEF vars
<1>2. ASSUME NEW s \in Slot, PlanSlot(s) \/ PushOp(s) \/ PushOpFails(s) PROVE Goal
    BY <1>2 DEF PlanSlot, PushOp, PushOpFails
<1>3. ASSUME NEW s \in Slot, AdminEdit(s) \/ Retire(s) PROVE Goal
    BY <1>3 DEF AdminEdit, Retire
<1>4. ASSUME PutStored \/ PutFails \/ Surface \/ PublishRowFails \/ Crash \/ Merge PROVE Goal
    BY <1>4 DEF PutStored, PutFails, Surface, PublishRowFails, Crash, Merge, ledgerVars
<1>5. ASSUME Journal \/ JournalFails PROVE Goal
    BY <1>5 DEF Journal, JournalFails, RecordAllocation, TypeOK, StateFile
<1>6. ASSUME ReserveAdds PROVE Goal
    <2>1. /\ mem \in StateFile /\ phase = "reserve" /\ target = NoSlot
          /\ mem' = [mem EXCEPT !.keys = L!ReserveAdds(@, OpsOf(ops))]
        BY <1>6 DEF ReserveAdds, TypeOK, RunShape
    <2>2. mem'.keys = L!ReserveAdds(mem.keys, OpsOf(ops))
        BY <2>1 DEF StateFile
    <2>3. L!KeysOf(OpsOf(ops), {"Add"}) \subseteq declared
        BY OpsKeys DEF ActOf
    <2> QED
        BY <2>1, <2>2, <2>3 DEF Known, L!ReserveAdds, StateFile, L!LedgerType
<1>7. ASSUME Record PROVE Goal
    <2>1. PICK adopted \in SUBSET Adoptable :
             mem' = [mem EXCEPT
                 !.keys = L!RecordOps(@, OpsOf(landed) \cup
                                         {[key |-> s, act |-> "Modify"] : s \in adopted}, declared),
                 !.count = shardCount,
                 !.applied = IF failed' \/ blocked # {} THEN @ ELSE made]
        BY <1>7 DEF Record
    <2> DEFINE recorded == OpsOf(landed) \cup {[key |-> s, act |-> "Modify"] : s \in adopted}
    <2>2. mem \in StateFile /\ phase = "push" /\ target = NoSlot
        BY <1>7 DEF Record, TypeOK, RunShape
    <2>3. mem'.keys = L!RecordOps(mem.keys, recorded, declared)
        BY <2>1, <2>2 DEF StateFile
    <2> HIDE DEF recorded
    <2> QED
        BY <2>2, <2>3 DEF Known, L!RecordOps
<1>8. ASSUME PublishRow PROVE Goal
    BY <1>8 DEF PublishRow, TypeOK, StateFile
<1>9. ASSUME EndRun \/ LoseRun PROVE Goal
    BY <1>9 DEF EndRun, LoseRun, Reset
<1>10. ASSUME NEW mode \in Modes, BeginApply(mode) PROVE Goal
    BY <1>10 DEF BeginApply, Load, TypeOK, StateFile, Known, L!ReconcilePending,
                 L!ReconcileAbsent, L!LedgerType
<1>11. ASSUME NEW s \in Slot, BeginRotate(s) PROVE Goal
    BY <1>11 DEF BeginRotate, Load
<1> HIDE DEF Goal
<1>12. Goal
    BY <1>1, <1>2, <1>3, <1>4, <1>5, <1>6, <1>7, <1>8, <1>9, <1>10, <1>11, Zenon
    DEF Next, RunStep
<1> QED
    BY <1>12 DEF Goal

(* What begins and ends, and what a run that goes on keeps.                *)
LEMMA TargetMoves ==
    ASSUME TypeOK, [Next]_vars
    PROVE  /\ phase # "idle" /\ phase' # "idle" => target' = target /\ declared' = declared
           /\ phase # "idle" /\ phase' = "idle" => EndRun \/ LoseRun
           /\ phase = "idle" /\ phase' # "idle" =>
                 \/ \E mode \in Modes : BeginApply(mode)
                 \/ \E s \in Slot : BeginRotate(s)
<1> USE BrokerAssumption
<1> DEFINE Goal ==
           /\ phase # "idle" /\ phase' # "idle" => target' = target /\ declared' = declared
           /\ phase # "idle" /\ phase' = "idle" => EndRun \/ LoseRun
           /\ phase = "idle" /\ phase' # "idle" =>
                 \/ \E mode \in Modes : BeginApply(mode)
                 \/ \E s \in Slot : BeginRotate(s)
<1>1. ASSUME UNCHANGED vars PROVE Goal
    BY <1>1 DEF vars, repoVars
<1>2. ASSUME NEW s \in Slot, PlanSlot(s) \/ PushOp(s) \/ PushOpFails(s) PROVE Goal
    BY <1>2 DEF PlanSlot, PushOp, PushOpFails, repoVars
<1>3. ASSUME NEW s \in Slot, AdminEdit(s) \/ Retire(s) PROVE Goal
    BY <1>3 DEF AdminEdit, Retire, repoVars
<1>4. ASSUME PutStored \/ PutFails \/ Surface \/ PublishRow \/ PublishRowFails \/ Crash \/ Merge
      PROVE  Goal
    BY <1>4 DEF PutStored, PutFails, Surface, PublishRow, PublishRowFails, Crash, Merge, repoVars
<1>5. ASSUME Journal \/ JournalFails \/ ReserveAdds \/ Record PROVE Goal
    BY <1>5 DEF Journal, JournalFails, ReserveAdds, Record, repoVars
<1>6. ASSUME EndRun \/ LoseRun PROVE Goal
    BY <1>6 DEF EndRun, LoseRun, Reset
<1>7. ASSUME NEW mode \in Modes, BeginApply(mode) PROVE Goal
    BY <1>7 DEF BeginApply, Load
<1>8. ASSUME NEW s \in Slot, BeginRotate(s) PROVE Goal
    BY <1>8 DEF BeginRotate, Load
<1> HIDE DEF Goal
<1>9. Goal
    BY <1>1, <1>2, <1>3, <1>4, <1>5, <1>6, <1>7, <1>8, Zenon DEF Next, RunStep
<1> QED
    BY <1>9 DEF Goal

LEMMA LetGoStep ==
    ASSUME BrokerInv, TypeOK', RunShape', HistoryInv, Unique', Settled', [Next]_vars
    PROVE  LetGo'
<1> USE ShardsAssumption, BrokerAssumption
<1> SUFFICES ASSUME NEW s \in Slot
             PROVE  /\ fresh'[s] \notin retired'
                    /\ Kin(s)' \cap retired' # {} =>
                          Unvouched(committed, s)' /\ Unvouched(disk, s)' /\ Unvouched(mem, s)'
                    /\ phase' # "idle" /\ target' = NoSlot /\ s \in declared' =>
                          Kin(s)' \cap retired' = {}
    BY DEF LetGo
<1>0. /\ TypeOK /\ RunShape /\ Placed
      /\ Unique /\ Settled /\ Ordered /\ LetGo
    BY DEF BrokerInv, HistoryInv
<1>1. phase' # "idle" => retired' \subseteq retired
    BY <1>0, RetiredStep
<1>2. fresh'[s] \notin retired'
    <2>1. CASE phase' = "idle"
        <3>1. fresh'[s] = NoValue
            BY <2>1 DEF Settled
        <3>2. retired' \subseteq 1 .. made'
            BY DEF Unique
        <3> QED
            BY <3>1, <3>2 DEF NoValue
    <2>2. CASE phase' # "idle"
        <3>1. fresh'[s] \in {fresh[s], NoValue, made + 1}
            BY <1>0, FreshStep DEF TypeOK
        <3>2. retired \subseteq 1 .. made /\ made \in Nat /\ fresh[s] \notin retired
            BY <1>0 DEF Unique, LetGo, TypeOK
        <3>3. NoValue \notin retired /\ made + 1 \notin retired
            BY <3>2 DEF NoValue
        <3> QED
            BY <1>1, <2>2, <3>1, <3>2, <3>3
    <2> QED
        BY <2>1, <2>2
<1>3. ASSUME NEW v \in Kin(s)', v \in retired
      PROVE  /\ v \in Kin(s)
             /\ Unvouched(committed, s) /\ Unvouched(disk, s) /\ Unvouched(mem, s)
             /\ phase # "idle" /\ target = NoSlot => s \notin declared
    <2>1. v \in Kin(s)
        BY <1>0, <1>3, KinStep DEF LetGo
    <2> QED
        BY <1>0, <1>3, <2>1 DEF LetGo
<1>4. ASSUME NEW v \in Kin(s)', v \in retired' \ retired
      PROVE  Unvouched(committed, s)' /\ Unvouched(disk, s)' /\ Unvouched(mem, s)'
    <2>1. PICK t \in Slot \ (declared' \cup Known(committed')) : phase' = "idle" /\ v \in Kin(t)
        BY <1>0, <1>4, RetiredStep
    <2>2. v \in Own(s) /\ v \in Own(t)
        <3>1. v \in Kin(s) \cup {fresh[s]} /\ v # NoValue
            BY <1>0, <1>4, KinStep DEF Kin
        <3> QED
            BY <2>1, <3>1 DEF Own
    <2>3. s = t
        BY <1>0, <2>2 DEF Unique
    <2>4. disk' = committed' /\ mem' = NewState
        BY <2>1 DEF Settled
    <2>5. Known(NewState) = {}
        BY DEF Known, NewState, L!EmptyLedger
    <2> QED
        BY <2>1, <2>3, <2>4, <2>5 DEF Unvouched
<1> DEFINE Loose(l) == s \notin Known(l) /\ (s \in declared' => l.meta[s].revision # revision')
<1>5. ASSUME NEW v \in Kin(s)', v \in retired
      PROVE  Loose(committed) /\ Loose(disk) /\ Loose(mem)
    <2>1. CASE UNCHANGED repoVars
        BY <1>3, <1>5, <2>1 DEF Unvouched, repoVars
    <2>2. CASE Merge
        <3>1. /\ revision' = revision + 1 /\ revision \in Nat
            BY <1>0, <2>2 DEF Merge, TypeOK
        <3>2. /\ committed.meta[s].revision \in Nat /\ committed.meta[s].revision <= revision
              /\ disk.meta[s].revision \in Nat /\ disk.meta[s].revision <= revision
              /\ mem.meta[s].revision \in Nat /\ mem.meta[s].revision <= revision
            BY <1>0 DEF Ordered, Dated, TypeOK, StateFile, Metadata
        <3>3. /\ committed.meta[s].revision # revision' /\ disk.meta[s].revision # revision'
              /\ mem.meta[s].revision # revision'
            BY <3>1, <3>2
        <3> QED
            BY <1>3, <1>5, <3>3 DEF Unvouched
    <2> QED
        BY <2>1, <2>2, HistoryMoves
<1>6. ASSUME NEW v \in Kin(s)', v \in retired
      PROVE  s \notin Known(mem')
    <2>1. Known(NewState) = {}
        BY DEF Known, NewState, L!EmptyLedger
    <2>2. /\ s \notin Known(committed) /\ s \notin Known(mem)
          /\ phase # "idle" /\ target = NoSlot => s \notin declared
        BY <1>3, <1>6 DEF Unvouched
    <2>3. CASE mem'.keys = mem.keys
        BY <2>2, <2>3 DEF Known
    <2> QED
        BY <1>0, <2>1, <2>2, <2>3, KnownMoves
<1>7. ASSUME NEW v \in Kin(s)', v \in retired, s \in declared'
      PROVE  mem'.meta[s].revision # revision'
    <2>1. revision' \in Nat /\ revision' # 0
        BY DEF TypeOK
    <2>2. Loose(committed) /\ Loose(mem)
        BY <1>5, <1>7
    <2>3. CASE mem' = NewState
        BY <2>1, <2>3 DEF NewState, NoMetadata
    <2>4. CASE mem' = mem \/ mem'.meta = committed.meta \/ mem'.meta = mem.meta
        BY <1>7, <2>2, <2>4
    <2>5. CASE /\ Journal \/ JournalFails
               /\ \A q \in Slot : mem'.meta[q] = IF q \in out THEN Entry(q) ELSE mem.meta[q]
        <3>1. phase = "journal" /\ target = NoSlot /\ declared' = declared
            BY <1>0, <2>5 DEF Journal, JournalFails, RunShape, repoVars
        <3> QED
            BY <1>3, <1>7, <3>1
    <2>6. CASE \A q \in Slot : mem'.meta[q] = IF q = target THEN RotationRecord ELSE mem.meta[q]
        <3>1. RotationRecord.revision = 0
            BY DEF RotationRecord, NoMetadata
        <3> QED
            BY <1>7, <2>1, <2>2, <2>6, <3>1
    <2> HIDE DEF Loose
    <2> QED
        BY <1>0, <2>3, <2>4, <2>5, <2>6, LedgerMoves
<1>8. ASSUME NEW v \in Kin(s)', v \in retired
      PROVE  Loose(committed') /\ Loose(disk') /\ Loose(mem')
    <2>1. Loose(mem')
        BY <1>6, <1>7, <1>8
    <2>2. Loose(committed) /\ Loose(disk)
        BY <1>5, <1>8
    <2>3. committed' = committed \/ committed' = disk
        BY HistoryMoves DEF EndRun
    <2>4. disk' \in {disk, mem', committed}
        BY <1>0, LedgerMoves
    <2> HIDE DEF Loose
    <2> QED
        BY <2>1, <2>2, <2>3, <2>4
<1>9. Kin(s)' \cap retired' # {} =>
          Unvouched(committed, s)' /\ Unvouched(disk, s)' /\ Unvouched(mem, s)'
    BY <1>4, <1>8 DEF Unvouched
<1>10. ASSUME phase' # "idle", target' = NoSlot, s \in declared', NEW v \in Kin(s)', v \in retired'
       PROVE  FALSE
    <2>1. v \in retired /\ v \in Kin(s) /\ Unvouched(committed, s)
        BY <1>1, <1>3, <1>10
    <2>2. CASE phase # "idle"
        BY <1>0, <1>3, <1>10, <2>1, <2>2, TargetMoves
    <2>3. ASSUME NEW q \in Slot, BeginRotate(q) PROVE FALSE
        BY <1>10, <2>3 DEF BeginRotate
    <2>4. ASSUME NEW mode \in Modes, BeginApply(mode) PROVE FALSE
        <3>1. /\ phase = "idle" /\ declared' = declared
              /\ Refused(committed, mode) = {}
              /\ retired' = IF mode = "remap" THEN retired \ {Merged(secrets, q) : q \in declared}
                            ELSE retired
            BY <2>4 DEF BeginApply, Load, repoVars
        <3>2. PICK sh \in Shard : v = secrets[sh][s] /\ v # NoValue
            BY <1>0, <2>1, <3>1 DEF Settled, Kin, Empty
        <3>3. Merged(secrets, s) = v
            BY <1>0, <3>2, SoleHolder DEF Placed, TypeOK
        <3>4. mode # "remap"
            BY <1>10, <3>1, <3>3
        <3>5. s \notin Revived(committed)
            BY <3>1, <3>4 DEF Refused
        <3>6. PendingAllocation(committed, s)
            BY <1>10, <2>1, <3>1, <3>2, <3>3, <3>5 DEF Revived, Unvouched
        <3> QED
            BY <1>10, <2>1, <3>1, <3>6 DEF PendingAllocation, Unvouched
    <2> QED
        BY <1>0, <1>10, <2>2, <2>3, <2>4, TargetMoves
<1> QED
    BY <1>2, <1>9, <1>10

-----------------------------------------------------------------------------
(* A PUT leaves the slots of its shard their fresh value and the others    *)
(* what they had.                                                          *)
LEMMA PutStep ==
    ASSUME TypeOK, RunShape, Placed, PutStored \/ PutFails, NEW s \in Slot
    PROVE  /\ plan[s] # Min(Unsent) => Kin(s)' \subseteq Kin(s)
           /\ PutStored /\ plan[s] = Min(Unsent) => Kin(s)' \subseteq {fresh[s]}
<1> USE ShardsAssumption
<1> DEFINE sh == Min(Unsent)
<1>1. sh \in Shard
    BY NextShard DEF PutStored, PutFails
<1>2. /\ secrets' \in {secrets, [secrets EXCEPT ![sh] = Body(sh)]}
      /\ shards' \in {shards, [shards EXCEPT ![sh] = Body(sh)]}
      /\ PutStored => /\ secrets' = [secrets EXCEPT ![sh] = Body(sh)]
                      /\ shards' = [shards EXCEPT ![sh] = Body(sh)]
      /\ phase = "put"
    BY DEF PutStored, PutFails
<1> HIDE DEF sh
<1>3. secrets \in Bundles /\ shards \in Bundles
    BY DEF TypeOK
<1>4. CASE plan[s] # sh
    <2>1. Body(sh)[s] = shards[sh][s]
        BY <1>1, <1>4, BodySlots
    <2>2. \A x \in Shard : /\ secrets'[x][s] \in {secrets[x][s], shards[sh][s]}
                           /\ shards'[x][s] = shards[x][s]
        BY <1>1, <1>2, <1>3, <2>1 DEF Bundles
    <2>3. Kin(s)' \subseteq Kin(s)
        BY <1>1, <2>2 DEF Kin
    <2> QED
        BY <1>4, <2>3 DEF sh
<1>5. CASE plan[s] = sh
    <2>1. Body(sh)[s] = fresh[s]
        BY <1>1, <1>5, BodySlots
    <2>2. \A x \in Shard : x # sh => secrets[x][s] = NoValue /\ shards[x][s] = NoValue
        BY <1>1, <1>2, <1>5 DEF Placed, Holders, Shard, NoShard
    <2>3. PutStored => \A x \in Shard : /\ secrets'[x][s] \in {NoValue, fresh[s]}
                                        /\ shards'[x][s] \in {NoValue, fresh[s]}
        BY <1>1, <1>2, <1>3, <2>1, <2>2 DEF Bundles
    <2>4. PutStored => Kin(s)' \subseteq {fresh[s]}
        BY <2>3 DEF Kin
    <2> QED
        BY <1>5, <2>4 DEF sh
<1> QED
    BY <1>4, <1>5

(* A run that still allocates after a step did so before, and the step is  *)
(* of the plan or keeps it.                                                *)
LEMMA BatchMoves ==
    ASSUME [Next]_vars, phase' \in {"plan", "put"}, phase # "idle"
    PROVE  /\ phase \in {"plan", "put"}
           /\ ops' = ops
           /\ \/ \E s \in Slot : PlanSlot(s)
              \/ todo' = todo /\ plan' = plan /\ fresh' = fresh
           /\ ~PutFails
<1> DEFINE Goal ==
           /\ phase \in {"plan", "put"}
           /\ ops' = ops
           /\ \/ \E s \in Slot : PlanSlot(s)
              \/ todo' = todo /\ plan' = plan /\ fresh' = fresh
           /\ ~PutFails
<1>1. ASSUME UNCHANGED vars PROVE Goal
    BY <1>1 DEF vars, planVars, pushVars, PutFails
<1>2. ASSUME NEW s \in Slot, PlanSlot(s) PROVE Goal
    BY <1>2 DEF PlanSlot, pushVars, PutFails
<1>3. ASSUME NEW s \in Slot, AdminEdit(s) \/ Retire(s) PROVE Goal
    BY <1>3 DEF AdminEdit, Retire, planVars, pushVars, PutFails
<1>4. ASSUME PutStored PROVE Goal
    BY <1>4 DEF PutStored, planVars, pushVars, PutFails
<1>5. ASSUME NEW s \in Slot, PushOp(s) \/ PushOpFails(s) PROVE FALSE
    BY <1>5 DEF PushOp, PushOpFails
<1>6. ASSUME PutFails \/ Journal \/ JournalFails \/ Surface \/ ReserveAdds \/ Record PROVE FALSE
    BY <1>6 DEF PutFails, Journal, JournalFails, Surface, ReserveAdds, Record
<1>7. ASSUME PublishRow \/ PublishRowFails \/ Crash \/ Merge \/ EndRun \/ LoseRun PROVE FALSE
    BY <1>7 DEF PublishRow, PublishRowFails, Crash, Merge, EndRun, LoseRun, Reset
<1>8. ASSUME NEW mode \in Modes, BeginApply(mode) PROVE FALSE
    BY <1>8 DEF BeginApply, Load
<1>9. ASSUME NEW s \in Slot, BeginRotate(s) PROVE FALSE
    BY <1>9 DEF BeginRotate, Load
<1> HIDE DEF Goal
<1>10. Goal
    BY <1>1, <1>2, <1>3, <1>4, <1>5, <1>6, <1>7, <1>8, <1>9, Zenon DEF Next, RunStep
<1> QED
    BY <1>10 DEF Goal

LEMMA ReplacedStep ==
    ASSUME BrokerInv, HistoryInv, [Next]_vars
    PROVE  Replaced'
<1> USE ShardsAssumption, BrokerAssumption
<1> SUFFICES ASSUME NEW s \in Slot
             PROVE  /\ s \in out' => Old(s)' = {}
                    /\ fresh'[s] \in Kin(s)' /\ s \notin out' =>
                          fresh'[s] \in untracked' /\ phase' \notin {"idle", "plan", "put"}
                    /\ target' = NoSlot /\ phase' \in {"plan", "put"}
                       /\ (s \in todo' \/ plan'[s] # NoShard) => Old(s)' = {} /\ s \in ops'
    BY DEF Replaced
<1>0. /\ TypeOK /\ RunShape /\ Placed
      /\ Unique /\ Settled /\ Replaced
    BY DEF BrokerInv, HistoryInv
<1>1. Kin(s)' \subseteq Kin(s) \cup {fresh[s]}
    BY <1>0, KinStep
<1>2. \A v \in Kin(s) : v \in 1 .. made
    BY <1>0 DEF Unique, Own, Kin
<1>3. ASSUME NEW q \in Slot, PlanSlot(q)
      PROVE  /\ out = {} /\ out' = {} /\ phase = "plan"
             /\ Kin(s)' = Kin(s) /\ fresh[s] \notin Kin(s)
             /\ fresh'[s] = (IF s = q THEN made + 1 ELSE fresh[s])
             /\ fresh'[s] \notin Kin(s)
             /\ todo' \subseteq todo /\ q \in todo
             /\ \E sh : plan' = [plan EXCEPT ![q] = sh]
    <2>1. /\ out = {} /\ out' = {} /\ phase = "plan" /\ UNCHANGED <<secrets, shards>>
          /\ fresh' = [fresh EXCEPT ![q] = made + 1]
          /\ todo' \subseteq todo /\ q \in todo
          /\ \E sh : plan' = [plan EXCEPT ![q] = sh]
        BY <1>0, <1>3 DEF PlanSlot, RunShape
    <2>2. Kin(s)' = Kin(s)
        BY <2>1 DEF Kin
    <2>3. fresh[s] \notin Kin(s)
        BY <1>0, <2>1 DEF Replaced
    <2>4. fresh'[s] = IF s = q THEN made + 1 ELSE fresh[s]
        BY <1>0, <2>1 DEF TypeOK
    <2>5. made + 1 \notin Kin(s)
        BY <1>0, <1>2 DEF TypeOK
    <2> QED
        BY <2>1, <2>2, <2>3, <2>4, <2>5
<1>4. (EndRun \/ LoseRun) => /\ fresh' = [q \in Slot |-> NoValue]
                             /\ out' = {} /\ phase' = "idle"
    BY DEF EndRun, LoseRun, Reset
<1>5. \/ EndRun \/ LoseRun
      \/ \E q \in Slot : PlanSlot(q)
      \/ fresh' = fresh /\ out \subseteq out'
    <2>1. PutStored => out \subseteq out'
        BY DEF PutStored
    <2> QED
        BY <1>0, <2>1, FreshStep, HistoryMoves
<1>6. ASSUME s \in out' PROVE Old(s)' = {}
    <2>1. fresh' = fresh
        BY <1>3, <1>4, <1>5, <1>6
    <2>2. CASE s \in out
        BY <1>0, <1>1, <2>1, <2>2 DEF Old, Replaced
    <2>3. CASE PutStored /\ plan[s] = Min(Unsent)
        BY <1>0, <2>1, <2>3, PutStep DEF Old
    <2>4. PutStored => s \in out \/ plan[s] = Min(Unsent)
        BY <1>6 DEF PutStored, Batch
    <2> QED
        BY <1>4, <1>6, <2>2, <2>3, <2>4, HistoryMoves
<1>7. ASSUME fresh'[s] \in Kin(s)', s \notin out'
      PROVE  fresh'[s] \in untracked' /\ phase' \notin {"idle", "plan", "put"}
    <2>1. NoValue \notin Kin(s)'
        BY DEF Kin
    <2>2. fresh' = fresh /\ out \subseteq out' /\ ~EndRun /\ ~LoseRun
        BY <1>3, <1>4, <1>5, <1>7, <2>1
    <2>3. CASE fresh[s] \in Kin(s)
        <3>1. fresh[s] \in untracked /\ phase \notin {"idle", "plan", "put"}
            BY <1>0, <1>7, <2>2, <2>3 DEF Replaced
        <3>2. untracked \subseteq untracked'
            BY <2>2, HistoryMoves DEF PutFails, JournalFails, Crash
        <3>3. phase' \notin {"plan", "put"}
            BY <3>1, BatchMoves
        <3>4. phase' # "idle"
            <4>1. phase # "idle" /\ phase' = "idle" => EndRun \/ LoseRun
                BY <1>0, TargetMoves
            <4> QED
                BY <2>2, <3>1, <4>1
        <3> QED
            BY <2>2, <3>1, <3>2, <3>3, <3>4
    <2>4. CASE fresh[s] \notin Kin(s)
        <3>1. (PutStored \/ PutFails) /\ plan[s] = Min(Unsent)
            BY <1>0, <1>7, <2>2, <2>4, KinStep, PutStep
        <3>2. ~PutStored
            BY <1>7, <3>1 DEF PutStored, Batch
        <3>3. PutFails
            BY <3>1, <3>2
        <3>4. ~UNCHANGED secrets
            <4>1. PutFails => shards' = shards
                BY DEF PutFails
            <4> QED
                BY <1>7, <2>2, <2>4, <3>3, <4>1 DEF Kin
        <3>5. fresh[s] \in untracked'
            BY <3>1, <3>3, <3>4 DEF PutFails, Batch
        <3>6. phase' \in {"journal", "ended"}
            BY <3>3 DEF PutFails
        <3> QED
            BY <2>2, <3>5, <3>6
    <2> QED
        BY <2>3, <2>4
<1>8. ASSUME target' = NoSlot, phase' \in {"plan", "put"}, s \in todo' \/ plan'[s] # NoShard
      PROVE  Old(s)' = {} /\ s \in ops'
    <2>1. CASE phase = "idle"
        <3>1. ASSUME NEW q \in Slot, BeginRotate(q) PROVE FALSE
            BY <1>8, <3>1 DEF BeginRotate
        <3>2. ASSUME NEW mode \in Modes, BeginApply(mode) PROVE Old(s)' = {} /\ s \in ops'
            <4>1. /\ shards' = secrets /\ secrets' = secrets /\ plan' = plan
                  /\ todo' = {q \in declared \cap (Slot \ blocked') : Merged(secrets, q) = NoValue}
                  /\ \A q \in Slot \ blocked' : q \in declared /\ row[q] # Merged(secrets, q) => q \in ops'
                BY <3>2 DEF BeginApply, Load
            <4>2. s \in todo'
                BY <1>0, <1>8, <2>1, <4>1 DEF RunShape
            <4>3. Merged(secrets, s) = NoValue /\ s \in declared /\ s \notin blocked'
                BY <4>1, <4>2
            <4>4. \A sh \in Shard : secrets[sh][s] = NoValue
                BY <1>0, <4>3, NoHolder DEF TypeOK
            <4>5. row[s] # NoValue
                BY <1>0 DEF TypeOK, Value, NoValue
            <4> QED
                BY <4>1, <4>3, <4>4, <4>5 DEF Old, Kin
        <3> QED
            BY <1>0, <1>8, <2>1, <3>1, <3>2, TargetMoves
    <2>2. CASE phase # "idle"
        <3>1. /\ phase \in {"plan", "put"} /\ ops' = ops
              /\ \/ \E q \in Slot : PlanSlot(q)
                 \/ todo' = todo /\ plan' = plan /\ fresh' = fresh
              /\ ~PutFails
            BY <1>8, <2>2, BatchMoves
        <3>2. target = NoSlot
            BY <1>0, <1>8, <2>2, TargetMoves
        <3>3. CASE \E q \in Slot : PlanSlot(q)
            <4>1. PICK q \in Slot : PlanSlot(q)
                BY <3>3
            <4>2. s \in todo \/ plan[s] # NoShard
                BY <1>0, <1>3, <1>8, <4>1 DEF TypeOK
            <4>3. Old(s) = {} /\ s \in ops
                BY <1>0, <3>1, <3>2, <4>2 DEF Replaced
            <4>4. Kin(s)' = {}
                BY <1>3, <4>1, <4>3 DEF Old
            <4> QED
                BY <3>1, <4>3, <4>4 DEF Old
        <3>4. CASE todo' = todo /\ plan' = plan /\ fresh' = fresh
            <4>1. Old(s) = {} /\ s \in ops
                BY <1>0, <1>8, <3>1, <3>2, <3>4 DEF Replaced
            <4>2. Kin(s)' \subseteq Kin(s) \/ Kin(s)' \subseteq {fresh[s]}
                BY <1>0, <3>1, KinStep, PutStep
            <4> QED
                BY <3>1, <3>4, <4>1, <4>2 DEF Old
        <3> QED
            BY <3>1, <3>3, <3>4
    <2> QED
        BY <2>1, <2>2
<1> QED
    BY <1>6, <1>7, <1>8

-----------------------------------------------------------------------------
LEMMA JournaledStep ==
    ASSUME BrokerInv, HistoryInv, [Next]_vars
    PROVE  Journaled'
<1> USE ShardsAssumption, BrokerAssumption
<1> SUFFICES ASSUME phase' # "idle", NEW s \in Slot
             PROVE  /\ s \notin out' =>
                          mem'.meta[s] = committed'.meta[s] /\ disk'.meta[s] = committed'.meta[s]
                    /\ phase' \in {"plan", "put", "journal"}
                          \/ (target' # NoSlot /\ phase' \in {"surface", "publish"}) =>
                          mem'.meta[s] = committed'.meta[s] /\ disk'.meta[s] = committed'.meta[s]
                    /\ s \in out' /\ target' = NoSlot /\ phase' \in {"surface", "reserve", "push"} =>
                          mem'.meta[s] = Entry(s)'
                    /\ s \in out' /\ target' = NoSlot
                          /\ phase' \in {"surface", "reserve", "push", "ended"} =>
                          disk'.meta[s] = Entry(s)' \/ fresh'[s] \in untracked'
                    /\ s \in out' /\ phase' = "ended" =>
                          disk'.meta[s].at = fresh'[s] \/ fresh'[s] \in untracked' \cup unrecorded'
    BY DEF Journaled
<1> DEFINE Goal ==
                    /\ s \notin out' =>
                          mem'.meta[s] = committed'.meta[s] /\ disk'.meta[s] = committed'.meta[s]
                    /\ phase' \in {"plan", "put", "journal"}
                          \/ (target' # NoSlot /\ phase' \in {"surface", "publish"}) =>
                          mem'.meta[s] = committed'.meta[s] /\ disk'.meta[s] = committed'.meta[s]
                    /\ s \in out' /\ target' = NoSlot /\ phase' \in {"surface", "reserve", "push"} =>
                          mem'.meta[s] = Entry(s)'
                    /\ s \in out' /\ target' = NoSlot
                          /\ phase' \in {"surface", "reserve", "push", "ended"} =>
                          disk'.meta[s] = Entry(s)' \/ fresh'[s] \in untracked'
                    /\ s \in out' /\ phase' = "ended" =>
                          disk'.meta[s].at = fresh'[s] \/ fresh'[s] \in untracked' \cup unrecorded'
<1>0. /\ TypeOK /\ RunShape
      /\ Settled /\ Ordered /\ Journaled
    BY DEF BrokerInv, HistoryInv
<1>1. ASSUME phase = "idle" PROVE Goal
    <2>1. /\ out' = {} /\ committed' = committed /\ phase' \notin {"surface", "publish"}
          /\ disk' = mem' /\ mem'.meta = committed.meta
        <3>1. ASSUME NEW mode \in Modes, BeginApply(mode)
              PROVE  /\ out' = out /\ committed' = committed /\ phase' \notin {"surface", "publish"}
                     /\ disk' = mem' /\ mem'.meta = committed.meta
            BY <1>0, <3>1 DEF BeginApply, Load, TypeOK, StateFile
        <3>2. ASSUME NEW q \in Slot, BeginRotate(q)
              PROVE  /\ out' = out /\ committed' = committed /\ phase' \notin {"surface", "publish"}
                     /\ disk' = mem' /\ mem'.meta = committed.meta
            BY <3>2 DEF BeginRotate, Load
        <3>3. out = {}
            BY <1>0, <1>1 DEF RunShape
        <3> QED
            BY <1>0, <1>1, <3>1, <3>2, <3>3, TargetMoves
    <2> QED
        BY <2>1
<1>2. ASSUME UNCHANGED <<phase, committed, disk, mem, out, fresh, revision, author, target>>,
             untracked \subseteq untracked', unrecorded \subseteq unrecorded'
      PROVE  Goal
    BY <1>0, <1>2 DEF Journaled, Entry
<1>3. ASSUME UNCHANGED vars PROVE Goal
    BY <1>2, <1>3 DEF vars, repoVars, ledgerVars, planVars, historyVars
<1>4. ASSUME NEW q \in Slot, PushOp(q) \/ PushOpFails(q) \/ AdminEdit(q) \/ Retire(q) PROVE Goal
    BY <1>2, <1>4 DEF PushOp, PushOpFails, AdminEdit, Retire, repoVars, ledgerVars, planVars, historyVars
<1>5. ASSUME NEW q \in Slot, PlanSlot(q) PROVE Goal
    <2>1. /\ phase = "plan" /\ out' = {} /\ phase' \notin {"surface", "publish", "journal"}
          /\ UNCHANGED <<committed, disk, mem>>
        BY <1>0, <1>5 DEF PlanSlot, RunShape, ledgerVars
    <2> QED
        BY <1>0, <2>1 DEF Journaled
<1>6. ASSUME PutStored PROVE Goal
    <2>1. /\ phase = "put" /\ UNCHANGED <<committed, disk, mem, target>>
          /\ phase' \in {"put", "journal", "surface"}
          /\ phase' = "surface" => target # NoSlot
        BY <1>6 DEF PutStored, ledgerVars
    <2> QED
        BY <1>0, <2>1 DEF Journaled
<1>7. ASSUME PutFails PROVE Goal
    <2>1. /\ phase = "put" /\ UNCHANGED <<committed, disk, mem, target, out>>
          /\ phase' = IF target = NoSlot THEN "journal" ELSE "ended"
        BY <1>7 DEF PutFails, ledgerVars
    <2>2. target # NoSlot => out = {}
        BY <1>0, <2>1 DEF RunShape, Unsent, TypeOK
    <2> QED
        BY <1>0, <2>1, <2>2 DEF Journaled
<1>8. ASSUME Journal \/ JournalFails PROVE Goal
    <2>1. /\ phase = "journal" /\ phase' = "surface" /\ target = NoSlot
          /\ UNCHANGED <<committed, target, out, fresh, revision, author>>
          /\ \/ disk' = mem'
             \/ disk' = disk /\ untracked' = untracked \cup Allocated
        BY <1>0, <1>8 DEF Journal, JournalFails, RunShape, ledgerVars, planVars, repoVars
    <2>2. mem'.meta[s] = IF s \in out THEN Entry(s) ELSE mem.meta[s]
        <3>1. mem' = RecordAllocation(mem) /\ mem \in StateFile
            BY <1>0, <1>8 DEF Journal, JournalFails, TypeOK
        <3> QED
            BY <3>1 DEF RecordAllocation, Entry, StateFile
    <2>3. Entry(s)' = Entry(s)
        BY <2>1 DEF Entry
    <2>4. s \in out => fresh[s] \in Allocated
        BY DEF Allocated
    <2>5. mem.meta[s] = committed.meta[s] /\ disk.meta[s] = committed.meta[s]
        BY <1>0, <2>1 DEF Journaled
    <2> QED
        BY <2>1, <2>2, <2>3, <2>4, <2>5
<1>9. ASSUME Surface PROVE Goal
    <2>1. /\ phase = "surface"
          /\ phase' = IF failed THEN "ended" ELSE IF target = NoSlot THEN "reserve" ELSE "publish"
          /\ UNCHANGED <<committed, disk, mem, target, out, fresh, revision, author, untracked>>
        BY <1>9 DEF Surface, ledgerVars, planVars, repoVars
    <2>2. target # NoSlot => ~failed
        BY <1>0, <2>1 DEF Settled
    <2>3. Entry(s)' = Entry(s) /\ Entry(s).at = fresh[s]
        BY <2>1 DEF Entry
    <2>4. CASE target = NoSlot
        BY <1>0, <2>1, <2>3, <2>4 DEF Journaled
    <2>5. CASE target # NoSlot
        BY <1>0, <2>1, <2>2, <2>5 DEF Journaled
    <2> QED
        BY <2>4, <2>5
<1>10. ASSUME ReserveAdds \/ Record PROVE Goal
    <2>1. /\ phase \in {"reserve", "push"} /\ phase' \in {"push", "ended"} /\ target = NoSlot
          /\ disk' = mem'
          /\ UNCHANGED <<committed, target, out, fresh, revision, author>>
        BY <1>0, <1>10 DEF ReserveAdds, Record, RunShape, ledgerVars, planVars, repoVars
    <2>2. mem'.meta = mem.meta
        BY <1>0, <2>1, LedgerMoves
        DEF Journal, JournalFails, PublishRow, EndRun, LoseRun, Reset
    <2>3. Entry(s)' = Entry(s) /\ Entry(s).at = fresh[s]
        BY <2>1 DEF Entry
    <2> QED
        BY <1>0, <2>1, <2>2, <2>3 DEF Journaled
<1>11. ASSUME PublishRow \/ PublishRowFails PROVE Goal
    <2>1. /\ phase = "publish" /\ phase' = "ended" /\ target \in out
          /\ UNCHANGED <<committed, target, out, fresh>>
        BY <1>0, <1>11 DEF PublishRow, PublishRowFails, RunShape, ledgerVars, planVars
    <2>2. target # NoSlot /\ target \in Slot /\ (s \in out => s = target)
        BY <1>0, <2>1 DEF RunShape, TypeOK
    <2>3. mem.meta[s] = committed.meta[s] /\ disk.meta[s] = committed.meta[s]
        BY <1>0, <2>1, <2>2 DEF Journaled
    <2>4. CASE PublishRow
        <3>1. disk' = mem' /\ mem'.meta[s] = IF s = target THEN RotationRecord ELSE mem.meta[s]
            <4>1. /\ disk' = mem' /\ mem \in StateFile
                  /\ mem' = [mem EXCEPT !.meta[target] = RotationRecord, !.count = shardCount]
                BY <1>0, <2>4 DEF PublishRow, TypeOK
            <4>2. mem'.meta = [mem.meta EXCEPT ![target] = RotationRecord]
                BY <4>1 DEF StateFile
            <4> QED
                BY <4>1, <4>2 DEF StateFile
        <3>2. RotationRecord.at = fresh[target]
            BY DEF RotationRecord, NoMetadata
        <3> QED
            BY <2>1, <2>2, <2>3, <3>1, <3>2
    <2>5. CASE PublishRowFails
        <3>1. UNCHANGED <<mem, disk>> /\ fresh[target] \in unrecorded'
            BY <2>5 DEF PublishRowFails, ledgerVars
        <3> QED
            BY <2>1, <2>2, <2>3, <3>1
    <2> QED
        BY <1>11, <2>4, <2>5
<1>12. ASSUME Crash PROVE Goal
    <2>1. /\ phase \notin {"idle", "ended"} /\ phase' = "ended"
          /\ untracked' = untracked \cup {fresh[q] : q \in {r \in out : disk.meta[r].at # fresh[r]}}
          /\ UNCHANGED <<committed, disk, mem, target, out, fresh, revision, author>>
        BY <1>12 DEF Crash, ledgerVars, planVars, repoVars
    <2>2. Entry(s)' = Entry(s)
        BY <2>1 DEF Entry
    <2>3. s \in out => disk.meta[s].at = fresh[s] \/ fresh[s] \in untracked'
        BY <2>1
    <2>4. ASSUME s \in out, target = NoSlot
          PROVE  disk.meta[s] = Entry(s) \/ fresh[s] \in untracked'
        <3>1. CASE phase \in {"surface", "reserve", "push"}
            BY <1>0, <2>1, <2>4, <3>1 DEF Journaled
        <3>2. CASE phase \in {"plan", "put", "journal"}
            <4>1. fresh[s] \in Value /\ disk.meta[s] = committed.meta[s]
                BY <1>0, <2>4, <3>2 DEF Journaled, RunShape
            <4>2. committed.meta[s].at < fresh[s]
                BY <1>0, <4>1 DEF Ordered, Value, NoValue
            <4>3. committed.meta[s].at \in Nat /\ fresh[s] \in Nat
                <5>1. committed \in StateFile
                    BY <1>0 DEF TypeOK
                <5>2. committed.meta[s].at \in Value \cup {NoValue}
                    BY <5>1 DEF StateFile, Metadata
                <5> QED
                    BY <4>1, <5>2 DEF Value, NoValue
            <4> QED
                BY <2>3, <2>4, <4>1, <4>2, <4>3
        <3> QED
            BY <1>0, <2>1, <2>4, <3>1, <3>2 DEF RunShape, TypeOK
    <2>5. s \notin out => mem.meta[s] = committed.meta[s] /\ disk.meta[s] = committed.meta[s]
        BY <1>0, <2>1 DEF Journaled
    <2> QED
        BY <2>1, <2>2, <2>3, <2>4, <2>5
<1>13. ASSUME Merge \/ EndRun \/ LoseRun PROVE phase = "idle" \/ phase' = "idle"
    BY <1>13 DEF Merge, EndRun, LoseRun, Reset
<1>14. ASSUME NEW mode \in Modes, BeginApply(mode) PROVE phase = "idle"
    BY <1>14 DEF BeginApply, Load
<1>15. ASSUME NEW q \in Slot, BeginRotate(q) PROVE phase = "idle"
    BY <1>15 DEF BeginRotate, Load
<1> HIDE DEF Goal
<1>16. Goal
    BY <1>1, <1>3, <1>4, <1>5, <1>6, <1>7, <1>8, <1>9, <1>10, <1>11, <1>12, <1>13, <1>14,
       <1>15, Zenon
    DEF Next, RunStep
<1> QED
    BY <1>16 DEF Goal

-----------------------------------------------------------------------------
(* The values of a slot after a step, short of the end of a run, are those *)
(* it had and its fresh one.                                               *)
LEMMA OldStep ==
    ASSUME BrokerInv, HistoryInv, [Next]_vars, ~EndRun, ~LoseRun, NEW s \in Slot
    PROVE  Old(s)' \subseteq Old(s)
<1>0. TypeOK /\ RunShape /\ Unique /\ Replaced
    BY DEF BrokerInv, HistoryInv
<1>1. Kin(s)' \subseteq Kin(s) \cup {fresh[s]}
    BY <1>0, KinStep
<1>2. CASE fresh' = fresh
    BY <1>1, <1>2 DEF Old
<1>3. ASSUME NEW q \in Slot, PlanSlot(q), fresh' = [fresh EXCEPT ![q] = made + 1]
      PROVE  Old(s)' \subseteq Old(s)
    <2>1. phase = "plan" /\ out = {} /\ UNCHANGED <<secrets, shards>>
        BY <1>0, <1>3 DEF PlanSlot, RunShape
    <2>2. Kin(s)' = Kin(s) /\ fresh[s] \notin Kin(s)
        BY <1>0, <2>1 DEF Kin, Replaced
    <2> QED
        BY <2>2 DEF Old
<1> QED
    BY <1>0, <1>2, <1>3, FreshStep

LEMMA TrackedStep ==
    ASSUME BrokerInv, HistoryInv, [Next]_vars
    PROVE  Tracked'
<1> USE ShardsAssumption, BrokerAssumption
<1> SUFFICES ASSUME NEW s \in Slot, NEW v \in Old(s)'
             PROVE  /\ committed'.meta[s].at = v \/ v \in untracked' \cup unrecorded'
                    /\ s \in declared' /\ author' # Nobody /\ born'[v] = revision' /\ v \notin untracked' =>
                          Vouched(committed, s, v)'
    BY DEF Tracked, Vouched, Known
<1>0. /\ TypeOK /\ RunShape
      /\ Unique /\ Settled /\ Ordered /\ Replaced /\ Journaled /\ Tracked /\ Owned
    BY DEF BrokerInv, HistoryInv
<1>1. v \in Kin(s)' /\ v # fresh'[s] /\ v \in Kin(s) \cup {fresh[s]}
    BY <1>0, KinStep DEF Old
<1>2. v \in 1 .. made
    BY <1>0, <1>1 DEF Unique, Own, Kin
<1>3. CASE ~EndRun /\ ~LoseRun
    <2>1. v \in Old(s)
        BY <1>3, OldStep
    <2>2. committed' = committed /\ untracked \subseteq untracked' /\ unrecorded \subseteq unrecorded'
        BY <1>3, HistoryMoves DEF PutFails, JournalFails, Crash, PublishRowFails
    <2>3. born'[v] = born[v]
        <3>1. v # made + 1
            BY <1>0, <1>2 DEF TypeOK
        <3>2. \A q : born' = [born EXCEPT ![q] = revision] => born'[v] = IF v = q THEN revision ELSE born[v]
            <4>1. v \in Value
                BY <1>0, <1>2 DEF TypeOK, Value
            <4> QED
                BY <1>0, <4>1 DEF TypeOK
        <3> QED
            BY <1>0, <3>1, <3>2, FreshStep
    <2>4. CASE UNCHANGED repoVars
        BY <1>0, <2>1, <2>2, <2>3, <2>4 DEF Tracked, Vouched, Known, repoVars
    <2>5. CASE Merge
        <3>1. revision' = revision + 1 /\ revision \in Nat /\ born[v] <= revision /\ born[v] \in Nat
            BY <1>0, <1>2, <2>5 DEF Merge, Ordered, TypeOK, Value
        <3>2. born'[v] # revision'
            BY <2>3, <3>1
        <3> QED
            BY <1>0, <2>1, <2>2, <3>2 DEF Tracked
    <2> QED
        BY <2>4, <2>5, HistoryMoves
<1>4. CASE EndRun \/ LoseRun
    <2>1. /\ phase = "ended" /\ secrets' = secrets
          /\ UNCHANGED <<declared, revision, author, born, unrecorded>>
          /\ EndRun => committed' = disk /\ untracked' = untracked
          /\ LoseRun => committed' = committed /\ untracked' = untracked \cup Allocated
        BY <1>4 DEF EndRun, LoseRun, Reset, repoVars
    <2>2. v \in Kin(s)
        BY <1>0, <1>1, <1>4, KinStep, <2>1 DEF PutStored, PutFails
    <2>3. v = fresh[s] /\ s \notin out => v \in untracked
        BY <1>0, <2>2 DEF Replaced
    <2>4. CASE LoseRun
        <3>1. v = fresh[s] /\ s \in out => v \in Allocated
            BY DEF Allocated
        <3>2. v # fresh[s] => v \in Old(s)
            BY <2>2 DEF Old
        <3> QED
            BY <1>0, <2>1, <2>3, <2>4, <3>1, <3>2 DEF Tracked, Vouched, Known
    <2>5. CASE EndRun
        <3>1. Keeps(disk)
            BY <1>0, <2>1 DEF Owned
        <3>2. CASE v # fresh[s]
            <4>1. v \in Old(s) /\ s \notin out
                BY <1>0, <2>2, <3>2 DEF Old, Replaced
            <4>2. disk.meta[s] = committed.meta[s]
                BY <1>0, <2>1, <4>1 DEF Journaled
            <4>3. s \in declared /\ Vouched(committed, s, v) => Vouched(disk, s, v)
                BY <3>1, <4>2 DEF Keeps, Vouched
            <4>4. /\ committed.meta[s].at = v \/ v \in untracked \cup unrecorded
                  /\ s \in declared /\ author # Nobody /\ born[v] = revision /\ v \notin untracked =>
                        Vouched(committed, s, v)
                BY <1>0, <4>1 DEF Tracked
            <4>5. Vouched(disk, s, v) => Vouched(committed, s, v)'
                BY <2>1, <2>5 DEF Vouched, Known
            <4> QED
                BY <2>1, <2>5, <4>2, <4>3, <4>4, <4>5
        <3>3. CASE v = fresh[s] /\ s \in out
            <4>1. disk.meta[s].at = v \/ v \in untracked \cup unrecorded
                BY <1>0, <2>1, <3>3 DEF Journaled
            <4>2. ASSUME s \in declared, v \notin untracked
                  PROVE  Vouched(disk, s, v)
                <5>1. CASE target = NoSlot
                    <6>1. disk.meta[s] = Entry(s)
                        BY <1>0, <2>1, <3>3, <4>2, <5>1 DEF Journaled
                    <6>2. committed.applied < v
                        BY <1>0, <1>2, <3>3 DEF Ordered, NoValue
                    <6>3. v > committed.applied
                        BY <1>0, <1>2, <6>2 DEF TypeOK, StateFile, Value, NoValue
                    <6> QED
                        BY <3>1, <3>3, <4>2, <6>1, <6>3 DEF Keeps, Vouched, Entry
                <5>2. CASE target # NoSlot
                    <6>1. s = target
                        BY <1>0, <3>3, <5>2 DEF RunShape
                    <6> QED
                        BY <1>0, <3>1, <5>2, <6>1 DEF Settled, Keeps, Known, Vouched
                <5> QED
                    BY <5>1, <5>2
            <4>3. Vouched(disk, s, v) => Vouched(committed, s, v)'
                BY <2>1, <2>5 DEF Vouched, Known
            <4> QED
                BY <2>1, <2>5, <4>1, <4>2, <4>3
        <3> QED
            BY <2>1, <2>3, <2>5, <3>2, <3>3
    <2> QED
        BY <1>4, <2>4, <2>5
<1> QED
    BY <1>3, <1>4

-----------------------------------------------------------------------------
(* What a run's ledger keeps: no step but a record forgets, and that one   *)
(* forgets nothing declared.                                               *)
LEMMA KeepsRecord ==
    ASSUME BrokerInv, HistoryInv, Record
    PROVE  Keeps(mem')
<1> USE ShardsAssumption, BrokerAssumption
<1>0. /\ TypeOK /\ RunShape /\ Owned
    BY DEF BrokerInv, HistoryInv
<1>1. /\ phase = "push" /\ ops = {} /\ target = NoSlot
      /\ failed' = (failed \/ Withheld # {})
    BY <1>0 DEF Record, RunShape
<1>2. Keeps(mem) /\ mem.applied = committed.applied
    BY <1>0, <1>1 DEF Owned
<1>3. PICK adopted \in (IF failed' THEN SUBSET Adoptable ELSE {Adoptable}) :
             mem' = [mem EXCEPT
                 !.keys = L!RecordOps(@, OpsOf(landed) \cup
                                         {[key |-> s, act |-> "Modify"] : s \in adopted}, declared),
                 !.count = shardCount,
                 !.applied = IF failed' \/ blocked # {} THEN @ ELSE made]
    BY DEF Record
<1> DEFINE recorded == OpsOf(landed) \cup {[key |-> s, act |-> "Modify"] : s \in adopted}
           keys     == L!RecordOps(mem.keys, recorded, declared)
<1>4. mem'.keys = keys /\ mem'.applied = IF failed' \/ blocked # {} THEN mem.applied ELSE made
    BY <1>0, <1>3 DEF TypeOK, StateFile
<1>5. L!KeysOf(recorded, {"Delete"}) \cap declared = {}
    <2>1. \A o \in recorded : o.act \in {"Delete"} => o.key \notin declared
        BY DEF OpsOf, ActOf
    <2> HIDE DEF recorded
    <2> QED
        BY <2>1 DEF L!KeysOf
<1>6. landed \cap declared \subseteq L!KeysOf(recorded, {"Add", "Modify"})
    <2>1. ASSUME NEW s \in landed \cap declared
          PROVE  \E o \in recorded : o.act \in {"Add", "Modify"} /\ o.key = s
        <3>1. [key |-> s, act |-> ActOf(s)] \in recorded
            BY DEF OpsOf
        <3>2. ActOf(s) \in {"Add", "Modify"}
            BY DEF ActOf
        <3> QED
            BY <3>1, <3>2
    <2> HIDE DEF recorded
    <2> QED
        BY <2>1 DEF L!KeysOf
<1>7. adopted \subseteq L!KeysOf(recorded, {"Add", "Modify"})
    <2>1. ASSUME NEW s \in adopted
          PROVE  \E o \in recorded : o.act \in {"Add", "Modify"} /\ o.key = s
        <3>1. [key |-> s, act |-> "Modify"] \in recorded
            OBVIOUS
        <3> QED
            BY <3>1
    <2> HIDE DEF recorded
    <2> QED
        BY <2>1 DEF L!KeysOf
<1>8. Known(mem) \cap declared \subseteq Known(mem')
    <2>1. mem.keys.managed \cap declared \subseteq keys.managed
        BY <1>5 DEF L!RecordOps
    <2>2. mem.keys.pending \cap declared \subseteq keys.managed \cup keys.pending
        BY <1>5 DEF L!RecordOps
    <2> HIDE DEF keys
    <2> QED
        BY <1>4, <2>1, <2>2 DEF Known
<1>9. Known(committed) \cap declared \subseteq Known(mem')
    BY <1>2, <1>8 DEF Keeps
<1>10. ASSUME ~failed', blocked = {} PROVE declared \subseteq Known(mem')
    <2>1. ~failed /\ Withheld = {} /\ adopted = Adoptable
        BY <1>1, <1>3, <1>10
    <2> SUFFICES ASSUME NEW s \in declared PROVE s \in Known(mem')
        OBVIOUS
    <2>2. s \in landed \/ s \in mem.keys.managed \/ (s \in fenced /\ s \notin landed)
        BY <1>10, <2>1 DEF Withheld
    <2>3. s \in landed \cup adopted => s \in keys.managed
        <3> HIDE DEF recorded
        <3> QED
            BY <1>6, <1>7 DEF L!RecordOps
    <2>4. s \in fenced /\ s \notin landed => s \in adopted
        BY <1>0, <1>1, <1>10, <2>1 DEF Owned, Adoptable
    <2>5. s \in mem.keys.managed => s \in Known(mem')
        BY <1>8 DEF Known
    <2> HIDE DEF keys
    <2> QED
        BY <1>4, <2>2, <2>3, <2>4, <2>5 DEF Known
<1> QED
    BY <1>2, <1>4, <1>9, <1>10 DEF Keeps

LEMMA KeepsStep ==
    ASSUME BrokerInv, HistoryInv, [Next]_vars, phase' # "idle"
    PROVE  /\ Keeps(disk)' /\ Keeps(mem)'
           /\ phase' # "ended" => mem'.applied = committed'.applied
<1> USE ShardsAssumption, BrokerAssumption
<1> DEFINE Goal == /\ Keeps(disk') /\ Keeps(mem')
                   /\ phase' # "ended" => mem'.applied = committed.applied
<1>0. TypeOK /\ RunShape /\ Owned
    BY DEF BrokerInv, HistoryInv
<1>1. phase # "idle" =>
         /\ Keeps(disk) /\ Keeps(mem)
         /\ phase # "ended" => mem.applied = committed.applied
    BY <1>0 DEF Owned
<1>2. ASSUME phase # "idle", mem' = mem, disk' = disk, phase = "ended" => phase' = "ended"
      PROVE  Goal
    BY <1>1, <1>2
<1>3. ASSUME UNCHANGED vars PROVE phase # "idle" /\ Goal
    BY <1>2, <1>3 DEF vars, ledgerVars
<1>4. ASSUME NEW q \in Slot, PushOp(q) \/ PushOpFails(q) \/ PlanSlot(q) \/ AdminEdit(q) \/ Retire(q)
      PROVE  phase # "idle" /\ Goal
    BY <1>2, <1>4 DEF PushOp, PushOpFails, PlanSlot, AdminEdit, Retire, ledgerVars
<1>5. ASSUME PutStored \/ PutFails \/ Surface \/ PublishRowFails \/ Crash
      PROVE  phase # "idle" /\ Goal
    BY <1>2, <1>5 DEF PutStored, PutFails, Surface, PublishRowFails, Crash, ledgerVars
<1>6. ASSUME phase \notin {"idle", "ended"}, mem'.applied = mem.applied,
             Known(mem) \subseteq Known(mem'), disk' \in {disk, mem'}
      PROVE  Goal
    BY <1>1, <1>6 DEF Keeps
<1>7. ASSUME Journal \/ JournalFails \/ ReserveAdds \/ PublishRow PROVE phase # "idle" /\ Goal
    <2>1. phase \notin {"idle", "ended"} /\ disk' \in {disk, mem'} /\ mem \in StateFile
        BY <1>0, <1>7 DEF Journal, JournalFails, ReserveAdds, PublishRow, TypeOK, ledgerVars
    <2>2. mem'.applied = mem.applied /\ Known(mem) \subseteq Known(mem')
        <3>1. CASE Journal \/ JournalFails
            BY <2>1, <3>1 DEF Journal, JournalFails, RecordAllocation, StateFile, Known
        <3>2. CASE ReserveAdds
            BY <2>1, <3>2 DEF ReserveAdds, L!ReserveAdds, StateFile, L!LedgerType, Known
        <3>3. CASE PublishRow
            BY <2>1, <3>3 DEF PublishRow, StateFile, Known
        <3> QED
            BY <1>7, <3>1, <3>2, <3>3
    <2> QED
        BY <1>6, <2>1, <2>2
<1>8. ASSUME Record PROVE Goal
    BY <1>8, KeepsRecord DEF Record
<1>9. ASSUME NEW mode \in Modes, BeginApply(mode) PROVE Goal
    <2>1. /\ committed \in StateFile /\ disk' = mem'
          /\ mem'.applied = committed.applied
        BY <1>0, <1>9 DEF BeginApply, TypeOK, StateFile
    <2>2. Known(committed) \cap declared \subseteq Known(mem')
        <3> DEFINE keys    == L!ReconcilePending(committed.keys, declared, Slot)
                   present == {s \in Slot : row[s] # NoRow}
        <3>1. mem'.keys = L!ReconcileAbsent(keys, declared, present, Slot)
            BY <1>9, <2>1 DEF BeginApply, StateFile
        <3>2. keys.managed = committed.keys.managed
              /\ (committed.keys.pending \cap declared) \ committed.keys.managed \subseteq keys.pending
            BY <2>1 DEF L!ReconcilePending, StateFile, L!LedgerType
        <3>3. keys \in L!LedgerType
            BY <2>1 DEF L!ReconcilePending, StateFile, L!LedgerType
        <3> HIDE DEF keys
        <3>4. mem'.keys.pending = keys.pending /\ keys.managed \cap declared \subseteq mem'.keys.managed
            BY <3>1, <3>3 DEF L!ReconcileAbsent, L!LedgerType
        <3> QED
            BY <3>2, <3>4 DEF Known
    <2> QED
        BY <2>1, <2>2 DEF Keeps
<1>10. ASSUME NEW q \in Slot, BeginRotate(q) PROVE Goal
    BY <1>10 DEF BeginRotate, Load, Keeps
<1>11. ASSUME Merge \/ EndRun \/ LoseRun PROVE FALSE
    BY <1>0, <1>11 DEF Merge, EndRun, LoseRun, Reset
<1>12. committed' = committed /\ declared' = declared
    <2>1. ~Merge /\ ~EndRun
        BY <1>11
    <2> QED
        BY <2>1, HistoryMoves DEF repoVars
<1> HIDE DEF Goal
<1>13. Goal
    BY <1>3, <1>4, <1>5, <1>7, <1>8, <1>9, <1>10, <1>11, Zenon DEF Next, RunStep
<1> QED
    BY <1>12, <1>13 DEF Goal, Keeps, Known

LEMMA OwnedStep ==
    ASSUME BrokerInv, HistoryInv, TypeOK', [Next]_vars
    PROVE  Owned'
<1> USE ShardsAssumption, BrokerAssumption
<1> DEFINE Goal ==
        target' = NoSlot /\ phase' \notin {"idle", "ended"} /\ ~failed' =>
          \A s \in (declared' \cap fenced') \ (blocked' \cup ops' \cup landed') :
              row'[s] = Merged(shards', s)
<1>0. /\ TypeOK /\ RunShape /\ Placed /\ Replaced /\ Owned
    BY DEF BrokerInv, HistoryInv
<1>1. ASSUME phase \notin {"idle", "ended"},
             UNCHANGED <<target, row, shards, declared, fenced, blocked, ops, landed>>,
             failed => failed'
      PROVE  Goal
    BY <1>0, <1>1 DEF Owned
<1>2. ASSUME UNCHANGED vars PROVE Goal
    BY <1>0, <1>2 DEF Owned, vars, repoVars, pushVars
<1>3. ASSUME NEW q \in Slot, PlanSlot(q) PROVE Goal
    BY <1>0, <1>1, <1>3 DEF PlanSlot, repoVars, pushVars, RunShape
<1>4. ASSUME NEW q \in Slot, PushOp(q) PROVE Goal
    <2>1. /\ phase = "push" /\ ops' = ops \ {q}
          /\ failed' = (failed \/ ~Accepts(q))
          /\ row' = IF Accepts(q) THEN Pushed(q) ELSE row
          /\ landed' = IF Accepts(q) THEN landed \cup {q} ELSE landed
          /\ UNCHANGED <<target, shards, declared, fenced, blocked>>
        BY <1>4 DEF PushOp, repoVars
    <2>2. CASE Accepts(q)
        <3>1. \A s \in Slot : s # q => row'[s] = row[s]
            BY <1>0, <2>1, <2>2 DEF Pushed, TypeOK
        <3> QED
            BY <1>0, <2>1, <2>2, <3>1 DEF Owned, TypeOK
    <2>3. CASE ~Accepts(q)
        BY <2>1, <2>3
    <2> QED
        BY <2>2, <2>3
<1>5. ASSUME NEW q \in Slot, PushOpFails(q) PROVE Goal
    BY <1>5 DEF PushOpFails
<1>6. ASSUME NEW q \in Slot, Retire(q) PROVE Goal
    BY <1>0, <1>6 DEF Retire, Owned, repoVars, pushVars
<1>7. ASSUME NEW q \in Slot, AdminEdit(q) PROVE Goal
    <2>1. /\ fenced' = fenced \ {q}
          /\ UNCHANGED <<phase, target, failed, shards, declared, blocked, ops, landed>>
        BY <1>7 DEF AdminEdit, repoVars
    <2>2. \A s \in Slot : s # q => row'[s] = row[s]
        BY <1>0, <1>7 DEF AdminEdit, TypeOK
    <2> QED
        BY <1>0, <2>1, <2>2 DEF Owned, TypeOK
<1>8. ASSUME PutStored PROVE Goal
    <2> DEFINE sh == Min(Unsent)
    <2>1. sh \in Shard /\ sh \in Unsent
        BY <1>0, <1>8, NextShard DEF PutStored
    <2>2. /\ shards' = [shards EXCEPT ![sh] = Body(sh)] /\ phase = "put"
          /\ UNCHANGED <<target, failed, row, declared, fenced, blocked, ops, landed>>
        BY <1>8 DEF PutStored, repoVars, pushVars
    <2> HIDE DEF sh
    <2> SUFFICES ASSUME target = NoSlot, ~failed,
                        NEW s \in (declared \cap fenced) \ (blocked \cup ops \cup landed)
                 PROVE  row[s] = Merged(shards', s)
        BY <2>2
    <2>3. s \in Slot /\ plan[s] = NoShard
        BY <1>0, <2>2 DEF Replaced, TypeOK
    <2>4. \A x \in Shard : shards'[x][s] = shards[x][s]
        <3>1. Body(sh)[s] = shards[sh][s]
            BY <2>1, <2>3, BodySlots DEF Shard, NoShard
        <3> QED
            BY <1>0, <2>1, <2>2, <3>1 DEF TypeOK, Bundles
    <2>5. Holders(shards', s) = Holders(shards, s)
        BY <2>4 DEF Holders
    <2>6. Merged(shards', s) = Merged(shards, s)
        <3>1. CASE Holders(shards, s) = {}
            BY <2>5, <3>1 DEF Merged
        <3>2. CASE Holders(shards, s) # {}
            <4>1. Max(Holders(shards, s)) \in Holders(shards, s)
                <5>1. Holders(shards, s) \in SUBSET (0 .. MaxShards)
                    BY DEF Holders, Shard
                <5> QED
                    BY <3>2, <5>1, MaxIsGreatest
            <4>2. Max(Holders(shards, s)) \in Shard
                BY <4>1 DEF Holders
            <4> QED
                BY <2>4, <2>5, <3>2, <4>2 DEF Merged
        <3> QED
            BY <3>1, <3>2
    <2> QED
        BY <1>0, <2>2, <2>6 DEF Owned
<1>9. ASSUME PutFails \/ JournalFails PROVE Goal
    BY <1>9 DEF PutFails, JournalFails
<1>10. ASSUME Journal \/ Surface \/ ReserveAdds PROVE Goal
    BY <1>1, <1>10 DEF Journal, Surface, ReserveAdds, repoVars, pushVars
<1>11. ASSUME phase' \in {"idle", "ended"} PROVE Goal
    BY <1>11
<1>12. ASSUME Record \/ PublishRow \/ PublishRowFails \/ Crash \/ EndRun \/ LoseRun \/ Merge
       PROVE  phase' \in {"idle", "ended"}
    BY <1>12 DEF Record, PublishRow, PublishRowFails, Crash, EndRun, LoseRun, Reset, Merge
<1>13. ASSUME NEW mode \in Modes, BeginApply(mode) PROVE Goal
    <2>1. /\ shards' = secrets /\ row' = row /\ declared' = declared
          /\ ops' = {s \in Slot \ blocked' :
                        IF s \in declared THEN row[s] # Merged(secrets, s)
                        ELSE s \in {q \in Slot : row[q] # NoRow} \cap (Slot \ blocked') \cap mem'.keys.managed}
        BY <1>13 DEF BeginApply, Load, repoVars
    <2>2. declared \subseteq Slot
        BY <1>0 DEF TypeOK
    <2> QED
        BY <2>1, <2>2
<1>14. ASSUME NEW q \in Slot, BeginRotate(q) PROVE Goal
    BY <1>14 DEF BeginRotate
<1> HIDE DEF Goal
<1>15. Goal
    BY <1>2, <1>3, <1>4, <1>5, <1>6, <1>7, <1>8, <1>9, <1>10, <1>11, <1>12, <1>13, <1>14,
       Zenon
    DEF Next, RunStep
<1>16. phase' # "idle" => Keeps(disk)' /\ Keeps(mem)'
    BY KeepsStep
<1>17. phase' \notin {"idle", "ended"} => mem'.applied = committed'.applied
    BY KeepsStep
<1> QED
    BY <1>15, <1>16, <1>17 DEF Goal, Owned

LEMMA HistoryInit ==
    ASSUME Init
    PROVE  HistoryInv
<1> USE ShardsAssumption, BrokerAssumption DEF Init
<1>1. \A s \in Slot : Kin(s) = {} /\ Old(s) = {} /\ Own(s) = {} /\ fresh[s] = NoValue
    BY DEF Kin, Old, Own, Empty
<1>2. Unique
    BY <1>1 DEF Unique, SurfacedWasStored
<1>3. Settled
    BY DEF Settled
<1>4. Ordered
    <2>1. /\ NewState.applied = 0
          /\ \A s \in Slot : NewState.meta[s].at = 0 /\ NewState.meta[s].revision = 0
        BY DEF NewState, NoMetadata, NoValue
    <2> QED
        BY <1>1, <2>1 DEF Ordered, Dated
<1>5. LetGo
    BY <1>1 DEF LetGo
<1>6. Replaced
    BY <1>1 DEF Replaced
<1>7. Journaled
    BY DEF Journaled
<1>8. Tracked
    BY <1>1 DEF Tracked
<1>9. Owned
    BY DEF Owned
<1> QED
    BY <1>2, <1>3, <1>4, <1>5, <1>6, <1>7, <1>8, <1>9 DEF HistoryInv

(* Every reachable state satisfies both parts of the invariant.            *)
THEOREM HistoryInvariant == Spec => [](BrokerInv /\ HistoryInv)
<1>1. Init => BrokerInv /\ HistoryInv
    BY BrokerInit, HistoryInit
<1>2. BrokerInv /\ HistoryInv /\ [Next]_vars => (BrokerInv /\ HistoryInv)'
    <2> SUFFICES ASSUME BrokerInv, HistoryInv, [Next]_vars
                 PROVE  BrokerInv' /\ HistoryInv'
        OBVIOUS
    <2>1. BrokerInv'
        BY TypeStep, ShapeStep, PlacedStep, FitsStep, HeldStep, ProvidedStep DEF BrokerInv
    <2>2. TypeOK' /\ RunShape'
        BY <2>1 DEF BrokerInv
    <2>3. Unique' /\ Settled'
        BY UniqueStep, SettledStep DEF BrokerInv, HistoryInv
    <2>4. Ordered'
        BY <2>2, OrderedStep DEF BrokerInv, HistoryInv
    <2>5. LetGo' /\ Replaced' /\ Journaled' /\ Tracked' /\ Owned'
        BY <2>2, <2>3, LetGoStep, ReplacedStep, JournaledStep, TrackedStep, OwnedStep
    <2> QED
        BY <2>1, <2>3, <2>4, <2>5 DEF HistoryInv
<1> QED
    BY <1>1, <1>2, PTL DEF Spec

-----------------------------------------------------------------------------
(* A value has its cause and its record, for every set of Consumers and    *)
(* every number of runs, faults and merges: what was handed over had been  *)
(* stored, a value refused as revived was meant to be, and a row that      *)
(* serves its slot's value is described by the committed ledger.           *)
THEOREM ValuesAlwaysAccounted == Spec => []ValuesAreAccounted
<1>1. BrokerInv /\ HistoryInv => ValuesAreAccounted
    <2> SUFFICES ASSUME BrokerInv, HistoryInv
                 PROVE  ValuesAreAccounted
        OBVIOUS
    <2>0. TypeOK /\ Unique /\ Settled /\ Tracked
        BY DEF BrokerInv, HistoryInv
    <2>1. ASSUME phase = "idle", NEW s \in Slot, Merged(secrets, s) # NoValue
          PROVE  Merged(secrets, s) \in Old(s)
        <3>1. Merged(secrets, s) \in Kin(s) /\ fresh[s] = NoValue
            BY <2>0, <2>1, MergedIsKin DEF Settled
        <3> QED
            BY <2>1, <3>1 DEF Old
    <2>2. RevivedHasCause
        <3> SUFFICES ASSUME phase = "idle", NEW s \in Revived(committed),
                            Merged(secrets, s) \notin untracked,
                            born[Merged(secrets, s)] = revision, author # Nobody
                     PROVE  FALSE
            BY DEF RevivedHasCause
        <3>1. /\ s \in declared /\ s \in Slot /\ Merged(secrets, s) # NoValue
              /\ s \notin Known(committed) /\ ~PendingAllocation(committed, s)
            BY <2>0 DEF Revived, TypeOK
        <3>2. Vouched(committed, s, Merged(secrets, s))
            BY <2>0, <2>1, <3>1 DEF Tracked
        <3> QED
            BY <3>1, <3>2 DEF Vouched, PendingAllocation
    <2>3. LedgerTracksServedValues
        <3> SUFFICES ASSUME phase = "idle", NEW s \in Slot, row[s] \in Value,
                            row[s] = Merged(secrets, s)
                     PROVE  committed.meta[s].at = row[s] \/ row[s] \in untracked \cup unrecorded
            BY DEF LedgerTracksServedValues
        <3>1. row[s] # NoValue
            BY DEF Value, NoValue
        <3> QED
            BY <2>0, <2>1, <3>1 DEF Tracked
    <2> QED
        BY <2>0, <2>2, <2>3 DEF ValuesAreAccounted, Unique
<1> QED
    BY <1>1, HistoryInvariant, PTL

-----------------------------------------------------------------------------
(* What a slot is merged to depends on its entries alone.                  *)
LEMMA SameMerged ==
    ASSUME NEW b, NEW c, NEW s \in Slot, \A x \in Shard : b[x][s] = c[x][s]
    PROVE  Merged(b, s) = Merged(c, s)
<1>1. Holders(b, s) = Holders(c, s)
    BY DEF Holders
<1>2. CASE Holders(b, s) = {}
    BY <1>1, <1>2 DEF Merged
<1>3. CASE Holders(b, s) # {}
    <2>1. Holders(b, s) \in SUBSET (0 .. MaxShards)
        BY ShardsAssumption DEF Holders, Shard
    <2>2. Max(Holders(b, s)) \in Holders(b, s)
        BY <1>3, <2>1, ShardsAssumption, MaxIsGreatest
    <2>3. Max(Holders(b, s)) \in Shard
        BY <2>2 DEF Holders
    <2> QED
        BY <1>1, <1>3, <2>3 DEF Merged
<1> QED
    BY <1>2, <1>3

(* Only PUTs and operators change the secrets.                             *)
LEMMA SecretsMove ==
    ASSUME [Next]_vars
    PROVE  secrets' = secrets \/ PutStored \/ PutFails \/ \E s \in Slot : Retire(s)
BY QuietSteps DEF Quiet, PlanSlot, BeginRotate, BeginApply, Load, EndRun, LoseRun, Reset

LEMMA PutsKeepStep ==
    ASSUME BrokerInv, BrokerInv', HistoryInv, [Next]_vars,
           NEW s \in Slot, Merged(secrets, s) # NoValue, ~Retire(s)
    PROVE  Merged(secrets', s) \in {Merged(secrets, s), fresh[s]} \ {NoValue}
<1> USE ShardsAssumption, BrokerAssumption
<1>0. /\ TypeOK /\ RunShape /\ Placed /\ Settled
      /\ secrets' \in Bundles /\ NoSlotTwice(secrets')
    BY DEF BrokerInv, HistoryInv, TypeOK, Placed
<1>1. CASE secrets' = secrets
    BY <1>1
<1>2. ASSUME NEW q \in Slot, Retire(q) PROVE Merged(secrets', s) = Merged(secrets, s)
    <2>1. s # q
        BY <1>2
    <2>2. \A x \in Shard : secrets'[x][s] = secrets[x][s]
        BY <1>0, <1>2, <2>1 DEF Retire, TypeOK, Bundles
    <2> QED
        BY <2>2, SameMerged
<1>3. CASE PutStored \/ PutFails
    <2> DEFINE sh == Min(Unsent)
    <2>1. sh \in Shard
        BY <1>0, <1>3, NextShard DEF PutStored, PutFails
    <2>2. secrets' = secrets \/ secrets' = [secrets EXCEPT ![sh] = Body(sh)]
        BY <1>3 DEF PutStored, PutFails
    <2>3. phase = "put"
        BY <1>3 DEF PutStored, PutFails
    <2> HIDE DEF sh
    <2>4. CASE secrets' = [secrets EXCEPT ![sh] = Body(sh)]
        <3>1. \A x \in Shard : secrets'[x] = IF x = sh THEN Body(sh) ELSE secrets[x]
            BY <1>0, <2>1, <2>4 DEF TypeOK, Bundles
        <3>2. CASE plan[s] = sh
            <4>1. secrets'[sh][s] = fresh[s] /\ fresh[s] # NoValue
                BY <1>0, <2>1, <3>1, <3>2, BodySlots DEF RunShape, Shard, NoShard, Value, NoValue
            <4> QED
                BY <1>0, <2>1, <4>1, SoleHolder
        <3>3. CASE plan[s] # sh
            <4>1. PICK x \in Shard : secrets[x][s] # NoValue
                BY <1>0 DEF Merged, Holders
            <4>2. secrets[x][s] = Merged(secrets, s) /\ shards[x][s] = secrets[x][s]
                BY <1>0, <2>3, <4>1, SoleHolder DEF Placed, Settled, TypeOK
            <4>3. secrets'[x][s] = secrets[x][s]
                BY <2>1, <3>1, <3>3, <4>2, BodySlots
            <4> QED
                BY <1>0, <4>1, <4>2, <4>3, SoleHolder
        <3> QED
            BY <3>2, <3>3
    <2> QED
        BY <1>1, <2>2, <2>4
<1> QED
    BY <1>1, <1>2, <1>3, SecretsMove

LEMMA RetiredRowsStep ==
    ASSUME BrokerInv, HistoryInv, [Next]_vars, NEW s \in Slot, row'[s] # row[s]
    PROVE  row'[s] \notin retired
<1> USE ShardsAssumption, BrokerAssumption
<1>0. /\ TypeOK /\ RunShape /\ Unique /\ LetGo /\ Replaced
    BY DEF BrokerInv, HistoryInv
<1>1. NoRow \notin retired /\ Foreign \notin retired /\ NoValue \notin retired
    <2>1. retired \subseteq Value /\ NoValue \notin Value
        BY <1>0 DEF TypeOK, Value, NoValue
    <2> QED
        BY <2>1
<1>2. Merged(shards, s) \in Kin(s) \cup {NoValue}
    BY <1>0, MergedIsKin
<1>3. ASSUME NEW q \in Slot, PushOp(q) \/ PushOpFails(q) PROVE row'[s] \notin retired
    <2>1. /\ phase = "push" /\ q \in ops /\ (row' = row \/ row' = Pushed(q))
        BY <1>3 DEF PushOp, PushOpFails
    <2>2. s = q /\ row'[s] = IF s \in declared THEN Merged(shards, s) ELSE NoRow
        BY <1>0, <2>1 DEF Pushed, TypeOK
    <2>3. target = NoSlot
        BY <1>0, <2>1 DEF RunShape
    <2>4. s \in declared => Kin(s) \cap retired = {}
        BY <1>0, <2>1, <2>3 DEF LetGo
    <2> QED
        BY <1>1, <1>2, <2>2, <2>4
<1>4. CASE PublishRow \/ PublishRowFails
    <2>1. /\ phase = "publish"
          /\ row' = row \/ row' = [row EXCEPT ![target] = Merged(shards, target)]
        BY <1>4 DEF PublishRow, PublishRowFails
    <2>2. s = target /\ row'[s] = Merged(shards, s)
        BY <1>0, <2>1 DEF TypeOK
    <2>3. s \in out
        BY <1>0, <2>1, <2>2 DEF RunShape
    <2>4. Kin(s) \subseteq {fresh[s]} /\ fresh[s] \notin retired
        BY <1>0, <2>3 DEF Replaced, LetGo, Old
    <2> QED
        BY <1>1, <1>2, <2>2, <2>4
<1>5. ASSUME NEW q \in Slot, AdminEdit(q) PROVE row'[s] \notin retired
    BY <1>0, <1>1, <1>5 DEF AdminEdit, TypeOK
<1>6. ASSUME UNCHANGED vars PROVE FALSE
    BY <1>6 DEF vars
<1>7. ASSUME NEW q \in Slot, PlanSlot(q) \/ Retire(q) \/ BeginRotate(q) PROVE FALSE
    BY <1>7 DEF PlanSlot, Retire, BeginRotate, Load
<1>8. ASSUME PutStored \/ PutFails \/ Journal \/ JournalFails \/ Surface \/ ReserveAdds \/ Record
      PROVE  FALSE
    BY <1>8 DEF PutStored, PutFails, Journal, JournalFails, Surface, ReserveAdds, Record
<1>9. ASSUME Crash \/ Merge \/ EndRun \/ LoseRun PROVE FALSE
    BY <1>9 DEF Crash, Merge, EndRun, LoseRun, Reset
<1>10. ASSUME NEW mode \in Modes, BeginApply(mode) PROVE FALSE
    BY <1>10 DEF BeginApply, Load
<1> QED
    BY <1>3, <1>4, <1>5, <1>6, <1>7, <1>8, <1>9, <1>10, Zenon DEF Next, RunStep

(* No step of the broker loses a value or brings one back: a PUT keeps     *)
(* what its secret held for the slots of other batches, and a value let go *)
(* with its Consumer reaches no row, unless an operator asked for it.      *)
THEOREM PutsAreAlwaysSafe == Spec => PutsAreSafe
<1>1. BrokerInv /\ BrokerInv' /\ HistoryInv /\ [Next]_vars =>
         [\A s \in Slot : Merged(secrets, s) # NoValue /\ ~Retire(s) =>
             Merged(secrets', s) \in {Merged(secrets, s), fresh[s]} \ {NoValue}]_vars
    BY PutsKeepStep
<1>2. BrokerInv /\ HistoryInv /\ [Next]_vars =>
         [\A s \in Slot : row'[s] # row[s] => row'[s] \notin retired]_vars
    BY RetiredRowsStep
<1>3. Spec => PutsKeepOtherSlots
    BY <1>1, HistoryInvariant, PTL DEF Spec, PutsKeepOtherSlots
<1>4. Spec => RetiredValuesStayRetired
    BY <1>2, HistoryInvariant, PTL DEF Spec, RetiredValuesStayRetired
<1> QED
    BY <1>3, <1>4 DEF PutsAreSafe

=============================================================================
