-------------------------- MODULE FullReplaceProofs --------------------------
(***************************************************************************)
(* Proofs about whole writes.  FullReplace: a replacement overwrites only  *)
(* what its run has read, and takes along whatever the run did not declare *)
(* (prepare_apply and apply_prepared, src/apply/api_target.rs).            *)
(* PluginAssociations: plugins and the proxies that name them are written  *)
(* over what was planned (Preconditions, update_proxy_after_plugins).      *)
(***************************************************************************)
EXTENDS FullReplace, TLAPS

AnyRow == Row \cup {NoRow}
DocsOf(ns) == {d \in ApiSpec : SpecNs[d] = ns}

(* A snapshot, taken or not: typed, and of its own namespace.              *)
SnapOf(ns, s) ==
    /\ s.docs \subseteq DocsOf(ns)
    /\ DOMAIN s.rows \subseteq KeysIn({ns})
    /\ \A k \in DOMAIN s.rows : s.rows[k] \in AnyRow

(* A snapshot that was taken: as long as the namespace's revision stands,  *)
(* it is what the gateway holds.                                           *)
Fresh(ns) ==
    /\ snap[ns].rows \in [KeysIn({ns}) -> AnyRow]
    /\ snap[ns].rev \in Nat /\ snap[ns].rev <= rev[ns]
    /\ snap[ns].rev = rev[ns] =>
          /\ \A k \in KeysIn({ns}) : rows[k] = snap[ns].rows[k]
          /\ LiveDocs(ns) = snap[ns].docs

SnapInv ==
    /\ DOMAIN snap = Namespace
    /\ \A ns \in Namespace : SnapOf(ns, snap[ns])
    /\ pc = "read" => \A i \in 1..pos - 1 : Fresh(Order[i])
    /\ pc \in {"prepare", "restore", "record"} => \A ns \in Namespace : Fresh(ns)

GatewayType ==
    /\ rows \in [Key -> AnyRow] /\ docs \subseteq ApiSpec
    /\ rev \in [Namespace -> Nat] /\ outage \in BOOLEAN
    /\ trust \in [Namespace -> Nat] /\ \A ns \in Namespace : trust[ns] <= changes
    /\ changes \in 0..MaxChanges
RunType ==
    /\ disk \in LedgerType /\ mem \in LedgerType
    /\ pc \in {"idle", "read", "prepare", "restore", "record"}
    /\ confirm \in BOOLEAN /\ fatal \in BOOLEAN
    /\ withheld \subseteq Namespace /\ blocked \subseteq Namespace
    /\ replaced \subseteq Namespace /\ errors \subseteq Namespace
    /\ pos \in 1..Len(Order) + 1 /\ runs \in 0..MaxRuns

(* A run works from the ledger it found, and decides nothing about what it *)
(* prepared after its first restore.                                       *)
Prepared == [ns \in Namespace |-> Body(ns, snap[ns])]
RunInv ==
    /\ pc # "idle" => mem = disk
    /\ pc \in {"idle", "prepare"} => pos = 1
    /\ pc \in {"read", "restore"} => pos \in 1..Len(Order)
    /\ pc \in {"restore", "record"} =>
          bodies = Prepared /\ blocked = Blocked /\ ~RunWideError
    /\ replaced # {} => pc \in {"restore", "record"}
    /\ \A ns \in replaced : \E i \in 1..pos - 1 : Order[i] = ns

IInv == GatewayType /\ RunType /\ SnapInv /\ RunInv

LEMMA Types == IInv => TypeOK
  <1> SUFFICES ASSUME IInv PROVE TypeOK
    OBVIOUS
  <1>1. trust \in [Namespace -> Trust]
    <2>1. ASSUME NEW ns \in Namespace PROVE trust[ns] \in Trust
      BY FullReplaceAssumption DEF IInv, GatewayType, Trust
    <2> QED
      BY <2>1 DEF IInv, GatewayType
  <1> QED
    BY <1>1 DEF IInv, GatewayType, RunType, TypeOK, AnyRow

-----------------------------------------------------------------------------
(* What the gateway's steps have in common: they move one namespace, and   *)
(* its revision with it, or neither rows nor documents.                    *)
Moves(n) ==
    /\ rev' = [rev EXCEPT ![n] = @ + 1]
    /\ \A k \in Key : NsOf[k] # n => rows'[k] = rows[k]
    /\ \A d \in ApiSpec : SpecNs[d] # n => (d \in docs' <=> d \in docs)
Moved == \/ \E n \in Namespace : Moves(n)
         \/ UNCHANGED <<rows, docs, rev>>

LEMMA OrderTypes ==
    /\ Order \in Seq(Namespace) /\ Len(Order) \in Nat \ {0}
    /\ \A i \in 1..Len(Order) : Order[i] \in Namespace
    /\ \A ns \in Namespace : \E i \in 1..Len(Order) : Order[i] = ns
    /\ \A i, j \in 1..Len(Order) : Order[i] = Order[j] => i = j
  <1>1. Order \in Seq(Namespace) /\ DOMAIN Order = 1..Len(Order) /\ Len(Order) \in Nat
    BY FullReplaceAssumption
  <1>2. Len(Order) # 0
    BY <1>1, FullReplaceAssumption
  <1>3. \A i \in 1..Len(Order) : Order[i] \in Namespace
    BY <1>1
  <1> QED
    BY <1>1, <1>2, <1>3, FullReplaceAssumption

LEMMA OrderLength == Len(Order) \in Nat /\ Len(Order) >= 1
  BY OrderTypes

(* A snapshot stays fresh under every step that moves its namespace's      *)
(* revision with its rows and documents.                                   *)
LEMMA StaysFresh ==
    ASSUME GatewayType, Moved, snap' = snap, docs' \subseteq ApiSpec,
           NEW ns \in Namespace, Fresh(ns)
    PROVE  Fresh(ns)'
  <1>1. rev \in [Namespace -> Nat] /\ docs \subseteq ApiSpec
    BY DEF GatewayType
  <1>2. CASE UNCHANGED <<rows, docs, rev>>
    BY <1>2 DEF Fresh, LiveDocs
  <1>3. ASSUME NEW n \in Namespace, Moves(n)
        PROVE  Fresh(ns)'
    <2>1. CASE n = ns
      <3>1. rev'[ns] = rev[ns] + 1 /\ rev[ns] \in Nat
        BY <1>1, <1>3, <2>1 DEF Moves
      <3>2. snap[ns].rev \in Nat /\ snap[ns].rev <= rev[ns]
        BY DEF Fresh
      <3>3. snap[ns].rev <= rev'[ns] /\ snap[ns].rev # rev'[ns]
        BY <3>1, <3>2
      <3>4. snap[ns].rows \in [KeysIn({ns}) -> AnyRow]
        BY DEF Fresh
      <3> QED
        BY <3>2, <3>3, <3>4 DEF Fresh
    <2>2. CASE n # ns
      <3>1. rev'[ns] = rev[ns]
        BY <1>1, <1>3, <2>2 DEF Moves
      <3>2. \A k \in KeysIn({ns}) : rows'[k] = rows[k]
        BY <1>3, <2>2 DEF Moves, KeysIn
      <3>3. LiveDocs(ns)' = LiveDocs(ns)
        BY <1>1, <1>3, <2>2 DEF Moves, LiveDocs
      <3> QED
        BY <3>1, <3>2, <3>3 DEF Fresh
    <2> QED
      BY <2>1, <2>2
  <1> QED
    BY <1>2, <1>3 DEF Moved

(* What Body builds from a snapshot: rows of the namespace, the documents  *)
(* that were read or none, and no trust roots.                             *)
LEMMA BodyTypes ==
    ASSUME NEW ns \in Namespace, NEW s, SnapOf(ns, s)
    PROVE  /\ Body(ns, s).rows \in [KeysIn({ns}) -> AnyRow]
           /\ Body(ns, s).docs \subseteq DocsOf(ns)
           /\ Body(ns, s).trust = {}
  <1>1. Restored \in Row
    BY DEF Restored, Row, Unknown
  <1>2. ASSUME NEW k \in Carried(ns, s)
        PROVE  [s.rows[k] EXCEPT !.unknown = IF @ = "nested" THEN "none" ELSE @] \in Row
    <2>1. s.rows[k] \in Row
      BY <1>2 DEF Carried, Tagged, Live, SnapOf, AnyRow
    <2> QED
      BY <2>1 DEF Row, Unknown
  <1>3. Body(ns, s).rows \in [KeysIn({ns}) -> AnyRow]
    BY <1>1, <1>2 DEF Body, AnyRow
  <1> QED
    BY <1>3 DEF Body, SnapOf

LEMMA InitInv == Init => IInv
  <1> SUFFICES ASSUME Init PROVE IInv
    OBVIOUS
  <1>1. rows \in [Key -> AnyRow] /\ docs \subseteq ApiSpec
    BY FullReplaceAssumption DEF Init, AnyRow
  <1>0. /\ trust = [ns \in Namespace |-> 0] /\ rev = [ns \in Namespace |-> 0]
        /\ outage = FALSE /\ changes = 0 /\ runs = 0 /\ pos = 1
    BY DEF Init
  <1>2. GatewayType
    <2>1. MaxChanges \in Nat
      BY FullReplaceAssumption, Zenon
    <2>2. changes \in 0..MaxChanges
      <3>1. 0 \in 0..MaxChanges
        BY <2>1
      <3> QED
        BY <1>0, <3>1, Zenon
    <2>5. outage \in BOOLEAN
      BY <1>0, Zenon
    <2>3. trust \in [Namespace -> Nat] /\ rev \in [Namespace -> Nat]
      BY <1>0
    <2>4. \A ns \in Namespace : trust[ns] <= changes
      BY <1>0
    <2> QED
      BY <1>1, <2>2, <2>3, <2>4, <2>5 DEF GatewayType
  <1>3. disk \in LedgerType /\ mem \in LedgerType
    BY FullReplaceAssumption DEF Init, LedgerType, EmptyLedger
  <1>7. pos \in 1..Len(Order) + 1 /\ runs \in 0..MaxRuns
    BY <1>0, OrderLength, FullReplaceAssumption
  <1>4. RunType
    BY <1>3, <1>7 DEF Init, RunType
  <1>5. SnapInv
    BY DEF Init, SnapInv, SnapOf, NoBody
  <1>6. RunInv
    BY OrderTypes DEF Init, RunInv
  <1> QED
    BY <1>2, <1>4, <1>5, <1>6 DEF IInv

(* A run that is over leaves the gateway and the bounds as they are.       *)
LEMMA OverInv ==
    ASSUME IInv, Over, disk' \in LedgerType
    PROVE  IInv'
  <1>1. GatewayType'
    BY DEF IInv, GatewayType, Over, gateway, bounds
  <1>5. pos' \in 1..Len(Order) + 1 /\ mem' \in LedgerType
    BY OrderLength DEF Over, LedgerType, EmptyLedger
  <1>2. RunType'
    BY <1>5 DEF IInv, RunType, Over, bounds
  <1>3. SnapInv'
    BY DEF IInv, SnapInv, SnapOf, Over, NoBody
  <1>4. RunInv'
    BY DEF IInv, RunInv, Over
  <1> QED
    BY <1>1, <1>2, <1>3, <1>4 DEF IInv

LEMMA StartInv ==
    ASSUME IInv, Start
    PROVE  IInv'
  <1>1. pos = 1 /\ replaced = {}
    BY DEF IInv, RunInv, Start
  <1>2. GatewayType'
    BY DEF IInv, GatewayType, Start, gateway
  <1>3. runs' \in 0..MaxRuns
    BY FullReplaceAssumption DEF IInv, RunType, Start
  <1>4. RunType'
    BY <1>3 DEF IInv, RunType, Start, prepared
  <1>5. SnapInv'
    BY <1>1 DEF IInv, SnapInv, Start
  <1>6. RunInv'
    BY <1>1, OrderTypes DEF IInv, RunInv, Start
  <1> QED
    BY <1>2, <1>4, <1>5, <1>6 DEF IInv

(* A snapshot is fresh when it is taken, and no other one ages by it.      *)
LEMMA ReadInv ==
    ASSUME IInv, ReadNamespace
    PROVE  IInv'
  <1>1. CASE outage
    BY <1>1, OverInv DEF ReadNamespace, IInv, RunType
  <1>2. CASE ~outage
    <2> USE <1>2 DEF ReadNamespace, Quiet
    <2>1. pc = "read" /\ pos \in 1..Len(Order) /\ Ns = Order[pos] /\ Ns \in Namespace
      BY OrderTypes DEF IInv, RunInv, Ns
    <2>2. snap' = [snap EXCEPT ![Ns] = Snapshot(Ns)]
          /\ UNCHANGED <<rows, docs, trust, rev, outage, disk, mem, confirm, withheld,
                         bodies, blocked, replaced, errors, fatal, changes, runs>>
      BY DEF gateway, inputs, bounds, prepared
    <2>3. pc' \in {"read", "prepare"} /\ pos' \in 1..Len(Order)
          /\ (pc' = "read" => pos' = pos + 1) /\ (pc' = "prepare" => pos' = 1 /\ pos = Len(Order))
      BY <2>1, OrderLength
    <2>4. GatewayType'
      BY <2>2 DEF IInv, GatewayType
    <2>9. pos' \in 1..Len(Order) + 1
      BY <2>3, OrderLength
    <2>5. RunType'
      BY <2>2, <2>3, <2>9 DEF IInv, RunType
    <2>6. PICK n \in Namespace : n = Ns
      BY <2>1
    <2>7. Fresh(n)' /\ SnapOf(n, snap'[n])
      <3>1. snap'[n] = Snapshot(n)
        BY <2>1, <2>2, <2>6 DEF IInv, SnapInv
      <3>2. rows \in [Key -> AnyRow] /\ rev[n] \in Nat /\ docs \subseteq ApiSpec
        BY DEF IInv, GatewayType
      <3>3. KeysIn({n}) \subseteq Key
        BY DEF KeysIn
      <3>4. SnapOf(n, Snapshot(n))
        BY <3>2, <3>3 DEF SnapOf, Snapshot, DocsOf
      <3>5. /\ Snapshot(n).rows = [k \in KeysIn({n}) |-> rows[k]]
            /\ Snapshot(n).docs = LiveDocs(n) /\ Snapshot(n).rev = rev[n]
        BY DEF Snapshot, LiveDocs
      <3>6. Snapshot(n).rows \in [KeysIn({n}) -> AnyRow]
        BY <3>2, <3>3, <3>5
      <3>7. rows' = rows /\ rev' = rev /\ LiveDocs(n)' = LiveDocs(n)
        BY <2>2 DEF LiveDocs
      <3>8. Fresh(n)'
        <4>1. /\ snap'[n].rows = [k \in KeysIn({n}) |-> rows[k]]
              /\ snap'[n].docs = LiveDocs(n) /\ snap'[n].rev = rev[n]
          BY <3>1, <3>5
        <4>2. \A k \in KeysIn({n}) : rows'[k] = snap'[n].rows[k]
          BY <3>7, <4>1
        <4>3. snap'[n].rows \in [KeysIn({n}) -> AnyRow]
          BY <3>1, <3>6
        <4>4. snap'[n].rev \in Nat /\ snap'[n].rev <= rev'[n]
          BY <3>2, <3>7, <4>1
        <4>5. LiveDocs(n)' = snap'[n].docs
          BY <3>7, <4>1
        <4> QED
          BY <4>2, <4>3, <4>4, <4>5 DEF Fresh
      <3> QED
        BY <3>1, <3>4, <3>8
    <2>10. ASSUME NEW ns \in Namespace, Fresh(ns)
           PROVE  Fresh(ns)'
      <3>1. CASE ns = n
        BY <2>7, <3>1
      <3>2. CASE ns # n
        <4>1. snap'[ns] = snap[ns] /\ rows' = rows /\ rev' = rev /\ LiveDocs(ns)' = LiveDocs(ns)
          BY <2>2, <2>6, <3>2 DEF LiveDocs, IInv, SnapInv
        <4> QED
          BY <2>10, <4>1 DEF Fresh
      <3> QED
        BY <3>1, <3>2
    <2>8. ASSUME NEW i \in 1..pos
          PROVE  Fresh(Order[i])'
      <3>1. CASE i = pos
        BY <2>1, <2>6, <2>7, <3>1
      <3>2. CASE i # pos
        <4>1. i \in 1..pos - 1 /\ i \in 1..Len(Order)
          BY <2>1, <3>2, OrderLength
        <4>2. Fresh(Order[i]) /\ Order[i] \in Namespace
          BY <2>1, <4>1, OrderTypes DEF IInv, SnapInv
        <4> QED
          BY <2>10, <4>2
      <3> QED
        BY <3>1, <3>2
    <2>11. SnapInv'
      <3>1. DOMAIN snap' = Namespace
        BY <2>2 DEF IInv, SnapInv
      <3>2. \A ns \in Namespace : SnapOf(ns, snap'[ns])
        <4>1. \A ns \in Namespace \ {n} : snap'[ns] = snap[ns]
          BY <2>2, <2>6 DEF IInv, SnapInv
        <4> QED
          BY <2>7, <4>1 DEF IInv, SnapInv
      <3>3. pc' = "read" => \A i \in 1..pos' - 1 : Fresh(Order[i])'
        BY <2>1, <2>3, <2>8
      <3>4. pc' = "prepare" => \A ns \in Namespace : Fresh(ns)'
        BY <2>3, <2>8, OrderTypes
      <3> QED
        BY <2>3, <3>1, <3>2, <3>3, <3>4 DEF SnapInv
    <2>12. RunInv'
      BY <2>1, <2>2, <2>3 DEF IInv, RunInv
    <2> QED
      BY <2>4, <2>5, <2>11, <2>12 DEF IInv
  <1> QED
    BY <1>1, <1>2
(* What a run has decided stands as long as its inputs and snapshots do.   *)
LEMMA DecisionsStand ==
    ASSUME snap' = snap, confirm' = confirm, withheld' = withheld
    PROVE  Prepared' = Prepared /\ Blocked' = Blocked /\ RunWideError' = RunWideError
  <1>1. Prepared' = Prepared
    BY DEF Prepared, Body, Carried
  <1>2. Blocked' = Blocked
    BY DEF Blocked, SpecConflict, UnmodeledField, Carried
  <1>3. RunWideError' = RunWideError
    BY DEF RunWideError, SpecConflict, GraphProvable, Unrepresentable
  <1> QED
    BY <1>1, <1>2, <1>3

LEMMA PrepareInv ==
    ASSUME IInv, Prepare
    PROVE  IInv'
  <1> DEFINE read == UNION {Live(snap[ns]) : ns \in Namespace}
  <1>0. /\ UNCHANGED <<rows, docs, trust, rev, outage, changes, snap, confirm, withheld,
                       pos, replaced, errors, fatal, runs>>
        /\ pc = "prepare" /\ pc' = "restore" /\ ~RunWideError /\ disk' = mem'
        /\ blocked' = Blocked /\ bodies' = Prepared
        /\ mem' = ReconcileAbsent(ForgetPending(mem, Namespace), Declared, read, Namespace)
    BY DEF Prepare, gateway, inputs, bounds, Prepared
  <1>1. GatewayType'
    BY <1>0 DEF IInv, GatewayType
  <1>2. mem' \in LedgerType
    <2>1. mem \in LedgerType
      BY DEF IInv, RunType
    <2>2. ForgetPending(mem, Namespace) \in LedgerType
      BY <2>1 DEF ForgetPending, LedgerType
    <2> HIDE DEF read
    <2> QED
      BY <1>0, <2>2 DEF ReconcileAbsent, LedgerType
  <1>3. Blocked \subseteq Namespace
    BY DEF IInv, RunType, Blocked
  <1>4. RunType'
    BY <1>0, <1>2, <1>3 DEF IInv, RunType
  <1>5. SnapInv'
    <2>1. \A ns \in Namespace : Fresh(ns)
      BY <1>0 DEF IInv, SnapInv
    <2>2. \A ns \in Namespace : Fresh(ns)'
      BY <1>0, <2>1 DEF Fresh, LiveDocs
    <2> QED
      BY <1>0, <2>2 DEF IInv, SnapInv
  <1>6. pos = 1 /\ replaced = {}
    BY <1>0 DEF IInv, RunInv
  <1>7. RunInv'
    BY <1>0, <1>6, DecisionsStand, OrderLength DEF RunInv
  <1> QED
    BY <1>1, <1>4, <1>5, <1>7 DEF IInv

-----------------------------------------------------------------------------
(* The restores.                                                           *)

LEMMA Place ==
    ASSUME IInv, pc = "restore"
    PROVE  /\ pos \in 1..Len(Order) /\ Ns = Order[pos] /\ Ns \in Namespace
           /\ Ns \notin replaced
  <1>1. pos \in 1..Len(Order) /\ Ns = Order[pos]
    BY DEF IInv, RunInv, Ns
  <1>2. Ns \in Namespace
    BY <1>1, OrderTypes
  <1>3. ASSUME Ns \in replaced PROVE FALSE
    <2>1. PICK i \in 1..pos - 1 : Order[i] = Ns
      BY <1>3 DEF IInv, RunInv
    <2>2. i \in 1..Len(Order) /\ i # pos
      BY <1>1, <2>1, OrderLength
    <2> QED
      BY <1>1, <2>1, <2>2, OrderTypes
  <1> QED
    BY <1>1, <1>2, <1>3

LEMMA Wider == \A p, q \in Int : q >= p => \A i \in 1..p - 1 : i \in 1..q - 1
  OBVIOUS

(* What the run does to itself at a restore, whatever the gateway did.     *)
LEMMA RestoreInv ==
    ASSUME IInv, pc = "restore", GatewayType', Moved, Kept,
           errors' \subseteq Namespace, fatal' \in BOOLEAN,
           \/ Onward /\ replaced' \in {replaced, replaced \cup {Ns}}
           \/ pc' = "record" /\ UNCHANGED <<pos, replaced>>
    PROVE  IInv'
  <1>0. UNCHANGED <<confirm, withheld, runs, disk, snap, bodies, blocked, mem>>
    BY DEF Kept, inputs, bounds, prepared
  <1>1. pos \in 1..Len(Order) /\ Ns = Order[pos] /\ Ns \in Namespace
    BY Place
  <1>2. /\ pc' \in {"restore", "record"} /\ pos' \in 1..Len(Order) + 1 /\ pos' >= pos
        /\ pc' = "restore" => pos' \in 1..Len(Order)
    BY <1>1, OrderLength DEF Onward
  <1>3. replaced' \subseteq Namespace
    BY <1>1 DEF IInv, RunType
  <1>4. RunType'
    BY <1>0, <1>2, <1>3 DEF IInv, RunType
  <1>5. SnapInv'
    <2>1. \A ns \in Namespace : Fresh(ns)
      BY DEF IInv, SnapInv
    <2>2. docs' \subseteq ApiSpec
      BY DEF GatewayType
    <2>3. \A ns \in Namespace : Fresh(ns)'
      BY <1>0, <2>1, <2>2, StaysFresh DEF IInv
    <2> QED
      BY <1>0, <1>2, <2>3 DEF IInv, SnapInv
  <1>6. \A ns \in replaced' : \E i \in 1..pos' - 1 : Order[i] = ns
    <2>0. \A ns \in replaced : \E i \in 1..pos - 1 : Order[i] = ns
      BY Zenon DEF IInv, RunInv
    <2>1. ASSUME NEW ns \in replaced
          PROVE  \E i \in 1..pos' - 1 : Order[i] = ns
      <3>1. PICK i \in 1..pos - 1 : Order[i] = ns
        BY <2>0
      <3>2. pos \in Int /\ pos' \in Int /\ pos' >= pos
        BY <1>1, <1>2, OrderLength
      <3>3. i \in 1..pos' - 1
        BY <3>2, Wider, Zenon
      <3> QED
        BY <3>1, <3>3
    <2>2. ASSUME Ns \in replaced' \ replaced
          PROVE  \E i \in 1..pos' - 1 : Order[i] = Order[pos]
      <3>1. pos' = pos + 1 /\ pos \in 1..pos' - 1
        BY <1>1, <2>2, OrderLength DEF Onward
      <3> QED
        BY <3>1
    <2> QED
      BY <1>1, <2>1, <2>2
  <1>7. bodies' = Prepared' /\ blocked' = Blocked' /\ ~RunWideError' /\ mem' = disk'
    BY <1>0, DecisionsStand DEF IInv, RunInv
  <1>8. RunInv'
    BY <1>2, <1>6, <1>7 DEF RunInv
  <1> QED
    BY <1>4, <1>5, <1>8 DEF IInv

(* A replacement moves its namespace and nothing else.                     *)
LEMMA ReplaceMoves ==
    ASSUME IInv, pc = "restore", Replace(bodies[Ns]), changes' = changes
    PROVE  GatewayType' /\ Moved /\ trust' = trust
  <1>1. PICK n \in Namespace : n = Ns
    BY Place
  <1>2. bodies[n] = Body(n, snap[n]) /\ SnapOf(n, snap[n])
    BY DEF IInv, RunInv, SnapInv, Prepared
  <1>3. /\ bodies[n].rows \in [KeysIn({n}) -> AnyRow]
        /\ bodies[n].docs \subseteq DocsOf(n) /\ bodies[n].trust = {}
    BY <1>2, BodyTypes
  <1>4. rows \in [Key -> AnyRow] /\ docs \subseteq ApiSpec /\ rev \in [Namespace -> Nat]
        /\ trust \in [Namespace -> Nat]
    BY DEF IInv, GatewayType
  <1>5. /\ rows' = [k \in Key |-> IF NsOf[k] = n THEN bodies[n].rows[k] ELSE rows[k]]
        /\ docs' = (docs \ LiveDocs(n)) \cup bodies[n].docs
        /\ trust' = [trust EXCEPT ![n] =
                       IF bodies[n].trust = {} THEN @ ELSE CHOOSE t \in bodies[n].trust : TRUE]
        /\ rev' = [rev EXCEPT ![n] = @ + 1] /\ UNCHANGED outage
    BY <1>1 DEF Replace
  <1>6. trust' = trust
    BY <1>3, <1>4, <1>5
  <1>7. rows' \in [Key -> AnyRow]
    <2>1. ASSUME NEW k \in Key, NsOf[k] = n PROVE bodies[n].rows[k] \in AnyRow
      BY <1>3, <2>1 DEF KeysIn
    <2> QED
      BY <1>4, <1>5, <2>1
  <1>8. docs' \subseteq ApiSpec
    BY <1>3, <1>4, <1>5 DEF DocsOf
  <1>9. rev' \in [Namespace -> Nat]
    BY <1>4, <1>5
  <1>10. Moves(n)
    <2>1. \A k \in Key : NsOf[k] # n => rows'[k] = rows[k]
      BY <1>5
    <2>2. \A d \in ApiSpec : SpecNs[d] # n => (d \in docs' <=> d \in docs)
      BY <1>3, <1>5 DEF DocsOf, LiveDocs
    <2> QED
      BY <1>5, <2>1, <2>2 DEF Moves
  <1>11. GatewayType'
    BY <1>5, <1>6, <1>7, <1>8, <1>9 DEF IInv, GatewayType
  <1> QED
    BY <1>6, <1>10, <1>11 DEF Moved

LEMMA KeptGateway ==
    ASSUME IInv, UNCHANGED gateway, changes' = changes
    PROVE  GatewayType' /\ Moved
  BY DEF IInv, GatewayType, gateway, Moved

LEMMA SucceedsInv ==
    ASSUME IInv, RestoreSucceeds
    PROVE  IInv'
  <1>1. pc = "restore" /\ Kept /\ Replace(bodies[Ns]) /\ Onward
        /\ replaced' = replaced \cup {Ns} /\ errors' = errors /\ fatal' = fatal
    BY DEF RestoreSucceeds, Accepted, Restoring
  <1>2. changes' = changes
    BY <1>1 DEF Kept, bounds
  <1>3. GatewayType' /\ Moved
    BY <1>1, <1>2, ReplaceMoves
  <1> QED
    BY <1>1, <1>3, RestoreInv DEF IInv, RunType

(* A namespace that is left alone, blocked or refused.                     *)
LEMMA LeftAloneInv ==
    ASSUME IInv, SkipBlocked \/ RestoreRefused
    PROVE  IInv'
  <1>1. pc = "restore" /\ Kept /\ UNCHANGED gateway /\ Onward
        /\ replaced' = replaced /\ errors' = errors \cup {Ns} /\ fatal' = fatal
    BY DEF SkipBlocked, RestoreRefused
  <1>2. changes' = changes
    BY <1>1 DEF Kept, bounds
  <1>3. GatewayType' /\ Moved
    BY <1>1, <1>2, KeptGateway
  <1>4. errors' \subseteq Namespace /\ fatal' \in BOOLEAN
    BY <1>1, Place DEF IInv, RunType
  <1> QED
    BY <1>1, <1>3, <1>4, RestoreInv

LEMMA UnprovenInv ==
    ASSUME IInv, RestoreUnproven
    PROVE  IInv'
  <1>1. pc = "restore" /\ Kept /\ pc' = "record" /\ UNCHANGED <<pos, replaced, errors>>
        /\ fatal' = TRUE
    BY DEF RestoreUnproven, StopsRun, Stop
  <1>2. changes' = changes
    BY <1>1 DEF Kept, bounds
  <1>3. CASE UNCHANGED gateway
    BY <1>1, <1>2, <1>3, KeptGateway, RestoreInv DEF IInv, RunType
  <1>4. CASE Replace(bodies[Ns])
    <2>1. GatewayType' /\ Moved
      BY <1>1, <1>2, <1>4, ReplaceMoves
    <2> QED
      BY <1>1, <2>1, RestoreInv DEF IInv, RunType
  <1> QED
    BY <1>3, <1>4 DEF RestoreUnproven

LEMMA DamagedInv ==
    ASSUME IInv, RestoreDamaged
    PROVE  IInv'
  <1>1. pc = "restore" /\ Kept /\ pc' = "record" /\ UNCHANGED <<pos, replaced, errors>>
        /\ fatal' = TRUE
    BY DEF RestoreDamaged, StopsRun, Stop, Accepted, Restoring
  <1>2. PICK n \in Namespace : n = Ns
    BY <1>1, Place
  <1>3. PICK lost \in SUBSET KeysIn({n}) :
          rows' = [k \in Key |-> IF k \in lost THEN NoRow ELSE rows[k]]
    BY <1>2 DEF RestoreDamaged
  <1>4. changes' = changes /\ rev' = [rev EXCEPT ![n] = @ + 1]
        /\ UNCHANGED <<docs, trust, outage>>
    BY <1>1, <1>2 DEF Kept, bounds, RestoreDamaged
  <1>5. rows' \in [Key -> AnyRow]
    BY <1>3 DEF IInv, GatewayType, AnyRow
  <1>6. GatewayType'
    BY <1>4, <1>5 DEF IInv, GatewayType
  <1>7. Moves(n)
    BY <1>3, <1>4 DEF Moves, KeysIn
  <1>8. Moved
    BY <1>7 DEF Moved
  <1> QED
    BY <1>1, <1>6, <1>8, RestoreInv DEF IInv, RunType

-----------------------------------------------------------------------------
(* The others.                                                             *)

LEMMA ChangeInv ==
    ASSUME IInv, Change, Moved, docs' \subseteq ApiSpec,
           rows' \in [Key -> AnyRow], rev' \in [Namespace -> Nat], outage' \in BOOLEAN,
           trust' \in [Namespace -> Nat], \A ns \in Namespace : trust'[ns] <= trust[ns] + 1
    PROVE  IInv'
  <1>0. /\ changes \in Nat /\ changes' = changes + 1 /\ changes' \in 0..MaxChanges
        /\ pc \in {"read", "prepare", "restore"}
        /\ UNCHANGED <<disk, pc, confirm, withheld, snap, bodies, blocked, pos, mem,
                       replaced, errors, fatal, runs>>
    <2>1. MaxChanges \in Nat
      BY FullReplaceAssumption, Zenon
    <2>2. changes \in 0..MaxChanges
      BY DEF IInv, GatewayType
    <2> QED
      BY <2>1, <2>2 DEF Change, inputs, prepared
  <1>1. GatewayType'
    <2>1. ASSUME NEW ns \in Namespace PROVE trust'[ns] <= changes'
      <3>1. trust[ns] \in Nat /\ trust'[ns] \in Nat /\ trust[ns] <= changes
            /\ trust'[ns] <= trust[ns] + 1
        BY DEF IInv, GatewayType
      <3> QED
        BY <1>0, <3>1
    <2> QED
      BY <1>0, <2>1 DEF GatewayType
  <1>2. RunType'
    BY <1>0 DEF IInv, RunType
  <1>3. ASSUME NEW ns \in Namespace, Fresh(ns) PROVE Fresh(ns)'
    BY <1>0, <1>3, StaysFresh DEF IInv
  <1>4. SnapInv'
    <2>1. pc = "read" => \A i \in 1..pos - 1 : Fresh(Order[i])'
      <3>1. ASSUME pc = "read", NEW i \in 1..pos - 1 PROVE Fresh(Order[i])'
        <4>1. pos \in 1..Len(Order)
          BY <3>1 DEF IInv, RunInv
        <4>2. Order[i] \in Namespace
          BY <4>1, OrderTypes
        <4>3. Fresh(Order[i])
          BY <3>1 DEF IInv, SnapInv
        <4>4. PICK ns \in Namespace : ns = Order[i]
          BY <4>2
        <4> QED
          BY <1>3, <4>3, <4>4
      <3> QED
        BY <3>1
    <2>2. pc \in {"prepare", "restore"} => \A ns \in Namespace : Fresh(ns)'
      BY <1>3 DEF IInv, SnapInv
    <2> QED
      BY <1>0, <2>1, <2>2 DEF IInv, SnapInv
  <1>5. RunInv'
    BY <1>0, DecisionsStand DEF IInv, RunInv
  <1> QED
    BY <1>1, <1>2, <1>4, <1>5 DEF IInv

LEMMA EditInv ==
    ASSUME IInv, Edit
    PROVE  IInv'
  <1>1. PICK k \in Key, r \in Rows :
          rows' = [rows EXCEPT ![k] = r] /\ rev' = [rev EXCEPT ![NsOf[k]] = @ + 1]
    BY DEF Edit, Bump
  <1>2. Change /\ UNCHANGED <<docs, trust, outage>>
    BY DEF Edit
  <1>3. /\ rows \in [Key -> AnyRow] /\ docs \subseteq ApiSpec /\ rev \in [Namespace -> Nat]
        /\ outage \in BOOLEAN /\ trust \in [Namespace -> Nat]
    BY DEF IInv, GatewayType
  <1>4. r \in AnyRow
    BY FullReplaceAssumption DEF AnyRow
  <1>5. Moves(NsOf[k])
    BY <1>1, <1>2, <1>3 DEF Moves
  <1>6. NsOf[k] \in Namespace
    BY NsOfAssumption
  <1>7. Moved
    BY <1>5, <1>6 DEF Moved
  <1>8. rows' \in [Key -> AnyRow] /\ rev' \in [Namespace -> Nat]
    BY <1>1, <1>3, <1>4, <1>6
  <1> QED
    BY <1>2, <1>3, <1>7, <1>8, ChangeInv

LEMMA SpecOwner ==
    ASSUME NEW d \in ApiSpec
    PROVE  OwnerOf[d] \in Key /\ NsOf[OwnerOf[d]] = SpecNs[d] /\ SpecNs[d] \in Namespace
  BY FullReplaceAssumption

LEMMA ImportInv ==
    ASSUME IInv, ImportSpec
    PROVE  IInv'
  <1>1. PICK d \in ApiSpec :
          /\ docs' = docs \cup {d} /\ rev' = [rev EXCEPT ![SpecNs[d]] = @ + 1]
          /\ rows' = [rows EXCEPT ![OwnerOf[d]] =
                        [Restored EXCEPT !.content = "other", !.spec = d]]
    BY DEF ImportSpec, Bump
  <1>2. Change /\ UNCHANGED <<trust, outage>>
    BY DEF ImportSpec
  <1>3. /\ rows \in [Key -> AnyRow] /\ docs \subseteq ApiSpec /\ rev \in [Namespace -> Nat]
        /\ outage \in BOOLEAN /\ trust \in [Namespace -> Nat]
    BY DEF IInv, GatewayType
  <1>4. [Restored EXCEPT !.content = "other", !.spec = d] \in AnyRow
    BY DEF AnyRow, Restored, Row, Unknown
  <1>5. OwnerOf[d] \in Key /\ NsOf[OwnerOf[d]] = SpecNs[d] /\ SpecNs[d] \in Namespace
    BY SpecOwner
  <1>6. Moves(SpecNs[d])
    BY <1>1, <1>3, <1>5 DEF Moves
  <1>7. Moved
    BY <1>5, <1>6 DEF Moved
  <1>8. rows' \in [Key -> AnyRow] /\ rev' \in [Namespace -> Nat] /\ docs' \subseteq ApiSpec
    BY <1>1, <1>3, <1>4, <1>5
  <1> QED
    BY <1>2, <1>3, <1>7, <1>8, ChangeInv

LEMMA DropInv ==
    ASSUME IInv, DropSpec
    PROVE  IInv'
  <1>1. PICK d \in docs : docs' = docs \ {d} /\ rev' = [rev EXCEPT ![SpecNs[d]] = @ + 1]
    BY DEF DropSpec, Bump
  <1>2. Change /\ UNCHANGED <<rows, trust, outage>>
    BY DEF DropSpec
  <1>3. /\ rows \in [Key -> AnyRow] /\ docs \subseteq ApiSpec /\ rev \in [Namespace -> Nat]
        /\ outage \in BOOLEAN /\ trust \in [Namespace -> Nat]
    BY DEF IInv, GatewayType
  <1>4. SpecNs[d] \in Namespace
    BY <1>3, SpecOwner
  <1>5. Moves(SpecNs[d])
    BY <1>1, <1>2, <1>3 DEF Moves
  <1>6. Moved
    BY <1>4, <1>5 DEF Moved
  <1>7. rev' \in [Namespace -> Nat] /\ docs' \subseteq ApiSpec
    BY <1>1, <1>3, <1>4
  <1> QED
    BY <1>2, <1>3, <1>6, <1>7, ChangeInv

(* Neither trust roots nor reachability are what a token speaks of.        *)
LEMMA SideInv ==
    ASSUME IInv, RotateTrust \/ Outage
    PROVE  IInv'
  <1>1. Change /\ UNCHANGED <<rows, docs, rev>>
    BY DEF RotateTrust, Outage
  <1>2. /\ rows \in [Key -> AnyRow] /\ docs \subseteq ApiSpec /\ rev \in [Namespace -> Nat]
        /\ outage \in BOOLEAN /\ trust \in [Namespace -> Nat]
    BY DEF IInv, GatewayType
  <1>3. Moved
    BY <1>1 DEF Moved
  <1>4. CASE RotateTrust
    <2>1. PICK n \in Namespace : trust' = [trust EXCEPT ![n] = @ + 1]
      BY <1>4 DEF RotateTrust
    <2>2. trust' \in [Namespace -> Nat] /\ \A ns \in Namespace : trust'[ns] <= trust[ns] + 1
      BY <1>2, <2>1
    <2>3. outage' \in BOOLEAN
      BY <1>2, <1>4 DEF RotateTrust
    <2> QED
      BY <1>1, <1>2, <1>3, <2>2, <2>3, ChangeInv
  <1>5. CASE Outage
    <2>1. trust' = trust /\ outage' \in BOOLEAN
      BY <1>2, <1>5 DEF Outage
    <2>2. \A ns \in Namespace : trust'[ns] <= trust[ns] + 1
      BY <1>2, <2>1
    <2> QED
      BY <1>1, <1>2, <1>3, <2>1, <2>2, ChangeInv
  <1> QED
    BY <1>4, <1>5

LEMMA NextInv == IInv /\ [Next]_vars => IInv'
  <1> SUFFICES ASSUME IInv, [Next]_vars PROVE IInv'
    OBVIOUS
  <1>1. disk \in LedgerType /\ mem \in LedgerType
    BY DEF IInv, RunType
  <1>2. CASE UNCHANGED vars
    <2>1. UNCHANGED <<rows, docs, trust, rev, outage, disk, pc, confirm, withheld, snap,
                      bodies, blocked, pos, mem, replaced, errors, fatal, changes, runs>>
      BY <1>2 DEF vars, gateway, inputs, prepared, bounds
    <2>2. GatewayType' /\ RunType'
      BY <2>1 DEF IInv, GatewayType, RunType
    <2>3. \A ns \in Namespace : Fresh(ns)' = Fresh(ns)
      BY <2>1 DEF Fresh, LiveDocs
    <2>4. \A i \in 1..pos - 1 : Fresh(Order[i])' = Fresh(Order[i])
      BY <2>1 DEF Fresh, LiveDocs
    <2>5. SnapInv'
      BY <2>1, <2>3, <2>4 DEF IInv, SnapInv
    <2>6. RunInv'
      BY <2>1, DecisionsStand DEF IInv, RunInv
    <2> QED
      BY <2>2, <2>5, <2>6 DEF IInv
  <1>3. CASE Refuse \/ PrepareRefused \/ Crash
    BY <1>1, <1>3, OverInv DEF Refuse, PrepareRefused, Crash
  <1>4. CASE Record
    <2>1. disk' = RecordFullReplace(mem, replaced, Declared) /\ Over
      BY <1>4 DEF Record
    <2>2. Declared \subseteq Key
      BY FullReplaceAssumption
    <2>3. disk' \in LedgerType
      BY <1>1, <2>1, <2>2 DEF RecordFullReplace, LedgerType
    <2> QED
      BY <2>1, <2>3, OverInv
  <1>5. CASE Rest
    BY <1>2, <1>5 DEF Rest
  <1>6. CASE Restore
    BY <1>6, SucceedsInv, LeftAloneInv, UnprovenInv, DamagedInv DEF Restore
  <1>7. CASE Others
    BY <1>7, EditInv, ImportInv, DropInv, SideInv DEF Others
  <1> QED
    BY <1>2, <1>3, <1>4, <1>5, <1>6, <1>7, StartInv, ReadInv, PrepareInv DEF Next

LEMMA Inductive == Specification => []IInv
  BY InitInv, NextInv, PTL DEF Specification

-----------------------------------------------------------------------------

(* A type invariant of the run as prepare_apply and apply_prepared keep it:*)
(* rows, documents, revisions and both ledgers are what they should be.    *)
THEOREM ReplacementTypeCorrect == Specification => []TypeOK
  BY Inductive, Types, PTL

(* Where a restore is accepted, the snapshot is what the gateway holds.    *)
LEMMA AcceptedIsFresh ==
    ASSUME IInv, Accepted
    PROVE  /\ pc = "restore" /\ Ns \in Namespace \ blocked
           /\ snap[Ns].rows \in [KeysIn({Ns}) -> AnyRow]
           /\ \A k \in KeysIn({Ns}) : rows[k] = snap[Ns].rows[k]
           /\ LiveDocs(Ns) = snap[Ns].docs
  <1>1. pc = "restore" /\ Ns \notin blocked /\ snap[Ns].rev = rev[Ns]
    BY DEF Accepted, Restoring, IfMatch
  <1>2. PICK n \in Namespace : n = Ns
    BY <1>1, Place
  <1>3. Fresh(n)
    BY <1>1 DEF IInv, SnapInv
  <1> QED
    BY <1>1, <1>2, <1>3 DEF Fresh

LEMMA OnlySuccessReplaces ==
    ASSUME [Next]_vars
    PROVE  \/ replaced' \subseteq replaced
           \/ RestoreSucceeds
  <1> USE DEF Over
  <1>1. CASE UNCHANGED vars
    BY <1>1 DEF vars
  <1>2. CASE Start \/ ReadNamespace \/ Refuse \/ Prepare \/ PrepareRefused
    BY <1>2 DEF Start, ReadNamespace, Refuse, Prepare, PrepareRefused
  <1>3. CASE Restore
    BY <1>3 DEF Restore, SkipBlocked, RestoreRefused, RestoreUnproven, RestoreDamaged,
                StopsRun, Stop
  <1>4. CASE Record \/ Crash \/ Rest
    BY <1>1, <1>4 DEF Record, Crash, Rest
  <1>5. CASE Others
    BY <1>5 DEF Others, Edit, ImportSpec, DropSpec, RotateTrust, Outage, Change
  <1> QED
    BY <1>1, <1>2, <1>3, <1>4, <1>5 DEF Next

(* The token of the run's one backup fences the restore (post_restore): no *)
(* edit, import or deletion made in between is overwritten unread.         *)
THEOREM NoUpdateIsLost == Specification => NoLostUpdate
  <1> DEFINE Unlost == \A ns \in replaced' \ replaced :
                 Snapshot(ns).rows = snap[ns].rows /\ LiveDocs(ns) = snap[ns].docs
  <1>1. ASSUME IInv, [Next]_vars PROVE Unlost
    <2>1. CASE replaced' \subseteq replaced
      BY <2>1
    <2>2. CASE RestoreSucceeds
      <3>1. Accepted /\ replaced' = replaced \cup {Ns}
        BY <2>2 DEF RestoreSucceeds
      <3>2. PICK n \in Namespace : n = Ns
        BY <1>1, <3>1, AcceptedIsFresh
      <3>3. /\ snap[n].rows \in [KeysIn({n}) -> AnyRow]
            /\ \A k \in KeysIn({n}) : rows[k] = snap[n].rows[k]
            /\ LiveDocs(n) = snap[n].docs
        BY <1>1, <3>1, <3>2, AcceptedIsFresh
      <3>4. Snapshot(n).rows = [k \in KeysIn({n}) |-> rows[k]]
        BY DEF Snapshot
      <3>5. Snapshot(n).rows = snap[n].rows
        BY <3>3, <3>4
      <3> QED
        BY <3>1, <3>2, <3>3, <3>5
    <2> QED
      BY <1>1, <2>1, <2>2, OnlySuccessReplaces
  <1>2. IInv /\ [Next]_vars => [Unlost]_vars
    BY <1>1
  <1> QED
    BY <1>2, Inductive, PTL DEF Specification, NoLostUpdate

-----------------------------------------------------------------------------
(* The parts of RestoreIsWhole.                                            *)

LEMMA FirstErrors == IInv => ErrorsComeFirst
  <1> SUFFICES ASSUME IInv, replaced # {}, NEW ns \in Namespace \ blocked
               PROVE  (confirm \/ GraphProvable(snap[ns])) /\ ~Unrepresentable(ns, snap[ns])
    BY DEF ErrorsComeFirst
  <1>1. blocked = Blocked /\ ~RunWideError
    BY DEF IInv, RunInv
  <1>2. ns \notin withheld /\ ~SpecConflict(ns, snap[ns])
    BY <1>1 DEF Blocked
  <1> QED
    BY <1>1, <1>2 DEF RunWideError

(* What goes out for a namespace that is not blocked: every row the backup *)
(* found tagged goes back as it was, and no row's unknown fields change.   *)
LEMMA BodyKeeps ==
    ASSUME IInv, pc = "restore", NEW n \in Namespace \ blocked, NEW k \in KeysIn({n}),
           snap[n].rows \in [KeysIn({n}) -> AnyRow], snap[n].rows[k] # NoRow
    PROVE  /\ ~confirm /\ snap[n].rows[k].spec # NoSpec
                 => bodies[n].rows[k] = snap[n].rows[k]
           /\ bodies[n].rows[k] # NoRow
                 => bodies[n].rows[k].unknown = snap[n].rows[k].unknown
  <1> DEFINE s == snap[n]
             r == s.rows[k]
  <1>1. bodies = Prepared /\ blocked = Blocked /\ ~RunWideError
    BY DEF IInv, RunInv
  <1>2. bodies[n].rows = [j \in KeysIn({n}) |->
                            IF j \in DeclaredIn(n) THEN Restored
                            ELSE IF j \in Carried(n, s)
                                 THEN [s.rows[j] EXCEPT !.unknown =
                                         IF @ = "nested" THEN "none" ELSE @]
                                 ELSE NoRow]
    BY <1>1 DEF Prepared, Body
  <1>3. n \notin withheld /\ ~SpecConflict(n, s) /\ ~UnmodeledField(n, s)
    BY <1>1 DEF Blocked
  <1>4. ~Unrepresentable(n, s)
    BY <1>1, <1>3 DEF RunWideError
  <1>5. r \in Row /\ k \in Live(s)
    BY DEF AnyRow, Live
  <1>6. CASE k \in DeclaredIn(n)
    <2>1. r.unknown \notin {"hidden", "top", "nested"}
      BY <1>3, <1>4, <1>5, <1>6 DEF Unrepresentable, UnmodeledField
    <2>2. r.unknown = "none"
      BY <1>5, <2>1 DEF Row, Unknown
    <2>3. bodies[n].rows[k] = Restored
      BY <1>2, <1>6
    <2>4. ~(r.spec # NoSpec)
      BY <1>3, <1>5, <1>6 DEF SpecConflict, Tagged
    <2> QED
      BY <2>2, <2>3, <2>4 DEF Restored
  <1>7. CASE k \notin DeclaredIn(n) /\ k \in Carried(n, s)
    <2>1. r.unknown # "nested"
      BY <1>3, <1>7 DEF UnmodeledField
    <2>2. bodies[n].rows[k] = [r EXCEPT !.unknown = r.unknown]
      BY <1>2, <1>7, <2>1
    <2>3. [r EXCEPT !.unknown = r.unknown] = r
      BY <1>5 DEF Row
    <2> QED
      BY <2>2, <2>3
  <1>8. CASE k \notin DeclaredIn(n) /\ k \notin Carried(n, s)
    <2>1. bodies[n].rows[k] = NoRow
      BY <1>2, <1>8
    <2>2. ~(~confirm /\ r.spec # NoSpec)
      BY <1>5, <1>8 DEF Carried, Tagged
    <2> QED
      BY <2>1, <2>2
  <1> QED
    BY <1>6, <1>7, <1>8

(* The steps of a run that change the gateway.                             *)
LEMMA OnlyRestoresWrite ==
    ASSUME IInv, [Next]_vars, Wrote
    PROVE  Restore
  <1>1. pc = "restore" /\ rev' # rev /\ changes' = changes
    BY DEF Wrote
  <1>2. CASE UNCHANGED vars
    BY <1>1, <1>2 DEF vars, gateway
  <1>3. CASE Start \/ ReadNamespace \/ Refuse \/ Prepare \/ PrepareRefused \/ Record \/ Rest
    BY <1>1, <1>3 DEF Start, ReadNamespace, Refuse, Prepare, PrepareRefused, Record, Rest
  <1>4. CASE Crash
    BY <1>1, <1>4 DEF Crash, Over, gateway
  <1>5. CASE Others
    <2>1. Change
      BY <1>5 DEF Others, Edit, ImportSpec, DropSpec, RotateTrust, Outage
    <2>2. changes' = changes + 1 /\ changes \in Nat
      BY <2>1 DEF Change, IInv, GatewayType
    <2> QED
      BY <1>1, <2>2
  <1> QED
    BY <1>2, <1>3, <1>4, <1>5 DEF Next

(* An accepted restore is the atomic replacement: its body, prepared from  *)
(* the snapshot, is what the gateway's own rows and documents make it.     *)
LEMMA AcceptedIsAtomic ==
    ASSUME IInv, Accepted, Replace(bodies[Ns]), UNCHANGED <<changes, confirm>>,
           replaced' \in {replaced, replaced \cup {Ns}}
    PROVE  \E ns \in Namespace : Atomic!Replace(ns)
  <1>1. PICK n \in Namespace \ blocked : n = Ns
    BY AcceptedIsFresh
  <1>2. /\ pc = "restore" /\ snap[n].rows \in [KeysIn({n}) -> AnyRow]
        /\ \A k \in KeysIn({n}) : rows[k] = snap[n].rows[k]
        /\ LiveDocs(n) = snap[n].docs
    BY <1>1, AcceptedIsFresh
  <1>3. bodies[n] = Body(n, snap[n]) /\ blocked = Blocked /\ ~RunWideError
    BY <1>2 DEF IInv, RunInv, Prepared
  <1>4. n \notin replaced /\ replaced' \in {replaced, replaced \cup {n}}
    BY <1>1, <1>2, Place
  <1>5. /\ ~SpecConflict(n, snap[n]) /\ ~UnmodeledField(n, snap[n])
        /\ ~Unrepresentable(n, snap[n])
    BY <1>3 DEF Blocked, RunWideError
  <1>6. /\ rows' = [k \in Key |-> IF NsOf[k] = n THEN bodies[n].rows[k] ELSE rows[k]]
        /\ docs' = (docs \ LiveDocs(n)) \cup bodies[n].docs
    BY <1>1 DEF Replace
  <1>7. trust' = trust
    BY <1>2, ReplaceMoves
  <1>8. ASSUME NEW k \in Declared \cap KeysIn({n}), rows[k] # NoRow
        PROVE  rows[k].spec = NoSpec /\ rows[k].unknown = "none"
    <2>1. k \in DeclaredIn(n) /\ k \in Live(snap[n]) /\ rows[k] = snap[n].rows[k]
      BY <1>2, <1>8 DEF DeclaredIn, Live
    <2>2. rows[k] \in Row
      BY <1>2, <1>8, <2>1 DEF AnyRow
    <2>3. rows[k].spec = NoSpec
      BY <1>5, <2>1 DEF SpecConflict, Tagged
    <2>4. rows[k].unknown \notin {"hidden", "top", "nested"}
      BY <1>5, <2>1 DEF Unrepresentable, UnmodeledField
    <2> QED
      BY <2>2, <2>3, <2>4 DEF Row, Unknown
  <1>9. ASSUME NEW k \in Key, NsOf[k] = n
        PROVE  bodies[n].rows[k] = IF Atomic!SpecOwned(k) /\ ~confirm THEN rows[k]
                                   ELSE IF k \in Declared THEN Restored ELSE NoRow
    <2> DEFINE s == snap[n]
    <2>1. k \in KeysIn({n}) /\ rows[k] = s.rows[k] /\ DOMAIN s.rows = KeysIn({n})
      BY <1>2, <1>9 DEF KeysIn
    <2>2. bodies[n].rows[k] =
              IF k \in DeclaredIn(n) THEN Restored
              ELSE IF k \in Carried(n, s)
                   THEN [s.rows[k] EXCEPT !.unknown = IF @ = "nested" THEN "none" ELSE @]
                   ELSE NoRow
      BY <1>3, <2>1 DEF Body
    <2>3. CASE Atomic!SpecOwned(k) /\ ~confirm
      <3>1. k \in Tagged(s) /\ k \in Carried(n, s)
        BY <2>1, <2>3 DEF Atomic!SpecOwned, Tagged, Live, Carried
      <3>2. k \notin DeclaredIn(n)
        BY <1>5, <3>1 DEF SpecConflict
      <3>3. bodies[n].rows[k] = rows[k]
        BY <1>2, <2>1, <2>3, <3>2, BodyKeeps DEF Atomic!SpecOwned
      <3> QED
        BY <2>3, <3>3
    <2>4. CASE ~(Atomic!SpecOwned(k) /\ ~confirm)
      <3>1. k \notin Carried(n, s)
        BY <2>1, <2>4 DEF Atomic!SpecOwned, Tagged, Live, Carried
      <3>2. k \in DeclaredIn(n) <=> k \in Declared
        BY <2>1 DEF DeclaredIn
      <3> QED
        BY <2>2, <2>4, <3>1, <3>2
    <2> QED
      BY <2>3, <2>4
  <1>10. rows' = [k \in Key |->
                   IF NsOf[k] # n \/ (Atomic!SpecOwned(k) /\ ~confirm) THEN rows[k]
                   ELSE IF k \in Declared THEN Restored ELSE NoRow]
    BY <1>6, <1>9
  <1>11. docs' = IF confirm THEN {d \in docs : SpecNs[d] # n} ELSE docs
    <2>1. bodies[n].docs = IF confirm THEN {} ELSE LiveDocs(n)
      BY <1>2, <1>3 DEF Body
    <2> QED
      BY <1>6, <2>1 DEF LiveDocs
  <1>12. Restored = Atomic!Wanted
    BY DEF Restored, Atomic!Wanted
  <1>13. Atomic!Replace(n)
    BY <1>4, <1>7, <1>8, <1>10, <1>11, <1>12
    DEF Atomic!Replace, Atomic!SpecOwned, Atomic!KeysIn, KeysIn
  <1> QED
    BY <1>13

LEMMA DamagedIsAtomic ==
    ASSUME IInv, RestoreDamaged
    PROVE  \E ns \in Namespace : Atomic!Damage(ns)
  <1>1. PICK n \in Namespace : n = Ns
    BY Place DEF RestoreDamaged, Accepted, Restoring
  <1>2. n \notin replaced
    BY <1>1, Place DEF RestoreDamaged, Accepted, Restoring
  <1>3. /\ \E lost \in SUBSET KeysIn({n}) :
              rows' = [k \in Key |-> IF k \in lost THEN NoRow ELSE rows[k]]
        /\ UNCHANGED <<docs, trust, changes, confirm, replaced>>
    BY <1>1 DEF RestoreDamaged, StopsRun, Stop, Kept, inputs, bounds
  <1>4. Atomic!Damage(n)
    BY <1>2, <1>3 DEF Atomic!Damage, Atomic!KeysIn, KeysIn
  <1> QED
    BY <1>4

(* Every step of a run, and of the others, is one of the atomic            *)
(* specification's, or one it does not see.                                *)
LEMMA StepIsAtomic == IInv /\ [Next]_vars => [Atomic!Next]_Atomic!vars
  <1> SUFFICES ASSUME IInv, [Next]_vars PROVE [Atomic!Next]_Atomic!vars
    OBVIOUS
  <1> DEFINE Unseen == UNCHANGED <<rows, docs, trust, changes, confirm, replaced>>
  <1>1. ASSUME Unseen PROVE [Atomic!Next]_Atomic!vars
    BY <1>1 DEF Atomic!vars
  <1>2. CASE UNCHANGED vars \/ Rest
    BY <1>1, <1>2 DEF Rest, vars, gateway, inputs, bounds
  <1>3. CASE Start
    <2>1. replaced = {}
      BY <1>3 DEF Start, IInv, RunInv
    <2>2. Atomic!Turn
      BY <1>3, <2>1 DEF Start, gateway, Atomic!Turn
    <2> QED
      BY <2>2 DEF Atomic!Next
  <1>4. ASSUME Over PROVE [Atomic!Next]_Atomic!vars
    <2>1. Atomic!Turn
      BY <1>4 DEF Over, gateway, bounds, Atomic!Turn
    <2> QED
      BY <2>1 DEF Atomic!Next
  <1>5. CASE Refuse \/ PrepareRefused \/ Record \/ Crash
    BY <1>4, <1>5 DEF Refuse, PrepareRefused, Record, Crash
  <1>6. CASE ReadNamespace
    <2>1. Unseen \/ Over
      BY <1>6 DEF ReadNamespace, Quiet, gateway, inputs, bounds
    <2> QED
      BY <1>1, <1>4, <2>1
  <1>7. CASE Prepare
    BY <1>1, <1>7 DEF Prepare, gateway, inputs, bounds
  <1>8. CASE SkipBlocked \/ RestoreRefused
    BY <1>1, <1>8 DEF SkipBlocked, RestoreRefused, Kept, gateway, inputs, bounds
  <1>9. CASE RestoreSucceeds
    <2>1. /\ Accepted /\ Replace(bodies[Ns]) /\ UNCHANGED <<changes, confirm>>
          /\ replaced' = replaced \cup {Ns}
      BY <1>9 DEF RestoreSucceeds, Kept, inputs, bounds
    <2> QED
      BY <2>1, AcceptedIsAtomic DEF Atomic!Next
  <1>10. CASE RestoreUnproven
    <2>1. UNCHANGED <<changes, confirm, replaced>>
      BY <1>10 DEF RestoreUnproven, StopsRun, Stop, Kept, inputs, bounds
    <2>2. CASE Accepted /\ Replace(bodies[Ns])
      BY <2>1, <2>2, AcceptedIsAtomic DEF Atomic!Next
    <2>3. CASE UNCHANGED gateway
      BY <1>1, <2>1, <2>3 DEF gateway
    <2> QED
      BY <1>10, <2>2, <2>3 DEF RestoreUnproven
  <1>11. CASE RestoreDamaged
    BY <1>11, DamagedIsAtomic DEF Atomic!Next
  <1>12. CASE Others
    <2>1. Change
      BY <1>12 DEF Others, Edit, ImportSpec, DropSpec, RotateTrust, Outage
    <2>2. Atomic!Write
      BY <2>1 DEF Change, inputs, Atomic!Write
    <2> QED
      BY <2>2 DEF Atomic!Next
  <1> QED
    BY <1>2, <1>3, <1>5, <1>6, <1>7, <1>8, <1>9, <1>10, <1>11, <1>12 DEF Next, Restore

(* The detailed replacement implements the atomic one: whatever happens    *)
(* between the backups and the restores of apply_prepared, nobody can tell *)
(* a replacement from one that reads and writes its namespace in one step. *)
THEOREM ReplacementIsAtomic == Specification => ReplacesAtomically
  <1>1. Init => Atomic!Init
    BY DEF Init, Atomic!Init
  <1> QED
    BY <1>1, StepIsAtomic, Inductive, PTL DEF Specification, ReplacesAtomically, Atomic!Spec

LEMMA StopStep ==
    ASSUME IInv, [Next]_vars, Wrote, replaced' = replaced
    PROVE  pc' = "record"
  <1>1. Ns \notin replaced
    BY Place DEF Wrote
  <1>2. pc = "restore" /\ rev' # rev /\ changes' = changes
    BY DEF Wrote
  <1>3. CASE RestoreSucceeds
    BY <1>1, <1>3 DEF RestoreSucceeds
  <1>4. CASE SkipBlocked \/ RestoreRefused
    BY <1>2, <1>4 DEF SkipBlocked, RestoreRefused, gateway
  <1>5. CASE RestoreUnproven \/ RestoreDamaged
    BY <1>5 DEF RestoreUnproven, RestoreDamaged, StopsRun, Stop
  <1> QED
    BY <1>3, <1>4, <1>5, OnlyRestoresWrite DEF Restore

RecordedOnly ==
    /\ disk'.managed \ disk.managed \subseteq DeclaredOf(replaced)
    /\ \A k \in disk.managed \ disk'.managed :
          NsOf[k] \in replaced \/ snap[NsOf[k]].rows[k] = NoRow

LEMMA RecordStep ==
    ASSUME IInv, [Next]_vars
    PROVE  RecordedOnly
  <1>1. disk \in LedgerType /\ (pc # "idle" => mem = disk)
    BY DEF IInv, RunType, RunInv
  <1>2. CASE disk' = disk
    BY <1>2 DEF RecordedOnly
  <1>3. CASE Prepare
    <2> DEFINE read == UNION {Live(snap[ns]) : ns \in Namespace}
    <2>1. /\ pc = "prepare" /\ mem = disk
          /\ disk' = ReconcileAbsent(ForgetPending(disk, Namespace), Declared, read, Namespace)
      BY <1>1, <1>3 DEF Prepare
    <2> HIDE DEF read
    <2>2. disk'.managed = {k \in disk.managed : NsOf[k] \in Namespace => k \in Declared \cup read}
      BY <1>1, <2>1 DEF ReconcileAbsent, ForgetPending, LedgerType
    <2>3. ASSUME NEW k \in disk.managed \ disk'.managed
          PROVE  snap[NsOf[k]].rows[k] = NoRow
      <3>1. k \in Key
        BY <1>1 DEF LedgerType
      <3>2. PICK n \in Namespace : n = NsOf[k]
        BY <3>1, NsOfAssumption
      <3>3. snap[n].rows \in [KeysIn({n}) -> AnyRow]
        BY <2>1 DEF IInv, SnapInv, Fresh
      <3>4. k \in DOMAIN snap[n].rows
        BY <3>1, <3>2, <3>3 DEF KeysIn
      <3>5. k \notin Live(snap[n])
        BY <2>2, <2>3, <3>2 DEF read
      <3> QED
        BY <3>2, <3>4, <3>5 DEF Live
    <2> QED
      BY <2>2, <2>3 DEF RecordedOnly
  <1>4. CASE Record
    <2>1. disk' = RecordFullReplace(disk, replaced, Declared)
      BY <1>1, <1>4 DEF Record
    <2>2. disk'.managed = (disk.managed \ KeysIn(replaced)) \cup (Declared \cap KeysIn(replaced))
      BY <2>1 DEF RecordFullReplace
    <2> QED
      BY <2>2 DEF RecordedOnly, DeclaredOf, KeysIn
  <1>5. disk' = disk \/ Prepare \/ Record
    <2>1. CASE UNCHANGED vars \/ Rest
      BY <2>1 DEF Rest, vars
    <2>2. CASE Start \/ ReadNamespace \/ Refuse \/ PrepareRefused \/ Crash
      BY <2>2 DEF Start, ReadNamespace, Quiet, Refuse, PrepareRefused, Crash
    <2>3. CASE Restore
      BY <2>3 DEF Restore, SkipBlocked, RestoreRefused, RestoreSucceeds, RestoreUnproven,
                  RestoreDamaged, Kept
    <2>4. CASE Others
      BY <2>4 DEF Others, Edit, ImportSpec, DropSpec, RotateTrust, Outage, Change
    <2> QED
      BY <2>1, <2>2, <2>3, <2>4 DEF Next
  <1> QED
    BY <1>2, <1>3, <1>4, <1>5

(* Every part of RestoreIsWhole, for every ledger, order of namespaces and *)
(* set of documents: what prepare_apply decides from its snapshots stands  *)
(* until the last restore, and no restore lands on anything else.          *)
THEOREM ReplacementIsWhole == Specification => RestoreIsWhole
  <1> DEFINE Stopped == Wrote /\ replaced' = replaced => pc' = "record"
  <1>1. IInv => TypeOK /\ ErrorsComeFirst
    BY Types, FirstErrors
  <1>2. IInv /\ [Next]_vars => Stopped
    BY StopStep
  <1>3. IInv /\ [Next]_vars => RecordedOnly
    BY RecordStep
  <1>4. Specification => [](TypeOK /\ ErrorsComeFirst)
    BY <1>1, Inductive, PTL
  <1>5. Specification => UnprovenStops
    BY <1>2, Inductive, PTL DEF Specification, UnprovenStops
  <1>6. Specification => OnlyRestoredAreRecorded
    BY <1>3, Inductive, PTL DEF Specification, OnlyRestoredAreRecorded, RecordedOnly
  <1> QED
    BY <1>4, <1>5, <1>6, ReplacementIsAtomic DEF RestoreIsWhole

-----------------------------------------------------------------------------
(* Plugins and the proxies that name them, in an incremental run: for any  *)
(* scopes, associations, declarations and writes of others.                *)
CONSTANTS Plugin, Proxy, Gone, Global, Group, Scopes, MaxOthers, MaxFaults
VARIABLES scope, assoc, pver, xver, enforces, wantScope, wantAssoc, planScope, planAssoc,
          updates, proxies, deletes, turn, cur, tag, written, touched, failedPlugins,
          writesFailed, stale, seen, others, faults
A == INSTANCE PluginAssociations WITH
    MaxChanges <- MaxOthers, pc <- turn, changes <- others

PlannedUpdates == {p \in Plugin : wantScope[p] \notin {Gone, planScope[p]}}
PlannedProxies == {x \in Proxy : A!Names(x, wantAssoc) # A!Names(x, planAssoc)}
PlannedDeletes == {p \in Plugin : wantScope[p] = Gone /\ planScope[p] # Gone}

(* What is declared and what was planned from are states of a gateway.     *)
GivenInv ==
    /\ wantScope \in [Plugin -> A!Scope] /\ planScope \in [Plugin -> A!Scope]
    /\ wantAssoc \subseteq Plugin \X Proxy /\ planAssoc \subseteq Plugin \X Proxy
    /\ A!Coherent(wantScope, wantAssoc) /\ A!Coherent(planScope, planAssoc)

(* A proxy names only plugins that may be attached to it.                  *)
GatewayInv ==
    /\ scope \in [Plugin -> A!Scope] /\ assoc \subseteq Plugin \X Proxy
    /\ pver \in [Plugin -> Nat] /\ xver \in [Proxy -> Nat] /\ enforces \in BOOLEAN
    /\ \A p \in Plugin, x \in Proxy : <<p, x>> \in assoc => A!Attachable(p, x)

AssocRunInv ==
    /\ A!TypeOK
    /\ updates \subseteq PlannedUpdates /\ proxies \subseteq PlannedProxies
    /\ deletes \subseteq PlannedDeletes
    /\ turn # "next" => cur \in updates \cup proxies \cup deletes
    /\ turn = "create" => cur \in updates /\ planScope[cur] = Gone
    /\ turn \in {"read", "reread", "write"} /\ cur \in updates => planScope[cur] # Gone
    /\ turn = "reread" => cur \in updates \cup deletes
    /\ \A p \in written : wantScope[p] \notin {Gone, Group}

(* What the writer holds: a re-read without strangers, and a tag that is   *)
(* worth the proxy as planned.                                             *)
WriteInv ==
    /\ turn = "write" /\ cur \in Plugin /\ (cur \in deletes \/ A!Retargets(cur))
          => A!Of(cur, seen) \subseteq A!Planned(cur) \cup A!Keeps(cur)
    /\ turn = "write" /\ cur \in Proxy
          => tag <= xver[cur] /\ (tag = xver[cur] => A!ProxyAsPlanned(cur))

(* The associations an undisturbed run has made by now.                    *)
ByNow(p, x) ==
    IF x \notin proxies \/ (p \in PlannedUpdates \ updates /\ wantScope[p] # Group)
    THEN <<p, x>> \in wantAssoc ELSE <<p, x>> \in planAssoc
Calm == others = 0 /\ faults = 0
CalmShape ==
    /\ ~stale /\ ~writesFailed /\ failedPlugins = {}
    /\ updates # {} => proxies = PlannedProxies
    /\ updates \cup proxies # {} => deletes = PlannedDeletes
    /\ cur \in proxies => updates = {}
    /\ cur \in deletes => updates \cup proxies = {}
    /\ \A p \in PlannedUpdates \ updates : wantScope[p] = Group \/ p \in written
CalmGateway ==
    /\ \A p \in Plugin :
          scope[p] = IF p \in updates \cup deletes THEN planScope[p] ELSE wantScope[p]
    /\ \A p \in Plugin, x \in Proxy : <<p, x>> \in assoc <=> ByNow(p, x)
    /\ turn = "reread" => tag = pver[cur]
    /\ turn = "write" => tag = IF cur \in Plugin THEN pver[cur] ELSE xver[cur]
CalmInv == Calm => CalmShape /\ CalmGateway

AssocInv == GivenInv /\ GatewayInv /\ AssocRunInv /\ WriteInv /\ CalmInv
-----------------------------------------------------------------------------
(* The gateway's own steps.                                                *)

LEMMA KeptIs ==
    ASSUME A!AssociationsAssumption, NEW p, NEW s \in A!Scope, NEW as
    PROVE  /\ s = Group => A!Kept(p, s, as) = A!Of(p, as)
           /\ s \in Proxy => A!Kept(p, s, as) = {s}
           /\ s \in {Gone, Global} => A!Kept(p, s, as) = {}
           /\ A!Kept(p, s, as) \subseteq Proxy
  <1>0. Group \notin Proxy /\ Gone \notin Proxy /\ Global \notin Proxy
        /\ Group # Gone /\ Group # Global
    BY DEF A!AssociationsAssumption
  <1>1. s = Group => A!Kept(p, s, as) = A!Of(p, as)
    BY <1>0, Zenon DEF A!Kept
  <1>2. s \in Proxy => A!Kept(p, s, as) = {s}
    BY <1>0, Zenon DEF A!Kept
  <1>3. s \in {Gone, Global} => A!Kept(p, s, as) = {}
    BY <1>0, Zenon DEF A!Kept
  <1>. QED
    BY <1>1, <1>2, <1>3 DEF A!Scope, A!Of

LEMMA RescopeIs ==
    ASSUME A!AssociationsAssumption, GatewayInv, NEW p \in Plugin, NEW s \in A!Scope, A!Rescope(p, s)
    PROVE  /\ GatewayInv'
           /\ \A q \in Plugin : scope'[q] = IF q = p THEN s ELSE scope[q]
           /\ \A q \in Plugin, x \in Proxy :
                 <<q, x>> \in assoc' <=> IF q = p THEN x \in A!Kept(p, s, assoc)
                                                  ELSE <<q, x>> \in assoc
           /\ \A x \in Proxy :
                 /\ xver'[x] >= xver[x]
                 /\ xver'[x] = xver[x] => A!Names(x, assoc') = A!Names(x, assoc)
           /\ enforces' = enforces
  <1>. DEFINE k == A!Kept(p, s, assoc)
  <1>1. k \subseteq Proxy /\ (s = Group => k = A!Of(p, assoc)) /\ (s \in Proxy => k = {s})
        /\ (s \in {Gone, Global} => k = {})
    BY KeptIs
  <1>2. /\ scope' = [scope EXCEPT ![p] = s] /\ pver' = [pver EXCEPT ![p] = @ + 1]
        /\ assoc' = {a \in assoc : a[1] # p} \cup ({p} \X k)
        /\ xver' = [x \in Proxy |-> IF (x \in A!Of(p, assoc)) # (x \in k)
                                    THEN xver[x] + 1 ELSE xver[x]]
        /\ enforces' = enforces
    BY DEF A!Rescope
  <1>. HIDE DEF k
  <1>3. \A q \in Plugin : scope'[q] = IF q = p THEN s ELSE scope[q]
    BY <1>2 DEF GatewayInv
  <1>4. ASSUME NEW q \in Plugin, NEW x \in Proxy
        PROVE  <<q, x>> \in assoc' <=> IF q = p THEN x \in k ELSE <<q, x>> \in assoc
    <2>1. <<q, x>>[1] = q
      OBVIOUS
    <2>2. <<q, x>> \in {a \in assoc : a[1] # p} <=> <<q, x>> \in assoc /\ q # p
      BY <2>1
    <2>3. <<q, x>> \in ({p} \X k) <=> q = p /\ x \in k
      OBVIOUS
    <2>. QED
      BY <1>2, <2>2, <2>3
  <1>5. assoc' \subseteq Plugin \X Proxy
    BY <1>1, <1>2 DEF GatewayInv
  <1>6. ASSUME NEW x \in Proxy
        PROVE  /\ xver'[x] \in Nat /\ xver'[x] >= xver[x]
               /\ xver'[x] = xver[x] => A!Names(x, assoc') = A!Names(x, assoc)
    <2>1. xver[x] \in Nat
      BY DEF GatewayInv
    <2>2. CASE (x \in A!Of(p, assoc)) # (x \in k)
      <3>1. xver'[x] = xver[x] + 1
        BY <1>2, <2>2
      <3>. QED
        BY <2>1, <3>1
    <2>3. CASE (x \in A!Of(p, assoc)) = (x \in k)
      <3>1. xver'[x] = xver[x]
        BY <1>2, <2>3
      <3>2. ASSUME NEW q \in Plugin PROVE <<q, x>> \in assoc' <=> <<q, x>> \in assoc
        BY <1>4, <2>3 DEF A!Of
      <3>. QED
        BY <2>1, <3>1, <3>2 DEF A!Names
    <2>. QED
      BY <2>2, <2>3
  <1>7. xver' \in [Proxy -> Nat]
    <2>1. xver' = [x \in Proxy |-> xver'[x]]
      BY <1>2
    <2>. QED
      BY <1>6, <2>1
  <1>8. pver' \in [Plugin -> Nat]
    <2>1. pver[p] + 1 \in Nat
      BY DEF GatewayInv
    <2>. QED
      BY <1>2, <2>1 DEF GatewayInv
  <1>9. ASSUME NEW q \in Plugin, NEW x \in Proxy, <<q, x>> \in assoc'
        PROVE  A!Attachable(q, x)'
    <2>1. CASE q # p
      BY <1>3, <1>4, <1>9, <2>1 DEF GatewayInv, A!Attachable
    <2>2. CASE q = p
      <3>1. x \in k /\ scope'[q] = s
        BY <1>3, <1>4, <1>9, <2>2
      <3>2. s = Group \/ s = x
        BY <1>1, <3>1 DEF A!Scope
      <3>. QED
        BY <3>1, <3>2 DEF A!Attachable
    <2>. QED
      BY <2>1, <2>2
  <1>10. scope' \in [Plugin -> A!Scope]
    BY <1>2 DEF GatewayInv
  <1>11. GatewayInv'
    BY <1>2, <1>5, <1>7, <1>8, <1>9, <1>10 DEF GatewayInv
  <1>. QED
    BY <1>2, <1>3, <1>4, <1>6, <1>11 DEF k

LEMMA RenameIs ==
    ASSUME GatewayInv, NEW x \in Proxy, NEW ps \in SUBSET Plugin,
           \A p \in ps : A!Attachable(p, x), A!Rename(x, ps)
    PROVE  /\ GatewayInv' /\ scope' = scope /\ enforces' = enforces
           /\ \A q \in Plugin, y \in Proxy :
                 <<q, y>> \in assoc' <=> IF y = x THEN q \in ps ELSE <<q, y>> \in assoc
           /\ \A y \in Proxy :
                 /\ xver'[y] >= xver[y]
                 /\ xver'[y] = xver[y] => A!Names(y, assoc') = A!Names(y, assoc)
  <1>1. /\ assoc' = {a \in assoc : a[2] # x} \cup (ps \X {x})
        /\ xver' = [xver EXCEPT ![x] = @ + 1]
        /\ scope' = scope /\ pver' = pver /\ enforces' = enforces
    BY DEF A!Rename
  <1>2. ASSUME NEW q \in Plugin, NEW y \in Proxy
        PROVE  <<q, y>> \in assoc' <=> IF y = x THEN q \in ps ELSE <<q, y>> \in assoc
    <2>1. <<q, y>>[2] = y
      OBVIOUS
    <2>2. <<q, y>> \in {a \in assoc : a[2] # x} <=> <<q, y>> \in assoc /\ y # x
      BY <2>1
    <2>3. <<q, y>> \in (ps \X {x}) <=> q \in ps /\ y = x
      OBVIOUS
    <2>. QED
      BY <1>1, <2>2, <2>3
  <1>3. xver[x] + 1 \in Nat
    BY DEF GatewayInv
  <1>4. xver' \in [Proxy -> Nat] /\ \A y \in Proxy : xver'[y] = IF y = x THEN xver[x] + 1 ELSE xver[y]
    BY <1>1, <1>3 DEF GatewayInv
  <1>5. ASSUME NEW y \in Proxy
        PROVE  /\ xver'[y] >= xver[y]
               /\ xver'[y] = xver[y] => A!Names(y, assoc') = A!Names(y, assoc)
    <2>1. xver[y] \in Nat
      BY DEF GatewayInv
    <2>2. CASE y = x
      BY <1>4, <2>1, <2>2
    <2>3. CASE y # x
      <3>1. ASSUME NEW q \in Plugin PROVE <<q, y>> \in assoc' <=> <<q, y>> \in assoc
        BY <1>2, <2>3
      <3>. QED
        BY <1>4, <2>1, <2>3, <3>1 DEF A!Names
    <2>. QED
      BY <2>2, <2>3
  <1>6. assoc' \subseteq Plugin \X Proxy
    BY <1>1 DEF GatewayInv
  <1>7. ASSUME NEW q \in Plugin, NEW y \in Proxy, <<q, y>> \in assoc' PROVE A!Attachable(q, y)'
    BY <1>1, <1>2, <1>7 DEF GatewayInv, A!Attachable
  <1>8. GatewayInv'
    BY <1>1, <1>4, <1>6, <1>7 DEF GatewayInv
  <1>. QED
    BY <1>1, <1>2, <1>5, <1>8
-----------------------------------------------------------------------------
(* Steps of others.                                                        *)

LEMMA AssocInit == ASSUME A!AssociationsAssumption, A!Init PROVE AssocInv
  <1>1. GivenInv
    BY DEF A!Init, GivenInv
  <1>2. planScope = scope /\ planAssoc = assoc
    BY DEF A!Init
  <1>3. GatewayInv
    <2>1. ASSUME NEW p \in Plugin, NEW x \in Proxy, <<p, x>> \in assoc PROVE A!Attachable(p, x)
      <3>1. x \in A!Of(p, assoc) /\ A!Coherent(scope, assoc) /\ scope[p] \in A!Scope
        BY <2>1 DEF A!Of, A!Init
      <3>. QED
        BY <3>1 DEF A!Coherent, A!Scope, A!Attachable
    <2>2. pver \in [Plugin -> Nat] /\ xver \in [Proxy -> Nat]
      BY DEF A!Init
    <2>. QED
      BY <2>1, <2>2 DEF A!Init, GatewayInv
  <1>4. updates = PlannedUpdates /\ proxies = PlannedProxies /\ deletes = PlannedDeletes
    BY <1>2 DEF A!Init, PlannedUpdates, PlannedProxies, PlannedDeletes
  <1>5. /\ turn = "next" /\ cur = A!NoOp /\ tag = 0 /\ written = {} /\ touched = {}
        /\ failedPlugins = {} /\ writesFailed = FALSE /\ stale = FALSE
        /\ seen = assoc /\ others = 0 /\ faults = 0
    BY DEF A!Init
  <1>6. AssocRunInv
    <2>1. A!TypeOK
      <3>1. /\ updates \cup deletes \subseteq Plugin /\ proxies \subseteq Proxy
        BY <1>4 DEF PlannedUpdates, PlannedProxies, PlannedDeletes
      <3>2. others \in 0..MaxOthers /\ faults \in 0..MaxFaults
        BY <1>5 DEF A!AssociationsAssumption
      <3>3. /\ turn \in {"next", "create", "read", "reread", "write"}
            /\ cur \in Plugin \cup Proxy \cup {A!NoOp} /\ tag \in Nat
            /\ written \cup failedPlugins \subseteq Plugin /\ touched \subseteq Proxy
            /\ writesFailed \in BOOLEAN /\ stale \in BOOLEAN
        BY <1>5
      <3>. QED
        BY <1>3, <1>5, <3>1, <3>2, <3>3 DEF A!TypeOK, GatewayInv
    <2>2. turn \notin {"create", "read", "reread", "write"} /\ turn = "next" /\ written = {}
      BY <1>5
    <2>. QED
      BY <2>1, <2>2, <1>4 DEF AssocRunInv
  <1>7. WriteInv
    BY <1>5 DEF WriteInv
  <1>8. CalmShape
    BY <1>4, <1>5 DEF CalmShape, A!AssociationsAssumption, PlannedProxies, PlannedDeletes
  <1>9. CalmGateway
    <2>1. ASSUME NEW p \in Plugin
          PROVE  scope[p] = IF p \in updates \cup deletes THEN planScope[p] ELSE wantScope[p]
      BY <1>2, <1>4 DEF PlannedUpdates, PlannedDeletes
    <2>2. ASSUME NEW p \in Plugin, NEW x \in Proxy PROVE <<p, x>> \in assoc <=> ByNow(p, x)
      <3>1. x \notin proxies => A!Names(x, wantAssoc) = A!Names(x, planAssoc)
        BY <1>4 DEF PlannedProxies
      <3>. QED
        BY <3>1, <1>2, <1>4 DEF ByNow, A!Names
    <2>. QED
      BY <2>1, <2>2, <1>5 DEF CalmGateway
  <1>. QED
    BY <1>1, <1>3, <1>6, <1>7, <1>8, <1>9 DEF AssocInv, CalmInv

(* A write by others leaves the run as it is; a tag it survives is worth   *)
(* what it was.                                                            *)
LEMMA OthersStep ==
    ASSUME A!AssociationsAssumption, AssocInv, A!Attach \/ A!Detach \/ A!Retarget PROVE AssocInv'
  <1>1. /\ others < MaxOthers /\ others' = others + 1
        /\ UNCHANGED <<A!repository, A!plan, A!ops, turn, cur, tag, written, touched, A!outcome, seen, faults>>
    BY DEF A!Attach, A!Detach, A!Retarget, A!Change
  <1>. USE DEF A!repository, A!plan, A!ops, A!outcome
  <1>2. /\ GatewayInv' /\ scope' \in [Plugin -> A!Scope]
        /\ \A x \in Proxy : /\ xver'[x] >= xver[x]
                            /\ xver'[x] = xver[x] => A!Names(x, assoc') = A!Names(x, assoc)
    <2>1. CASE A!Attach
      <3>1. PICK p \in Plugin, x \in Proxy :
               A!Attachable(p, x) /\ A!Rename(x, A!Names(x, assoc) \cup {p})
        BY <2>1 DEF A!Attach
      <3>2. \A q \in A!Names(x, assoc) \cup {p} : q \in Plugin /\ A!Attachable(q, x)
        BY <3>1 DEF A!Names, AssocInv, GatewayInv
      <3>. QED
        BY <3>1, <3>2, RenameIs DEF AssocInv, GatewayInv
    <2>2. CASE A!Detach
      <3>1. PICK p \in Plugin, x \in Proxy : A!Rename(x, A!Names(x, assoc) \ {p})
        BY <2>2 DEF A!Detach
      <3>2. \A q \in A!Names(x, assoc) \ {p} : q \in Plugin /\ A!Attachable(q, x)
        BY <3>1 DEF A!Names, AssocInv, GatewayInv
      <3>. QED
        BY <3>1, <3>2, RenameIs DEF AssocInv, GatewayInv
    <2>3. CASE A!Retarget
      <3>1. PICK p \in Plugin, s \in A!Scope : A!Rescope(p, s)
        BY <2>3 DEF A!Retarget, A!AssociationsAssumption
      <3>. QED
        BY <3>1, RescopeIs DEF AssocInv, GatewayInv
    <2>. QED
      BY <2>1, <2>2, <2>3
  <1>3. others' \in 0..MaxOthers /\ others' # 0
    BY <1>1 DEF AssocInv, AssocRunInv, A!TypeOK, A!AssociationsAssumption
  <1>4. GivenInv'
    BY <1>1 DEF AssocInv, GivenInv, A!Coherent, A!Of
  <1>5. AssocRunInv'
    BY <1>1, <1>2, <1>3 DEF AssocInv, AssocRunInv, A!TypeOK, PlannedUpdates, PlannedProxies,
       PlannedDeletes, A!Names, GatewayInv
  <1>6. WriteInv'
    <2>1. turn' = "write" /\ cur' \in Plugin /\ (cur' \in deletes' \/ A!Retargets(cur)')
             => (A!Of(cur, seen) \subseteq A!Planned(cur) \cup A!Keeps(cur))'
      BY <1>1 DEF AssocInv, WriteInv, A!Retargets, A!Of, A!Planned, A!Keeps
    <2>2. ASSUME turn' = "write", cur' \in Proxy
          PROVE  tag' <= xver'[cur] /\ (tag' = xver'[cur] => A!ProxyAsPlanned(cur)')
      <3>1. /\ cur \in Proxy /\ tag' = tag /\ tag <= xver[cur]
            /\ tag = xver[cur] => A!ProxyAsPlanned(cur)
        BY <1>1, <2>2 DEF AssocInv, WriteInv
      <3>2. tag \in Nat /\ xver[cur] \in Nat /\ xver'[cur] \in Nat
        BY <3>1, <1>2 DEF AssocInv, AssocRunInv, A!TypeOK, GatewayInv
      <3>3. tag' = xver'[cur] => tag = xver[cur] /\ A!Names(cur, assoc') = A!Names(cur, assoc)
        BY <3>1, <3>2, <1>2
      <3>. QED
        BY <1>1, <1>2, <3>1, <3>2, <3>3 DEF A!ProxyAsPlanned, A!Comparable, A!Names
    <2>. QED
      BY <1>1, <2>1, <2>2 DEF WriteInv
  <1>. QED
    BY <1>2, <1>3, <1>4, <1>5, <1>6 DEF AssocInv, CalmInv, Calm

-----------------------------------------------------------------------------
(* The run's steps.                                                        *)

(* An operation is a plugin's update or delete, or a proxy's update.       *)
LEMMA OneOf ==
    ASSUME A!AssociationsAssumption, AssocInv
    PROVE  /\ cur \in updates => /\ cur \in Plugin /\ cur \notin proxies /\ cur \notin deletes
                                 /\ wantScope[cur] \notin {Gone, planScope[cur]}
           /\ cur \in deletes => /\ cur \in Plugin /\ cur \notin proxies /\ cur \notin updates
                                 /\ wantScope[cur] = Gone /\ planScope[cur] # Gone
           /\ cur \in proxies => cur \in Proxy /\ cur \notin updates /\ cur \notin deletes
           /\ turn # "next" => cur \in updates \cup proxies \cup deletes
           /\ cur \in Plugin => cur \notin Proxy
  BY DEF A!AssociationsAssumption, AssocInv, AssocRunInv, PlannedUpdates, PlannedProxies, PlannedDeletes

(* Whatever became of an operation, the run stands between two of them.    *)
LEMMA Ended ==
    ASSUME A!AssociationsAssumption, AssocInv, turn # "next", A!Finish, GatewayInv',
           written' = written \/ (cur \in updates /\ written' \subseteq written \cup {cur}
                                    /\ (cur \in written' => cur \in written \/ A!NotedWrite(cur))),
           touched' \subseteq Proxy, failedPlugins' \subseteq Plugin,
           writesFailed' \in BOOLEAN, stale' \in BOOLEAN, seen' = seen,
           faults' \in 0..MaxFaults
    PROVE  GivenInv' /\ AssocRunInv' /\ WriteInv'
  <1>. USE DEF A!repository, A!plan
  <1>1. /\ turn' = "next" /\ cur' = A!NoOp /\ tag' = 0
        /\ updates' = updates \ {cur} /\ proxies' = proxies \ {cur} /\ deletes' = deletes \ {cur}
        /\ UNCHANGED <<wantScope, wantAssoc, planScope, planAssoc, others>>
    BY DEF A!Finish, A!Still
  <1>2. GivenInv'
    BY <1>1 DEF AssocInv, GivenInv, A!Coherent, A!Of
  <1>3. written' \subseteq Plugin /\ \A p \in written' : wantScope[p] \notin {Gone, Group}
    <2>1. \A p \in written : p \in Plugin /\ wantScope[p] \notin {Gone, Group}
      BY DEF AssocInv, AssocRunInv, A!TypeOK
    <2>2. cur \in updates /\ A!NotedWrite(cur) => cur \in Plugin /\ wantScope[cur] \notin {Gone, Group}
      BY OneOf DEF A!NotedWrite, A!Retargets, A!AssociationsAssumption
    <2>. QED
      BY <2>1, <2>2
  <1>4. A!TypeOK'
    <2>1. /\ updates' \cup deletes' \subseteq Plugin /\ proxies' \subseteq Proxy
          /\ seen' \subseteq Plugin \X Proxy /\ others' \in 0..MaxOthers
      BY <1>1 DEF AssocInv, AssocRunInv, A!TypeOK
    <2>2. scope' \in [Plugin -> A!Scope] /\ assoc' \subseteq Plugin \X Proxy
      BY DEF GatewayInv
    <2>3. /\ turn' \in {"next", "create", "read", "reread", "write"}
          /\ cur' \in Plugin \cup Proxy \cup {A!NoOp} /\ tag' \in Nat
      BY <1>1
    <2>. QED
      BY <1>3, <2>1, <2>2, <2>3 DEF A!TypeOK
  <1>5. /\ updates' \subseteq PlannedUpdates' /\ proxies' \subseteq PlannedProxies'
        /\ deletes' \subseteq PlannedDeletes'
    BY <1>1 DEF AssocInv, AssocRunInv, PlannedUpdates, PlannedProxies, PlannedDeletes, A!Names
  <1>6. turn' \notin {"create", "read", "reread", "write"}
    BY <1>1
  <1>7. AssocRunInv'
    BY <1>1, <1>3, <1>4, <1>5, <1>6 DEF AssocRunInv
  <1>8. WriteInv'
    BY <1>6 DEF WriteInv
  <1>. QED
    BY <1>2, <1>7, <1>8

(* A failure is not undisturbed, or did not happen.                        *)
LEMMA FailedStep ==
    ASSUME A!AssociationsAssumption, AssocInv, turn # "next", A!Finish, UNCHANGED A!gateway,
           UNCHANGED <<written, touched, seen>>, A!Fail, stale' \in BOOLEAN,
           faults' \in 0..MaxFaults, ~Calm'
    PROVE  AssocInv'
  <1>1. GatewayInv'
    BY DEF AssocInv, GatewayInv, A!Attachable, A!gateway
  <1>2. failedPlugins' \subseteq Plugin /\ writesFailed' \in BOOLEAN /\ touched' \subseteq Proxy
    BY OneOf DEF A!Fail, AssocInv, AssocRunInv, A!TypeOK
  <1>3. GivenInv' /\ AssocRunInv' /\ WriteInv'
    BY <1>1, <1>2, Ended
  <1>. QED
    BY <1>1, <1>3 DEF AssocInv, CalmInv

LEMMA RefusedStep ==
    ASSUME A!AssociationsAssumption, AssocInv, turn # "next", A!Refused, ~Calm PROVE AssocInv'
  <1>1. faults' = faults /\ others' = others
    BY DEF A!Refused, A!Finish, A!Still
  <1>2. faults' \in 0..MaxFaults
    BY <1>1 DEF AssocInv, AssocRunInv, A!TypeOK
  <1>. QED
    BY <1>1, <1>2, FailedStep DEF A!Refused, Calm

LEMMA FailingStep ==
    ASSUME A!AssociationsAssumption, AssocInv, turn # "next", A!Failing PROVE AssocInv'
  <1>1. faults' \in 0..MaxFaults /\ faults' # 0
    BY DEF A!Failing, AssocInv, AssocRunInv, A!TypeOK, A!AssociationsAssumption
  <1>2. stale' \in BOOLEAN
    BY DEF A!Failing, AssocInv, AssocRunInv, A!TypeOK
  <1>. QED
    BY <1>1, <1>2, FailedStep DEF A!Failing, Calm

(* The undisturbed run goes on in its order.                               *)
LEMMA CalmGoesOn ==
    ASSUME A!AssociationsAssumption, AssocInv, turn # "next", A!Finish, Calm, UNCHANGED A!outcome,
           written \subseteq written',
           cur \in updates => wantScope[cur] = Group \/ cur \in written'
    PROVE  CalmShape'
  <1>. USE DEF A!repository, A!plan, A!outcome
  <1>1. /\ cur' = A!NoOp
        /\ updates' = updates \ {cur} /\ proxies' = proxies \ {cur} /\ deletes' = deletes \ {cur}
        /\ UNCHANGED <<wantScope, wantAssoc, planScope, planAssoc>>
    BY DEF A!Finish, A!Still
  <1>2. CalmShape
    BY DEF AssocInv, CalmInv
  <1>3. /\ PlannedUpdates' = PlannedUpdates /\ PlannedProxies' = PlannedProxies
        /\ PlannedDeletes' = PlannedDeletes
    BY <1>1 DEF PlannedUpdates, PlannedProxies, PlannedDeletes, A!Names
  <1>4. A!NoOp \notin proxies' /\ A!NoOp \notin deletes'
    BY <1>1 DEF A!AssociationsAssumption, AssocInv, AssocRunInv, A!TypeOK
  <1>5. /\ cur \in proxies => updates = {} /\ cur \notin updates /\ cur \notin deletes
        /\ cur \in updates => cur \notin proxies /\ cur \notin deletes
        /\ cur \in deletes => updates \cup proxies = {}
        /\ cur \in updates \cup proxies \cup deletes
    BY <1>2, OneOf DEF CalmShape
  <1>6. updates' # {} => proxies' = PlannedProxies'
    BY <1>1, <1>2, <1>3, <1>5 DEF CalmShape
  <1>7. updates' \cup proxies' # {} => deletes' = PlannedDeletes'
    BY <1>1, <1>2, <1>3, <1>5 DEF CalmShape
  <1>8. \A p \in PlannedUpdates' \ updates' : wantScope'[p] = Group \/ p \in written'
    BY <1>1, <1>2, <1>3 DEF CalmShape
  <1>. QED
    BY <1>1, <1>2, <1>4, <1>6, <1>7, <1>8 DEF CalmShape


(* What a step between two operations has to show of the gateway.          *)
LEMMA Settles ==
    ASSUME A!AssociationsAssumption, AssocInv, turn # "next", A!Finish, Calm,
           \A p \in Plugin :
              scope'[p] = IF p \in (updates \cup deletes) \ {cur} THEN planScope[p] ELSE wantScope[p],
           \A p \in Plugin, x \in Proxy : <<p, x>> \in assoc' <=> ByNow(p, x)'
    PROVE  CalmGateway'
  BY DEF A!Finish, A!Still, A!repository, A!plan, CalmGateway

LEMMA PluginSettles ==
    ASSUME A!AssociationsAssumption, AssocInv, turn # "next", A!Finish, Calm, cur \in Plugin,
           A!Rescope(cur, wantScope[cur])
    PROVE  CalmGateway'
  <1>. USE DEF A!repository, A!plan
  <1>1. /\ updates' = updates \ {cur} /\ proxies' = proxies \ {cur} /\ deletes' = deletes \ {cur}
        /\ UNCHANGED <<wantScope, wantAssoc, planScope, planAssoc>>
    BY DEF A!Finish, A!Still
  <1>2. CalmShape /\ CalmGateway
    BY DEF AssocInv, CalmInv
  <1>3. wantScope[cur] \in A!Scope /\ A!Coherent(wantScope, wantAssoc)
    BY DEF AssocInv, GivenInv
  <1>4. /\ \A q \in Plugin : scope'[q] = IF q = cur THEN wantScope[cur] ELSE scope[q]
        /\ \A q \in Plugin, x \in Proxy :
              <<q, x>> \in assoc' <=> IF q = cur THEN x \in A!Kept(cur, wantScope[cur], assoc)
                                                 ELSE <<q, x>> \in assoc
    BY <1>3, RescopeIs DEF AssocInv
  <1>5. PlannedUpdates' = PlannedUpdates
    BY <1>1 DEF PlannedUpdates
  <1>6. cur \notin proxies /\ proxies' = proxies
    BY <1>1, OneOf
  <1>7. ASSUME NEW p \in Plugin
        PROVE  scope'[p] = IF p \in (updates \cup deletes) \ {cur} THEN planScope[p] ELSE wantScope[p]
    BY <1>2, <1>4 DEF CalmGateway
  <1>8. ASSUME NEW p \in Plugin, NEW x \in Proxy PROVE <<p, x>> \in assoc' <=> ByNow(p, x)'
    <2>1. CASE p # cur
      <3>1. ByNow(p, x)' <=> ByNow(p, x)
        BY <1>1, <1>5, <1>6, <2>1 DEF ByNow
      <3>. QED
        BY <1>2, <1>4, <2>1, <3>1 DEF CalmGateway
    <2>2. CASE p = cur /\ wantScope[cur] = Group
      <3>1. <<p, x>> \in assoc' <=> <<p, x>> \in assoc
        BY <1>3, <1>4, <2>2, KeptIs DEF A!Of
      <3>2. ByNow(p, x)' <=> ByNow(p, x)
        BY <1>1, <1>5, <1>6, <2>2 DEF ByNow
      <3>. QED
        BY <1>2, <3>1, <3>2 DEF CalmGateway
    <2>3. CASE p = cur /\ wantScope[cur] # Group
      <3>1. <<p, x>> \in assoc' <=> x \in A!Kept(cur, wantScope[cur], assoc)
        BY <1>4, <2>3
      <3>2. x \in A!Kept(cur, wantScope[cur], assoc) <=> x \in A!Of(cur, wantAssoc)
        <4>1. CASE wantScope[cur] \in Proxy
          BY <4>1, <1>3, KeptIs DEF A!Coherent
        <4>2. CASE wantScope[cur] \in {Gone, Global}
          BY <4>2, <1>3, KeptIs DEF A!Coherent
        <4>. QED
          BY <1>3, <2>3, <4>1, <4>2 DEF A!Scope
      <3>3. ByNow(p, x)' <=> <<p, x>> \in wantAssoc
        <4>1. CASE cur \in updates
          <5>1. cur \in PlannedUpdates \ updates'
            BY <1>1, <4>1 DEF AssocInv, AssocRunInv
          <5>. QED
            BY <1>1, <1>5, <2>3, <5>1 DEF ByNow
        <4>2. CASE cur \in deletes
          <5>1. x \notin proxies'
            BY <1>2, <1>6, <4>2 DEF CalmShape
          <5>. QED
            BY <1>1, <5>1 DEF ByNow
        <4>. QED
          BY <4>1, <4>2, <1>6, OneOf
      <3>. QED
        BY <2>3, <3>1, <3>2, <3>3 DEF A!Of
    <2>. QED
      BY <2>1, <2>2, <2>3
  <1>. QED
    BY <1>7, <1>8, Settles

(* Between its writes, a proxy shows the plugins of the plan, but for the  *)
(* written ones.                                                           *)
LEMMA CalmProxyAsPlanned ==
    ASSUME A!AssociationsAssumption, AssocInv, Calm, cur \in proxies
    PROVE  /\ A!ProxyAsPlanned(cur) /\ updates = {} /\ cur \in Proxy
           /\ \A p \in A!Names(cur, wantAssoc) : A!Attachable(p, cur)
  <1>1. CalmShape /\ CalmGateway /\ updates = {} /\ cur \in Proxy
    BY OneOf DEF AssocInv, CalmInv, CalmShape
  <1>2. ASSUME NEW p \in Plugin, p \notin written
        PROVE  <<p, cur>> \in assoc <=> <<p, cur>> \in planAssoc
    <2>1. ~(p \in PlannedUpdates \ updates /\ wantScope[p] # Group)
      BY <1>1, <1>2 DEF CalmShape
    <2>. QED
      BY <1>1, <2>1 DEF CalmGateway, ByNow
  <1>3. A!ProxyAsPlanned(cur)
    BY <1>2 DEF A!ProxyAsPlanned, A!Comparable, A!Names
  <1>4. ASSUME NEW p \in A!Names(cur, wantAssoc) PROVE A!Attachable(p, cur)
    <2>1. p \in Plugin /\ cur \in A!Of(p, wantAssoc)
      BY <1>1 DEF A!Names, A!Of
    <2>2. wantScope[p] \in A!Scope /\ A!Coherent(wantScope, wantAssoc)
      BY <2>1 DEF AssocInv, GivenInv
    <2>3. wantScope[p] = Group \/ wantScope[p] = cur
      BY <2>1, <2>2 DEF A!Coherent, A!Scope
    <2>4. wantScope[p] # Gone
      BY <1>1, <2>3 DEF A!AssociationsAssumption
    <2>5. p \notin updates \cup deletes
      BY <1>1, <2>4 DEF AssocInv, AssocRunInv, PlannedDeletes
    <2>. QED
      BY <1>1, <2>1, <2>3, <2>5 DEF CalmGateway, A!Attachable
  <1>. QED
    BY <1>1, <1>3, <1>4

(* A proxy that names what is declared is done.                            *)
LEMMA ProxySettles ==
    ASSUME A!AssociationsAssumption, AssocInv, turn # "next", A!Finish, Calm, cur \in proxies,
           scope' = scope,
           \A q \in Plugin, y \in Proxy :
              <<q, y>> \in assoc' <=> IF y = cur THEN q \in A!Names(cur, wantAssoc)
                                                 ELSE <<q, y>> \in assoc
    PROVE  CalmGateway'
  <1>. USE DEF A!repository, A!plan
  <1>1. /\ updates' = updates \ {cur} /\ proxies' = proxies \ {cur} /\ deletes' = deletes \ {cur}
        /\ UNCHANGED <<wantScope, wantAssoc, planScope, planAssoc>>
    BY DEF A!Finish, A!Still
  <1>2. CalmShape /\ CalmGateway
    BY DEF AssocInv, CalmInv
  <1>3. PlannedUpdates' = PlannedUpdates /\ updates' = updates /\ deletes' = deletes
    BY <1>1, OneOf DEF PlannedUpdates
  <1>4. ASSUME NEW p \in Plugin, NEW x \in Proxy PROVE <<p, x>> \in assoc' <=> ByNow(p, x)'
    <2>1. CASE x = cur
      BY <1>1, <2>1 DEF ByNow, A!Names
    <2>2. CASE x # cur
      <3>1. ByNow(p, x)' <=> ByNow(p, x)
        BY <1>1, <1>3, <2>2 DEF ByNow
      <3>. QED
        BY <1>2, <2>2, <3>1 DEF CalmGateway
    <2>. QED
      BY <2>1, <2>2
  <1>5. ASSUME NEW p \in Plugin
        PROVE  scope'[p] = IF p \in (updates \cup deletes) \ {cur} THEN planScope[p] ELSE wantScope[p]
    BY <1>1, <1>2, <1>3 DEF CalmGateway
  <1>. QED
    BY <1>4, <1>5, Settles

(* A plugin's create or update that the gateway accepted.                  *)
LEMMA UpdateWritten ==
    ASSUME A!AssociationsAssumption, AssocInv, turn # "next", cur \in updates, A!Finish, A!Wrote,
           A!Rescope(cur, wantScope[cur]), GatewayInv', UNCHANGED <<A!outcome, seen, faults>>
    PROVE  AssocInv'
  <1>1. cur \in Plugin /\ wantScope[cur] # planScope[cur]
    BY OneOf
  <1>2. /\ written' = IF A!NotedWrite(cur) THEN written \cup {cur} ELSE written
        /\ touched' \subseteq Proxy
    BY DEF A!Wrote, AssocInv, AssocRunInv, A!TypeOK
  <1>3. /\ failedPlugins' \subseteq Plugin
        /\ writesFailed' \in BOOLEAN /\ stale' \in BOOLEAN /\ faults' \in 0..MaxFaults
    BY DEF AssocInv, AssocRunInv, A!TypeOK, A!outcome
  <1>4. GivenInv' /\ AssocRunInv' /\ WriteInv'
    BY <1>2, <1>3, Ended
  <1>5. Calm' => Calm
    BY DEF Calm, A!Finish, A!Still
  <1>6. wantScope[cur] = Group \/ cur \in written'
    BY <1>1, <1>2 DEF A!NotedWrite, A!Retargets
  <1>7. Calm => CalmShape' /\ CalmGateway'
    BY <1>1, <1>2, <1>6, CalmGoesOn, PluginSettles
  <1>. QED
    BY <1>4, <1>5, <1>7 DEF AssocInv, CalmInv

LEMMA ChooseStep == ASSUME A!AssociationsAssumption, AssocInv, A!Choose PROVE AssocInv'
  <1>. USE DEF A!gateway, A!repository, A!plan, A!ops, A!outcome
  <1>1. /\ turn = "next" /\ A!Turn # {} /\ cur' \in A!Turn
        /\ turn' = IF cur' \in Plugin /\ wantScope[cur'] # Gone /\ planScope[cur'] = Gone
                 THEN "create" ELSE "read"
        /\ UNCHANGED <<scope, assoc, pver, xver, enforces, wantScope, wantAssoc, planScope,
                       planAssoc, updates, proxies, deletes, tag, written, touched,
                       failedPlugins, writesFailed, stale, seen, faults, others>>
    BY DEF A!Choose, A!Still
  <1>2. /\ cur' \in updates \cup proxies \cup deletes
        /\ updates # {} => cur' \in updates
        /\ updates = {} /\ proxies # {} => cur' \in proxies
    BY <1>1 DEF A!Turn
  <1>3. /\ cur' \in updates => /\ cur' \in Plugin /\ cur' \notin proxies /\ cur' \notin deletes
                               /\ wantScope[cur'] # Gone
        /\ cur' \in proxies => cur' \in Proxy /\ cur' \notin Plugin /\ cur' \notin deletes
        /\ cur' \in deletes => cur' \in Plugin /\ wantScope[cur'] = Gone /\ cur' \notin proxies
    BY DEF A!AssociationsAssumption, AssocInv, AssocRunInv, PlannedUpdates, PlannedProxies, PlannedDeletes
  <1>4. GivenInv' /\ GatewayInv'
    BY <1>1 DEF AssocInv, GivenInv, GatewayInv, A!Coherent, A!Of, A!Attachable
  <1>5. AssocRunInv'
    <2>1. turn' \in {"create", "read"} /\ turn' \notin {"next", "reread", "write"}
      BY <1>1
    <2>2. A!TypeOK'
      <3>1. cur' \in Plugin \cup Proxy \cup {A!NoOp}
        BY <1>2, <1>3
      <3>. QED
        BY <1>1, <2>1, <3>1 DEF AssocInv, AssocRunInv, A!TypeOK
    <2>3. /\ turn' = "create" => cur' \in updates /\ planScope[cur'] = Gone
          /\ cur' \in updates /\ turn' = "read" => planScope[cur'] # Gone
      BY <1>1, <1>2, <1>3
    <2>4. /\ PlannedUpdates' = PlannedUpdates /\ PlannedProxies' = PlannedProxies
          /\ PlannedDeletes' = PlannedDeletes
      BY <1>1 DEF PlannedUpdates, PlannedProxies, PlannedDeletes, A!Names
    <2>. QED
      BY <1>1, <1>2, <2>1, <2>2, <2>3, <2>4 DEF AssocInv, AssocRunInv
  <1>6. turn' # "write" /\ turn' # "reread"
    BY <1>1
  <1>7. WriteInv'
    BY <1>6 DEF WriteInv
  <1>8. ASSUME Calm' PROVE CalmShape' /\ CalmGateway'
    <2>1. CalmShape /\ CalmGateway
      BY <1>1, <1>8 DEF Calm, AssocInv, CalmInv
    <2>2. /\ PlannedUpdates' = PlannedUpdates /\ PlannedProxies' = PlannedProxies
          /\ PlannedDeletes' = PlannedDeletes
      BY <1>1 DEF PlannedUpdates, PlannedProxies, PlannedDeletes, A!Names
    <2>3. CalmShape'
      BY <1>1, <1>2, <1>3, <2>1, <2>2 DEF CalmShape
    <2>4. ASSUME NEW p \in Plugin, NEW x \in Proxy PROVE ByNow(p, x)' <=> ByNow(p, x)
      BY <1>1, <2>2 DEF ByNow
    <2>5. CalmGateway'
      BY <1>1, <1>6, <2>1, <2>4 DEF CalmGateway
    <2>. QED
      BY <2>3, <2>5
  <1>. QED
    BY <1>4, <1>5, <1>7, <1>8 DEF AssocInv, CalmInv

(* On to the next step of the same operation.                              *)
LEMMA GoesOn ==
    ASSUME A!AssociationsAssumption, AssocInv, turn # "next", turn # "create",
           turn' \in {"reread", "write"}, A!Still, UNCHANGED <<A!gateway, A!ops, cur, written, touched>>,
           UNCHANGED <<A!outcome, faults>>, tag' \in Nat, seen' \subseteq Plugin \X Proxy,
           turn' = "reread" => cur \in updates \cup deletes
    PROVE  /\ GivenInv' /\ GatewayInv' /\ AssocRunInv'
           /\ Calm' => /\ Calm
                       /\ tag' = (IF cur \in Plugin THEN pver[cur] ELSE xver[cur])
                             => CalmShape' /\ CalmGateway'
  <1>. USE DEF A!gateway, A!repository, A!plan, A!ops, A!outcome
  <1>1. UNCHANGED <<scope, assoc, pver, xver, enforces, wantScope, wantAssoc, planScope,
                    planAssoc, updates, proxies, deletes, cur, written, touched,
                    failedPlugins, writesFailed, stale, faults, others>>
    BY DEF A!Still
  <1>2. GivenInv' /\ GatewayInv'
    BY <1>1 DEF AssocInv, GivenInv, GatewayInv, A!Coherent, A!Of, A!Attachable
  <1>3. /\ PlannedUpdates' = PlannedUpdates /\ PlannedProxies' = PlannedProxies
        /\ PlannedDeletes' = PlannedDeletes
    BY <1>1 DEF PlannedUpdates, PlannedProxies, PlannedDeletes, A!Names
  <1>4. turn \in {"read", "reread", "write"} /\ turn' # "create"
    BY DEF AssocInv, AssocRunInv, A!TypeOK
  <1>5. AssocRunInv'
    BY <1>1, <1>3, <1>4 DEF AssocInv, AssocRunInv, A!TypeOK
  <1>6. ASSUME Calm', tag' = (IF cur \in Plugin THEN pver[cur] ELSE xver[cur])
        PROVE  CalmShape' /\ CalmGateway'
    <2>1. CalmShape /\ CalmGateway
      BY <1>1, <1>6 DEF Calm, AssocInv, CalmInv
    <2>2. CalmShape'
      BY <1>1, <1>3, <2>1 DEF CalmShape
    <2>3. ASSUME NEW p \in Plugin, NEW x \in Proxy PROVE ByNow(p, x)' <=> ByNow(p, x)
      BY <1>1, <1>3 DEF ByNow
    <2>4. turn' = "reread" => cur \in Plugin
      BY OneOf
    <2>5. /\ turn' = "reread" => tag' = pver'[cur']
          /\ turn' = "write" => tag' = IF cur' \in Plugin THEN pver'[cur'] ELSE xver'[cur']
      BY <1>1, <1>6, <2>4
    <2>6. CalmGateway'
      BY <1>1, <2>1, <2>3, <2>5 DEF CalmGateway
    <2>. QED
      BY <2>2, <2>6
  <1>. QED
    BY <1>1, <1>2, <1>5, <1>6 DEF Calm

(* A plugin of an undisturbed run is found as planned, its proxies among   *)
(* those planned.                                                          *)
LEMMA CalmPluginAsPlanned ==
    ASSUME A!AssociationsAssumption, AssocInv, Calm, cur \in updates \cup deletes
    PROVE  /\ A!PluginAsPlanned(cur) /\ A!Of(cur, assoc) \subseteq A!Planned(cur)
  <1>1. CalmShape /\ CalmGateway /\ cur \in Plugin
    BY OneOf DEF AssocInv, CalmInv
  <1>2. ASSUME NEW x \in A!Of(cur, assoc) PROVE x \in A!Planned(cur)
    <2>1. x \in Proxy /\ ByNow(cur, x)
      BY <1>1 DEF A!Of, CalmGateway
    <2>. QED
      BY <2>1 DEF ByNow, A!Planned, A!Of
  <1>. QED
    BY <1>1, <1>2 DEF CalmGateway, A!PluginAsPlanned

LEMMA CreatePluginStep == ASSUME A!AssociationsAssumption, AssocInv, A!CreatePlugin PROVE AssocInv'
  <1>0. turn # "next" /\ cur \in updates /\ planScope[cur] = Gone
    BY DEF A!CreatePlugin, AssocInv, AssocRunInv
  <1>1. cur \in Plugin /\ wantScope[cur] \in A!Scope
    BY <1>0, OneOf DEF AssocInv, GivenInv
  <1>2. CASE /\ scope[cur] = Gone /\ A!Rescope(cur, wantScope[cur]) /\ A!Wrote /\ A!Finish
             /\ UNCHANGED <<A!outcome, seen, faults>>
    <2>1. GatewayInv'
      BY <1>1, <1>2, RescopeIs DEF AssocInv
    <2>. QED
      BY <1>0, <1>1, <1>2, <2>1, UpdateWritten
  <1>3. CASE /\ scope[cur] # Gone /\ A!Fail /\ A!Finish
             /\ UNCHANGED <<A!gateway, written, touched, stale, seen, faults>>
    <2>1. ~Calm
      BY <1>0, <1>3, CalmPluginAsPlanned DEF A!PluginAsPlanned
    <2>2. ~Calm' /\ stale' \in BOOLEAN /\ faults' \in 0..MaxFaults
      BY <1>3, <2>1 DEF Calm, A!Finish, A!Still, AssocInv, AssocRunInv, A!TypeOK
    <2>. QED
      BY <1>0, <1>3, <2>2, FailedStep
  <1>. QED
    BY <1>0, <1>2, <1>3, FailingStep DEF A!CreatePlugin

LEMMA ReadPluginStep == ASSUME A!AssociationsAssumption, AssocInv, A!ReadPlugin PROVE AssocInv'
  <1>0. turn = "read" /\ cur \in Plugin /\ cur \in updates \cup deletes /\ planScope[cur] # Gone
    <2>1. turn = "read" /\ cur \in Plugin
      BY DEF A!ReadPlugin
    <2>2. cur \in updates \cup deletes
      BY <2>1, OneOf
    <2>. QED
      BY <2>1, <2>2, OneOf DEF AssocInv, AssocRunInv
  <1>1. CASE /\ scope[cur] = Gone /\ cur \in deletes
             /\ A!Finish /\ UNCHANGED <<A!gateway, written, touched, A!outcome, seen, faults>>
    <2>1. ~Calm
      BY <1>0, <1>1, CalmPluginAsPlanned DEF A!PluginAsPlanned
    <2>2. ~Calm'
      BY <1>1, <2>1 DEF Calm, A!Finish, A!Still
    <2>3. GatewayInv'
      BY <1>1 DEF AssocInv, GatewayInv, A!Attachable, A!gateway
    <2>4. /\ touched' \subseteq Proxy /\ failedPlugins' \subseteq Plugin
          /\ writesFailed' \in BOOLEAN /\ stale' \in BOOLEAN /\ faults' \in 0..MaxFaults
      BY <1>1 DEF AssocInv, AssocRunInv, A!TypeOK, A!outcome
    <2>5. GivenInv' /\ AssocRunInv' /\ WriteInv'
      BY <1>0, <1>1, <2>3, <2>4, Ended
    <2>. QED
      BY <2>2, <2>3, <2>5 DEF AssocInv, CalmInv
  <1>2. CASE (scope[cur] = Gone \/ ~A!PluginAsPlanned(cur)) /\ A!Refused
    <2>1. ~Calm
      BY <1>0, <1>2, CalmPluginAsPlanned DEF A!PluginAsPlanned
    <2>. QED
      BY <1>0, <1>2, <2>1, RefusedStep
  <1>3. CASE /\ tag' = pver[cur] /\ A!Still
             /\ turn' = IF cur \in deletes \/ A!Retargets(cur) THEN "reread" ELSE "write"
             /\ UNCHANGED <<A!gateway, A!ops, cur, written, touched, A!outcome, seen, faults>>
    <2>1. tag' \in Nat /\ seen' \subseteq Plugin \X Proxy
      BY <1>0, <1>3 DEF AssocInv, GatewayInv, AssocRunInv, A!TypeOK
    <2>2. /\ GivenInv' /\ GatewayInv' /\ AssocRunInv'
          /\ Calm' => CalmShape' /\ CalmGateway'
      BY <1>0, <1>3, <2>1, GoesOn
    <2>3. WriteInv'
      <3>1. cur \notin Proxy /\ UNCHANGED <<cur, wantScope, planScope, deletes>>
        BY <1>0, <1>3, OneOf DEF A!Still, A!ops, A!repository, A!plan
      <3>2. turn' = "write" => ~(cur \in deletes \/ A!Retargets(cur))
        BY <1>3
      <3>. QED
        BY <3>1, <3>2 DEF WriteInv, A!Retargets
    <2>. QED
      BY <2>2, <2>3 DEF AssocInv, CalmInv
  <1>. QED
    BY <1>0, <1>1, <1>2, <1>3 DEF A!ReadPlugin

LEMMA RereadStep == ASSUME A!AssociationsAssumption, AssocInv, A!RereadReferences PROVE AssocInv'
  <1>0. turn = "reread" /\ cur \in updates \cup deletes /\ cur \in Plugin
    BY OneOf DEF A!RereadReferences, AssocInv, AssocRunInv
  <1>1. CASE A!Unplanned(cur, A!Keeps(cur)) # {} /\ A!Refused
    <2>1. ~Calm
      BY <1>0, <1>1, CalmPluginAsPlanned DEF A!Unplanned
    <2>. QED
      BY <1>0, <1>1, <2>1, RefusedStep
  <1>2. CASE /\ A!Unplanned(cur, A!Keeps(cur)) = {} /\ turn' = "write" /\ seen' = assoc /\ A!Still
             /\ UNCHANGED <<A!gateway, A!ops, cur, tag, written, touched, A!outcome, faults>>
    <2>1. tag' \in Nat /\ seen' \subseteq Plugin \X Proxy
      BY <1>2 DEF AssocInv, GatewayInv, AssocRunInv, A!TypeOK
    <2>2. Calm => tag = pver[cur]
      BY <1>0 DEF AssocInv, CalmInv, CalmGateway
    <2>3. /\ GivenInv' /\ GatewayInv' /\ AssocRunInv'
          /\ Calm' => CalmShape' /\ CalmGateway'
      BY <1>0, <1>2, <2>1, <2>2, GoesOn
    <2>4. WriteInv'
      <3>1. cur \notin Proxy /\ UNCHANGED <<cur, wantScope, wantAssoc, planScope, planAssoc, deletes>>
        BY <1>0, <1>2, OneOf DEF A!Still, A!ops, A!repository, A!plan
      <3>2. A!Of(cur, assoc) \subseteq A!Planned(cur) \cup A!Keeps(cur)
        BY <1>2 DEF A!Unplanned
      <3>. QED
        BY <1>2, <3>1, <3>2 DEF WriteInv, A!Of, A!Planned, A!Keeps
    <2>. QED
      BY <2>3, <2>4 DEF AssocInv, CalmInv
  <1>. QED
    BY <1>0, <1>1, <1>2 DEF A!RereadReferences

LEMMA WritePluginStep == ASSUME A!AssociationsAssumption, AssocInv, A!WritePlugin PROVE AssocInv'
  <1>0. turn = "write" /\ cur \in Plugin /\ cur \in updates \cup deletes /\ wantScope[cur] \in A!Scope
    BY OneOf DEF A!WritePlugin, AssocInv, GivenInv
  <1>1. CASE /\ A!Rescope(cur, wantScope[cur]) /\ A!Finish
             /\ IF cur \in deletes THEN UNCHANGED <<written, touched>> ELSE A!Wrote
             /\ UNCHANGED <<A!outcome, seen, faults>>
    <2>1. GatewayInv'
      BY <1>0, <1>1, RescopeIs DEF AssocInv
    <2>2. CASE cur \in updates
      <3>1. A!Wrote
        BY <1>1, <2>2, OneOf
      <3>. QED
        BY <1>0, <1>1, <2>1, <2>2, <3>1, UpdateWritten
    <2>3. CASE cur \in deletes
      <3>1. UNCHANGED <<written, touched>> /\ cur \notin updates
        BY <1>1, <2>3, OneOf
      <3>2. /\ touched' \subseteq Proxy /\ failedPlugins' \subseteq Plugin
            /\ writesFailed' \in BOOLEAN /\ stale' \in BOOLEAN /\ faults' \in 0..MaxFaults
        BY <1>1, <3>1 DEF AssocInv, AssocRunInv, A!TypeOK, A!outcome
      <3>3. GivenInv' /\ AssocRunInv' /\ WriteInv'
        BY <1>0, <1>1, <2>1, <3>1, <3>2, Ended
      <3>4. Calm' => Calm
        BY <1>1 DEF Calm, A!Finish, A!Still
      <3>5. Calm => CalmShape' /\ CalmGateway'
        BY <1>0, <1>1, <3>1, CalmGoesOn, PluginSettles
      <3>. QED
        BY <2>1, <3>3, <3>4, <3>5 DEF AssocInv, CalmInv
    <2>. QED
      BY <1>0, <2>2, <2>3
  <1>2. CASE ~(tag = pver[cur] /\ A!ExpectedHolds) /\ A!Refused
    <2>1. ASSUME Calm PROVE FALSE
      <3>1. tag = pver[cur] /\ A!Of(cur, assoc) \subseteq A!Planned(cur)
        BY <1>0, <2>1, CalmPluginAsPlanned DEF AssocInv, CalmInv, CalmGateway
      <3>. QED
        BY <1>2, <3>1 DEF A!ExpectedHolds, A!Detached
    <2>. QED
      BY <1>0, <1>2, <2>1, RefusedStep
  <1>. QED
    BY <1>0, <1>1, <1>2, FailingStep DEF A!WritePlugin

LEMMA ReadProxyStep == ASSUME A!AssociationsAssumption, AssocInv, A!ReadProxy PROVE AssocInv'
  <1>0. turn = "read" /\ cur \in Proxy /\ cur \in proxies /\ cur \notin Plugin
    BY OneOf DEF A!ReadProxy
  <1>t. /\ touched \subseteq Proxy /\ failedPlugins \subseteq Plugin
        /\ writesFailed \in BOOLEAN /\ stale \in BOOLEAN /\ faults \in 0..MaxFaults
    BY DEF AssocInv, AssocRunInv, A!TypeOK
  <1>1. CASE /\ A!Names(cur, wantAssoc) \cap failedPlugins # {} /\ A!Fail /\ A!Finish
             /\ UNCHANGED <<A!gateway, written, touched, stale, seen, faults>>
    <2>1. ~Calm
      BY <1>1 DEF AssocInv, CalmInv, CalmShape
    <2>2. ~Calm'
      BY <1>1, <2>1 DEF Calm, A!Finish, A!Still
    <2>. QED
      BY <1>0, <1>t, <1>1, <2>2, FailedStep
  <1>2. CASE ~A!ProxyAsPlanned(cur) /\ A!Refused
    <2>1. ~Calm
      BY <1>0, <1>2, CalmProxyAsPlanned
    <2>. QED
      BY <1>0, <1>2, <2>1, RefusedStep
  <1>3. CASE /\ A!Names(cur, assoc) = A!Names(cur, wantAssoc) /\ A!Finish
             /\ UNCHANGED <<A!gateway, written, touched, A!outcome, seen, faults>>
    <2>1. GatewayInv'
      BY <1>3 DEF AssocInv, GatewayInv, A!Attachable, A!gateway
    <2>2. GivenInv' /\ AssocRunInv' /\ WriteInv'
      BY <1>0, <1>t, <1>3, <2>1, Ended DEF A!outcome
    <2>3. Calm' => Calm
      BY <1>3 DEF Calm, A!Finish, A!Still
    <2>4. Calm => CalmShape'
      BY <1>0, <1>3, OneOf, CalmGoesOn
    <2>5. ASSUME NEW q \in Plugin, NEW y \in Proxy
          PROVE  <<q, y>> \in assoc' <=> IF y = cur THEN q \in A!Names(cur, wantAssoc)
                                                    ELSE <<q, y>> \in assoc
      BY <1>3 DEF A!gateway, A!Names
    <2>6. Calm => CalmGateway'
      BY <1>0, <1>3, <2>5, ProxySettles DEF A!gateway
    <2>. QED
      BY <2>1, <2>2, <2>3, <2>4, <2>6 DEF AssocInv, CalmInv
  <1>4. CASE /\ A!ProxyAsPlanned(cur) /\ turn' = "write" /\ tag' = xver[cur] /\ A!Still
             /\ UNCHANGED <<A!gateway, A!ops, cur, written, touched, A!outcome, seen, faults>>
    <2>1. tag' \in Nat /\ seen' \subseteq Plugin \X Proxy
      BY <1>0, <1>4 DEF AssocInv, GatewayInv, AssocRunInv, A!TypeOK
    <2>2. /\ GivenInv' /\ GatewayInv' /\ AssocRunInv'
          /\ Calm' => CalmShape' /\ CalmGateway'
      BY <1>0, <1>4, <2>1, GoesOn
    <2>3. WriteInv'
      <3>1. UNCHANGED <<cur, assoc, xver, planAssoc, written>>
        BY <1>4 DEF A!Still, A!plan, A!gateway
      <3>2. tag' <= xver[cur]
        BY <1>4, <2>1
      <3>. QED
        BY <1>0, <1>4, <3>1, <3>2 DEF WriteInv, A!ProxyAsPlanned, A!Comparable, A!Names
    <2>. QED
      BY <2>2, <2>3 DEF AssocInv, CalmInv
  <1>. QED
    BY <1>0, <1>1, <1>2, <1>3, <1>4 DEF A!ReadProxy

LEMMA ProxyWrittenStep == ASSUME A!AssociationsAssumption, AssocInv, A!ProxyWritten PROVE AssocInv'
  <1>0. turn = "write" /\ cur \in Proxy /\ cur \in proxies /\ cur \notin Plugin
    BY OneOf DEF A!ProxyWritten
  <1>t. /\ touched \subseteq Proxy /\ failedPlugins \subseteq Plugin
        /\ writesFailed \in BOOLEAN /\ stale \in BOOLEAN /\ faults \in 0..MaxFaults
    BY DEF AssocInv, AssocRunInv, A!TypeOK
  <1>1. /\ \A p \in A!Names(cur, wantAssoc) : A!Attachable(p, cur)
        /\ A!Rename(cur, A!Names(cur, wantAssoc)) /\ A!Finish
        /\ UNCHANGED <<written, touched, A!outcome, seen, faults>>
    BY DEF A!ProxyWritten
  <1>2. A!Names(cur, wantAssoc) \in SUBSET Plugin
    BY DEF A!Names
  <1>3. /\ GatewayInv' /\ scope' = scope
        /\ \A q \in Plugin, y \in Proxy :
              <<q, y>> \in assoc' <=> IF y = cur THEN q \in A!Names(cur, wantAssoc)
                                                 ELSE <<q, y>> \in assoc
    BY <1>0, <1>1, <1>2, RenameIs DEF AssocInv
  <1>4. GivenInv' /\ AssocRunInv' /\ WriteInv'
    BY <1>0, <1>t, <1>1, <1>3, Ended DEF A!outcome
  <1>5. Calm' => Calm
    BY <1>1 DEF Calm, A!Finish, A!Still
  <1>6. Calm => CalmShape'
    BY <1>0, <1>1, OneOf, CalmGoesOn
  <1>7. Calm => CalmGateway'
    BY <1>0, <1>1, <1>3, ProxySettles
  <1>. QED
    BY <1>3, <1>4, <1>5, <1>6, <1>7 DEF AssocInv, CalmInv

LEMMA ProxyRefusedStep == ASSUME A!AssociationsAssumption, AssocInv, A!ProxyRefused PROVE AssocInv'
  <1>0. turn = "write" /\ cur \in Proxy /\ cur \in proxies /\ cur \notin Plugin
    BY OneOf DEF A!ProxyRefused
  <1>1. CASE tag # xver[cur] /\ A!Refused
    <2>1. ~Calm
      BY <1>0, <1>1 DEF AssocInv, CalmInv, CalmGateway
    <2>. QED
      BY <1>0, <1>1, <2>1, RefusedStep
  <1>2. CASE /\ \E p \in A!Names(cur, wantAssoc) : ~A!Attachable(p, cur)
             /\ A!Fail /\ A!Finish /\ UNCHANGED <<A!gateway, written, touched, stale, seen, faults>>
    <2>1. ~Calm
      BY <1>0, <1>2, CalmProxyAsPlanned
    <2>2. ~Calm' /\ stale' \in BOOLEAN /\ faults' \in 0..MaxFaults
      BY <1>2, <2>1 DEF Calm, A!Finish, A!Still, AssocInv, AssocRunInv, A!TypeOK
    <2>. QED
      BY <1>0, <1>2, <2>2, FailedStep
  <1>. QED
    BY <1>0, <1>1, <1>2, FailingStep DEF A!ProxyRefused

LEMMA AssocStep == ASSUME A!AssociationsAssumption, AssocInv, [A!Next]_A!vars PROVE AssocInv'
  <1>1. CASE UNCHANGED A!vars
    BY <1>1 DEF A!vars, A!gateway, A!repository, A!plan, A!ops, A!outcome, AssocInv, GivenInv, GatewayInv,
       AssocRunInv, WriteInv, CalmInv, Calm, CalmShape, CalmGateway, ByNow, A!TypeOK, A!Coherent, A!Of,
       A!Names, A!Attachable, A!Planned, A!Keeps, A!Retargets, A!ProxyAsPlanned, A!Comparable,
       PlannedUpdates, PlannedProxies, PlannedDeletes
  <1>2. CASE A!Run
    BY <1>2, ChooseStep, CreatePluginStep, ReadPluginStep, RereadStep, WritePluginStep,
       ReadProxyStep, ProxyWrittenStep, ProxyRefusedStep DEF A!Run
  <1>3. CASE A!Attach \/ A!Detach \/ A!Retarget
    BY <1>3, OthersStep
  <1>. QED
    BY <1>1, <1>2, <1>3 DEF A!Next, A!Done

(* A write of the run detaches only what its plan accounts for, or what    *)
(* came between the re-read and the write.                                 *)
LEMMA DetachIsPlanned ==
    ASSUME A!AssociationsAssumption, AssocInv, A!Run, NEW a \in assoc, a \notin assoc'
    PROVE  a[2] \in A!Planned(a[1]) \/ a[1] \in written \/ (~enforces /\ a \notin seen)
  <1>0. PICK p \in Plugin, x \in Proxy : a = <<p, x>>
    BY DEF AssocInv, GatewayInv
  <1>p. a[1] = p /\ a[2] = x
    BY <1>0
  <1>1. CASE /\ cur \in updates \cup deletes /\ A!Rescope(cur, wantScope[cur])
             /\ \/ turn = "create" /\ scope[cur] = Gone
                \/ turn = "write" /\ A!ExpectedHolds
    <2>1. cur \in Plugin /\ wantScope[cur] \in A!Scope
      BY <1>1, OneOf DEF AssocInv, GivenInv
    <2>2. p = cur /\ x \notin A!Kept(cur, wantScope[cur], assoc) /\ x \in A!Of(cur, assoc)
      BY <1>0, <1>1, <2>1, RescopeIs DEF AssocInv, A!Of
    <2>3. scope[cur] # Gone
      BY <1>0, <2>2 DEF AssocInv, GatewayInv, A!Attachable, A!AssociationsAssumption
    <2>4. turn = "write" /\ x \in A!Detached /\ (enforces => x \in A!Planned(cur))
      BY <1>1, <2>2, <2>3 DEF A!ExpectedHolds, A!Detached
    <2>5. wantScope[cur] # Group
      BY <2>1, <2>2, KeptIs
    <2>6. cur \in deletes \/ A!Retargets(cur)
      BY <1>1, <2>5, OneOf DEF A!Retargets
    <2>7. A!Of(cur, seen) \subseteq A!Planned(cur) \cup A!Keeps(cur)
      BY <2>1, <2>4, <2>6 DEF AssocInv, WriteInv
    <2>8. x \notin A!Keeps(cur)
      BY <2>1, <2>2, KeptIs DEF A!Keeps
    <2>9. a \in seen => x \in A!Planned(cur)
      BY <1>0, <2>2, <2>7, <2>8 DEF A!Of
    <2>. QED
      BY <1>p, <2>2, <2>4, <2>9 DEF AssocInv, GatewayInv
  <1>2. CASE A!ProxyWritten
    <2>1. /\ cur \in Proxy /\ turn = "write" /\ tag = xver[cur]
          /\ \A q \in A!Names(cur, wantAssoc) : A!Attachable(q, cur)
          /\ A!Rename(cur, A!Names(cur, wantAssoc))
      BY <1>2 DEF A!ProxyWritten
    <2>2. A!Names(cur, wantAssoc) \in SUBSET Plugin
      BY DEF A!Names
    <2>3. x = cur
      BY <1>0, <2>1, <2>2, RenameIs DEF AssocInv
    <2>4. A!ProxyAsPlanned(cur)
      BY <2>1 DEF AssocInv, WriteInv
    <2>5. p \notin written => x \in A!Of(p, planAssoc)
      BY <1>0, <2>3, <2>4 DEF A!ProxyAsPlanned, A!Comparable, A!Names, A!Of
    <2>. QED
      BY <1>p, <2>5 DEF A!Planned
  <1>3. CASE UNCHANGED assoc
    BY <1>3
  <1>4. CASE A!CreatePlugin
    BY <1>1, <1>3, <1>4 DEF A!CreatePlugin, A!Failing, A!gateway, AssocInv, AssocRunInv
  <1>5. CASE A!WritePlugin
    BY <1>1, <1>3, <1>5, OneOf DEF A!WritePlugin, A!Failing, A!Refused, A!gateway
  <1>. QED
    BY <1>2, <1>3, <1>4, <1>5 DEF A!Run, A!Choose, A!ReadPlugin, A!RereadReferences, A!ReadProxy,
       A!ProxyRefused, A!Refused, A!Failing, A!gateway

(* What a proxy write replaces is what the plan replaces.                  *)
LEMMA ReplacesThePlanned ==
    ASSUME A!AssociationsAssumption, AssocInv, A!ProxyWritten, NEW p \in Plugin,
           wantScope[p] \in {Gone, Group}
    PROVE  <<p, cur>> \in assoc <=> <<p, cur>> \in planAssoc
  <1>1. cur \in Proxy /\ A!ProxyAsPlanned(cur) /\ p \notin written
    BY DEF A!ProxyWritten, AssocInv, WriteInv, AssocRunInv
  <1>. QED
    BY <1>1 DEF A!ProxyAsPlanned, A!Comparable, A!Names

LEMMA CalmRunIsDone ==
    ASSUME A!AssociationsAssumption, AssocInv PROVE A!TypeOK /\ A!CalmRunSettles
  <1>1. ASSUME A!Over, Calm PROVE scope = wantScope /\ assoc = wantAssoc
    <2>1. CalmShape /\ CalmGateway
      BY <1>1 DEF AssocInv, CalmInv
    <2>2. A!Turn = {}
      BY <1>1, <2>1 DEF A!Over, CalmShape
    <2>3. updates = {} /\ proxies = {} /\ deletes = {}
      BY <2>2 DEF A!Turn
    <2>4. \A p \in Plugin : scope[p] = wantScope[p]
      BY <2>1, <2>3 DEF CalmGateway
    <2>5. scope = wantScope
      BY <2>4 DEF AssocInv, GatewayInv, GivenInv
    <2>6. \A p \in Plugin, x \in Proxy : <<p, x>> \in assoc <=> <<p, x>> \in wantAssoc
      BY <2>1, <2>3 DEF CalmGateway, ByNow
    <2>7. ASSUME NEW a \in Plugin \X Proxy PROVE a \in assoc <=> a \in wantAssoc
      <3>1. PICK p \in Plugin, x \in Proxy : a = <<p, x>>
        OBVIOUS
      <3>. QED
        BY <2>6, <3>1
    <2>8. assoc \subseteq Plugin \X Proxy /\ wantAssoc \subseteq Plugin \X Proxy
      BY DEF AssocInv, GatewayInv, GivenInv
    <2>9. assoc = wantAssoc
      BY <2>7, <2>8
    <2>. QED
      BY <2>5, <2>9
  <1>. QED
    BY <1>1 DEF AssocInv, AssocRunInv, A!CalmRunSettles, Calm

(* Plugins and proxies, for any plugins, proxies, scopes, associations and *)
(* writes of others: a run detaches a plugin only from proxies its plan    *)
(* accounts for, writes no proxy's list over associations others made, and *)
(* undisturbed establishes what is declared in one go.                     *)
THEOREM AssociationsAreAlwaysKept ==
    ASSUME A!AssociationsAssumption PROVE A!Spec => A!AssociationsAreKept
  <1>1. A!Init => AssocInv
    BY AssocInit
  <1>2. AssocInv /\ [A!Next]_A!vars => AssocInv'
    BY AssocStep
  <1>3. AssocInv /\ [A!Next]_A!vars =>
          [A!Run => \A a \in assoc \ assoc' :
              \/ a[2] \in A!Planned(a[1]) \/ a[1] \in written
              \/ ~enforces /\ a \notin seen]_A!vars
    BY DetachIsPlanned
  <1>4. AssocInv /\ [A!Next]_A!vars =>
          [A!ProxyWritten => \A p \in Plugin :
              wantScope[p] \in {Gone, Group}
                  => (<<p, cur>> \in assoc <=> <<p, cur>> \in planAssoc)]_A!vars
    BY ReplacesThePlanned
  <1>5. AssocInv => A!TypeOK /\ A!CalmRunSettles
    BY CalmRunIsDone
  <1>. QED
    BY <1>1, <1>2, <1>3, <1>4, <1>5, PTL
       DEF A!Spec, A!AssociationsAreKept, A!NoUnplannedDetach, A!NoRevertedAssociation
=============================================================================
