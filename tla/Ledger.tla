------------------------------- MODULE Ledger -------------------------------
(***************************************************************************)
(* The ownership ledger `.state/<env>.json` (src/state.rs) as a value, and *)
(* the operations an apply performs on it.                                 *)
(*                                                                         *)
(* A ledger holds the keys the repository manages (`resources`: only the   *)
(* map's keys carry meaning, every value is the same marker) and the keys  *)
(* a run is about to create (`pending_creates`, the write-ahead journal).  *)
(* A key stands for one `namespace:Kind:id` state key.  Credentials,       *)
(* overrides, timestamps and mesh publications are left out.               *)
(***************************************************************************)
EXTENDS FiniteSets

CONSTANTS
    Namespace,   \* gateway namespaces
    Key,         \* state keys of the resources, finitely many
    NsOf         \* [Key -> Namespace], the namespace a key names

ASSUME NsOfAssumption == IsFiniteSet(Key) /\ NsOf \in [Key -> Namespace]

Action == {"Add", "Modify", "Delete"}
Op     == [key : Key, act : Action]

LedgerType  == [managed : SUBSET Key, pending : SUBSET Key]
EmptyLedger == [managed |-> {}, pending |-> {}]

KeysIn(nss)        == {k \in Key : NsOf[k] \in nss}
KeysOf(ops, acts)  == {o.key : o \in {p \in ops : p.act \in acts}}

(***************************************************************************)
(* Recording the operations that landed.  A run performs at most one       *)
(* operation per key, so the fold over them is one set expression.         *)
(***************************************************************************)
RecordOps_ClearsJournal(l, ops, declared) ==   \* mutant: as if all landed
    [managed |-> (l.managed \ KeysOf(ops, {"Delete"})) \cup
                    (KeysOf(ops, {"Add", "Modify"}) \cap declared),
     pending |-> {}]

RecordOps(l, ops, declared) ==
    LET deleted == KeysOf(ops, {"Delete"})
        written == KeysOf(ops, {"Add", "Modify"}) \cap declared
    IN  [managed |-> (l.managed \ deleted) \cup written,
         pending |-> l.pending \ (deleted \cup written)]

(* A restored namespace holds what the repository declares and no more.    *)
(* They are recorded one by one, and no two of them share a key.           *)
RecordFullReplace(l, nss, declared) ==
    [managed |-> (l.managed \ KeysIn(nss)) \cup (declared \cap KeysIn(nss)),
     pending |-> l.pending \ KeysIn(nss)]

ReserveAdds_Operations(l, ops) ==   \* mutant: operations, not keys
    [l EXCEPT !.pending = @ \cup {o \in ops : o.act = "Add"}]

ReserveAdds_AsManaged(l, ops) ==    \* mutant: the intent taken for ownership
    [l EXCEPT !.managed = @ \cup KeysOf(ops, {"Add"})]

(* Journal the creates of a run before its first POST. *)
ReserveAdds(l, ops) ==
    [l EXCEPT !.pending = @ \cup (KeysOf(ops, {"Add"}) \ l.managed)]

(***************************************************************************)
(* Reconcile the journal with the backups of the namespaces in `read`: a   *)
(* key stays pending while it is unread, or still declared.                *)
(***************************************************************************)
ReconcilePending(l, declared, read) ==
    [l EXCEPT !.pending =
        {k \in @ : k \notin l.managed /\ (NsOf[k] \in read => k \in declared)}]

(* Before a full replacement nothing of a namespace it reads stays pending.*)
ForgetPending(l, read) == [l EXCEPT !.pending = @ \ KeysIn(read)]

(* The rows that reconciliation forgets and warns about: journaled, live,  *)
(* no longer declared.                                                     *)
Forgotten(l, declared, liveKeys, read) ==
    {k \in l.pending \ l.managed :
        NsOf[k] \in read /\ k \notin declared /\ k \in liveKeys}

ReconcileAbsent_Unscoped(l, declared, liveKeys, read) ==   \* mutant
    [l EXCEPT !.managed = @ \cap (declared \cup liveKeys)]

(* Drop managed keys a backup proves absent from gateway and repository. *)
ReconcileAbsent(l, declared, liveKeys, read) ==
    [l EXCEPT !.managed =
        {k \in @ : NsOf[k] \in read => k \in declared \cup liveKeys}]

(***************************************************************************)
(* The namespaces one run reconciles (src/reconcile.rs): the owned ones in *)
(* exclusive mode; in shared mode those the repository declares or the     *)
(* ledger mentions.  A filter narrows either to one namespace.             *)
(***************************************************************************)
ResolvedNamespaces(mode, owned, filter, declared, l) ==
    IF filter # {} THEN filter
    ELSE IF mode = "exclusive" THEN owned
    ELSE {NsOf[k] : k \in declared \cup l.managed \cup l.pending}

=============================================================================
