----------------------------- MODULE Replacement -----------------------------
(***************************************************************************)
(* What a full replacement promises whoever else writes to the gateway     *)
(* (build_restore_body and post_restore, http_client.rs): a namespace goes *)
(* over to the declared state in one step, taken from what is in it at     *)
(* that step.  Of the run only its confirmation to delete API specs and    *)
(* the namespaces it calls replaced are seen: no backup, no token, no body *)
(* prepared beforehand.  FullReplace implements it.                        *)
(***************************************************************************)
EXTENDS Ledger, Naturals

CONSTANTS Declared, ApiSpec, SpecNs, NoSpec, NoRow

VARIABLES
    rows, docs, trust,      \* the gateway
    writes,                 \* how often somebody else wrote
    confirm, replaced       \* of the run
vars == <<rows, docs, trust, writes, confirm, replaced>>

SpecOwned(k) == rows[k] # NoRow /\ rows[k].spec # NoSpec
Wanted == [content |-> "declared", spec |-> NoSpec, unknown |-> "none"]

Init == writes = 0 /\ confirm = FALSE /\ replaced = {}

(* A run begins or ends.                                                   *)
Turn ==
    /\ confirm' \in BOOLEAN /\ replaced' = {}
    /\ UNCHANGED <<rows, docs, trust, writes>>

(* API specs stay, with every row they own, unless their deletion was      *)
(* confirmed; the trust roots stay always.  A declared row that is there   *)
(* already is nobody else's and has nothing a restore would reset.         *)
Replace(ns) ==
    /\ ns \notin replaced /\ replaced' \in {replaced, replaced \cup {ns}}
    /\ \A k \in Declared \cap KeysIn({ns}) :
          rows[k] # NoRow => ~SpecOwned(k) /\ rows[k].unknown = "none"
    /\ rows' = [k \in Key |->
                  IF NsOf[k] # ns \/ (SpecOwned(k) /\ ~confirm) THEN rows[k]
                  ELSE IF k \in Declared THEN Wanted ELSE NoRow]
    /\ docs' = IF confirm THEN {d \in docs : SpecNs[d] # ns} ELSE docs
    /\ UNCHANGED <<trust, writes, confirm>>

(* The gateway may fail in the middle and fail to roll back: rows of the   *)
(* namespace are missing, and the run does not call it replaced.           *)
Damage(ns) ==
    /\ ns \notin replaced
    /\ \E lost \in SUBSET KeysIn({ns}) :
          rows' = [k \in Key |-> IF k \in lost THEN NoRow ELSE rows[k]]
    /\ UNCHANGED <<docs, trust, writes, confirm, replaced>>

(* Whatever the others do.                                                 *)
Write == writes' = writes + 1 /\ UNCHANGED <<confirm, replaced>>

Next == Turn \/ Write \/ \E ns \in Namespace : Replace(ns) \/ Damage(ns)
Spec == Init /\ [][Next]_vars
=============================================================================
