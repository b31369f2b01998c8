---------------------------- MODULE ResourceDiff ----------------------------
(***************************************************************************)
(* The plan: what an apply intends for each key, from the desired document *)
(* and a live view (src/diff/resource_diff.rs, and the pure planning parts *)
(* of src/apply/api_target.rs).                                            *)
(*                                                                         *)
(* A desired document maps each key to the content the repository declares *)
(* or to Undeclared; a live view maps it to a row or to NoRow.  A row has  *)
(* its content (every compared field, without server timestamps) and its   *)
(* `api_spec_id`, if it carries one.  Fields this client does not model    *)
(* are left out: a rewrite of a row carrying one is refused earlier.       *)
(***************************************************************************)
EXTENDS Ledger, Integers

CONSTANTS
    Content,        \* contents a row may have
    Undeclared,     \* a key the desired document does not declare
    NoRow,          \* a key no live row holds
    SpecId,         \* API specs the importer provisions rows for
    Unowned,        \* a row without an `api_spec_id`
    Carried,        \* <<d, c>>: a row with content c has every field of d
    Mode,           \* ownership.mode, "shared" or "exclusive"
    PruneSpecOwned, \* --confirm-api-spec-deletion
    Threshold       \* ownership.large_prune_threshold_percent

Row == [content : Content, spec : SpecId \cup {Unowned}]

ASSUME DiffAssumption ==
    /\ Undeclared \notin Content
    /\ NoRow \notin Row
    /\ Unowned \notin SpecId
    /\ Carried \subseteq Content \X Content
    /\ \A c \in Content : <<c, c>> \in Carried
    /\ Mode \in {"shared", "exclusive"}
    /\ PruneSpecOwned \in BOOLEAN
    /\ Threshold \in 0..100

Document == [Key -> Content \cup {Undeclared}]
View     == [Key -> Row \cup {NoRow}]

Declared(d)  == {k \in Key : d[k] # Undeclared}
Live(v)      == {k \in Key : v[k] # NoRow}
SpecOwned(v) == {k \in Live(v) : v[k].spec # Unowned}

Adds(d, v)     == Declared(d) \ Live(v)
Modifies(d, v) == {k \in (Declared(d) \cap Live(v)) \ SpecOwned(v) :
                      v[k].content # d[k]}

(***************************************************************************)
(* A live row the repository does not declare is deleted when the mode's   *)
(* fence lets it: the ledger in shared mode, every row in exclusive mode,  *)
(* and a spec-owned row only in exclusive mode with the explicit opt-in.   *)
(***************************************************************************)
Deletes(d, v, managed) ==
    {k \in Live(v) \ Declared(d) :
        \/ k \in SpecOwned(v) /\ Mode = "exclusive" /\ PruneSpecOwned
        \/ k \notin SpecOwned(v) /\ (Mode = "exclusive" \/ k \in managed)}

Diff(d, v, managed) ==
         [key : Adds(d, v),             act : {"Add"}]
    \cup [key : Modifies(d, v),         act : {"Modify"}]
    \cup [key : Deletes(d, v, managed), act : {"Delete"}]

(* A declaration and a live spec-owned row under one key. *)
SpecConflicts(d, v) == Declared(d) \cap SpecOwned(v)

(***************************************************************************)
(* Pending rows already live as declared are asserted with an idempotent   *)
(* update, unless the ordinary diff rewrites them anyway.                  *)
(***************************************************************************)
PendingAssertions(d, v, l) ==
    LET exact == {k \in (Declared(d) \cap Live(v)) \ SpecOwned(v) :
                     <<d[k], v[k].content>> \in Carried}
    IN  [key : (l.pending \cap exact) \ KeysOf(Diff(d, v, l.managed), Action),
         act : {"Modify"}]

PlannedOps(d, v, l) == Diff(d, v, l.managed) \cup PendingAssertions(d, v, l)

(* Declared rows already identical on the gateway and not yet claimed. *)
AdoptionCandidates(d, v, l) ==
    {k \in (Declared(d) \cap Live(v)) \ SpecOwned(v) :
        /\ v[k].content = d[k]
        /\ k \notin l.managed \cup l.pending
        /\ k \notin KeysOf(Diff(d, v, l.managed), Action)}

(***************************************************************************)
(* The large-prune guard compares exactly, so a share equal to the         *)
(* threshold passes; its denominator is the set the deletes are drawn from.*)
(***************************************************************************)
PruneDenominator(v, managed, nss) ==
    IF Mode = "shared"
    THEN Cardinality(managed \cap KeysIn(nss))
    ELSE Cardinality({k \in Live(v) \cap KeysIn(nss) :
                         PruneSpecOwned \/ k \notin SpecOwned(v)})

ExceedsThreshold(deleted, denominator) ==
    denominator > 0 /\ deleted * 100 > Threshold * denominator

=============================================================================
