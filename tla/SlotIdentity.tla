---------------------------- MODULE SlotIdentity ----------------------------
(***************************************************************************)
(* Credential resolution over a changing repository.  Every owner (a       *)
(* Consumer's credential array, or a plugin's array of secrets) declares   *)
(* entries whose position is their name in the bundle; people add, remove  *)
(* and re-type them, and each apply either refuses the remap it can prove  *)
(* or resolves every leaf from the bundle and allocates what is missing.   *)
(***************************************************************************)
EXTENDS SlotNames, FiniteSets

CONSTANTS
    Consumer, Plugin,   \* owners: [ns, id, ...] records, names as characters
    Type,               \* credential types, and plugin types
    Leaf,               \* paths of the brokered leaves inside one entry
    MaxEntry            \* bound: entries ever written, over all owners

Owner == Consumer \cup Plugin
NoType == <<"-">>

SlotAssumption == Consumer \cap Plugin = {} /\ MaxEntry \in Nat

VARIABLES
    doc,        \* repository: [type, entries], entries are identities 1..MaxEntry
    bundle,     \* stored name -> whose value it is: <<owner, type, identity, leaf>>
    issued,     \* what the last apply gave each declared leaf
    used,       \* identities used so far
    changed     \* owners whose shape changed since the last apply

vars == <<doc, bundle, issued, used, changed>>

Drop(f, ks) == [k \in DOMAIN f \ ks |-> f[k]]

-----------------------------------------------------------------------------
(* Where a leaf's value is. *)

Base(o, t) ==
    IF o \in Plugin
    THEN <<Lit(o.ns), Lit(o.id), Lit(<<"@">>), Lit(t), Lit(<<"c">>)>>
    ELSE <<Lit(o.ns), Lit(o.id), Lit(t)>>

PathOf(o, t, i, l) == Base(o, t) \o <<Idx(i - 1)>> \o l

\* A plugin's names never elide an index and have no older spelling.
WrittenName(o, path) == IF o \in Plugin THEN Verbatim(path) ELSE Canonical(path)
ReadNames(o, path) == IF o \in Plugin THEN {Verbatim(path)} ELSE Candidates(path)

\* Newest spelling first: the written name wins over the older ones.
Stored(o, path) ==
    LET names == ReadNames(o, path) \cap DOMAIN bundle IN
    IF WrittenName(o, path) \in names THEN {WrittenName(o, path)} ELSE names

Leaves(o) == {<<i, l>> : i \in DOMAIN doc[o].entries, l \in Leaf}
Declared == {<<o, i, l>> : o \in Owner, i \in 1..MaxEntry, l \in Leaf}
            \cap UNION {{<<o, x[1], x[2]>> : x \in Leaves(o)} : o \in Owner}

LeafPath(d) == PathOf(d[1], doc[d[1]].type, d[2], d[3])
Name(d) == WrittenName(d[1], LeafPath(d))
Whose(d) == <<d[1], doc[d[1]].type, doc[d[1]].entries[d[2]], d[3]>>

-----------------------------------------------------------------------------
(* What resolution refuses. *)

ShrunkArray(o, key) ==
    /\ doc[o].type # NoType
    /\ IF o \in Plugin
       THEN LET prefix == Verbatim(Base(o, doc[o].type)) \o <<"/">> IN
            Starts(key, prefix)
            /\ IndexAt(Without(key, prefix), NoEntry) >= Len(doc[o].entries)
       ELSE EntryOf(key, Base(o, doc[o].type)) >= Len(doc[o].entries)

\* A stored name of a credential type the Consumer no longer lists.
\* mutant: an omitted type is not looked at
OmittedType_Ignored(o, key) == o \in Consumer /\ key = <<>>
OmittedType(o, key) ==
    /\ o \in Consumer
    /\ \E t \in Type \ {doc[o].type}: UnderType(key, Base(o, t))

\* A stored name under this plugin that its declared type does not own.
ForeignType(o, key) ==
    /\ o \in Plugin
    /\ Starts(key, Verbatim(<<Lit(o.ns), Lit(o.id), Lit(<<"@">>)>>) \o <<"/">>)
    /\ ~Starts(key, Verbatim(Base(o, doc[o].type)))

Orphan(key) == \E o \in Owner: ShrunkArray(o, key) \/ OmittedType(o, key) \/ ForeignType(o, key)

Remaps == {key \in DOMAIN bundle: Orphan(key)}

Collides == \E d, e \in Declared: d # e /\ Name(d) = Name(e)

Resolves == Remaps = {} /\ ~Collides

-----------------------------------------------------------------------------
Init ==
    /\ doc = [o \in Owner |-> [type |-> NoType, entries |-> <<>>]]
    /\ bundle = [k \in {} |-> <<>>] /\ issued = [d \in {} |-> <<>>]
    /\ used = 0 /\ changed = {}

\* One edit of an owner's shape per apply: two between applies may cancel, and
\* leave the bundle as it was (check_array_slot_identity says what it cannot see).
Edit(o, d) ==
    /\ changed = {} /\ changed' = {o}
    /\ doc' = [doc EXCEPT ![o] = d]
    /\ UNCHANGED <<bundle, issued>>

Append1(o) ==
    /\ used < MaxEntry /\ used' = used + 1 /\ doc[o].type # NoType
    /\ Edit(o, [doc[o] EXCEPT !.entries = Append(@, used + 1)])

Remove(o) ==
    /\ \E i \in DOMAIN doc[o].entries:
         Edit(o, [doc[o] EXCEPT !.entries = SubSeq(@, 1, i - 1) \o SubSeq(@, i + 1, Len(@))])
    /\ UNCHANGED used

\* Declare the type, or another one, with its first entry; or omit it.
Retype(o) ==
    \/ /\ used < MaxEntry /\ used' = used + 1
       /\ \E t \in Type \ {doc[o].type}: Edit(o, [type |-> t, entries |-> <<used + 1>>])
    \/ /\ doc[o].type # NoType /\ o \in Consumer
       /\ Edit(o, [type |-> NoType, entries |-> <<>>]) /\ UNCHANGED used

\* The value of a leaf: the stored one, or one allocated under its name.
Allocated == {d \in Declared: Stored(d[1], LeafPath(d)) = {}}

Apply ==
    /\ Resolves
    /\ LET new == {Name(d) : d \in Allocated}
           names == DOMAIN bundle \cup new
       IN  /\ bundle' = [k \in names |->
                IF k \in DOMAIN bundle THEN bundle[k]
                ELSE Whose(CHOOSE d \in Allocated: Name(d) = k)]
           /\ issued' = [d \in Declared |->
                IF d \in Allocated THEN Whose(d)
                ELSE bundle[CHOOSE k \in Stored(d[1], LeafPath(d)): TRUE]]
    /\ changed' = {} /\ UNCHANGED <<doc, used>>

\* A refused apply changes nothing; the operator moves what survives to its
\* new name and removes the rest, as the refusal says.
FixBundle ==
    /\ Remaps # {}
    /\ LET theirs == {k \in DOMAIN bundle: bundle[k][1] \in changed}
           kept == {d \in Declared: d[1] \in changed /\ \E k \in theirs: bundle[k] = Whose(d)}
       IN  bundle' = [k \in (DOMAIN bundle \ theirs) \cup {Name(d) : d \in kept} |->
                IF k \in {Name(d) : d \in kept}
                THEN Whose(CHOOSE d \in kept: Name(d) = k) ELSE bundle[k]]
    /\ UNCHANGED <<doc, issued, used, changed>>

\* A value an older release allocated under one of the names it wrote.
OldRelease ==
    /\ changed = {} /\ Resolves
    /\ \E d \in Declared, k \in DOMAIN bundle:
         /\ d[1] \in Consumer /\ k = Name(d) /\ bundle[k] = Whose(d)
         /\ \E old \in ReadNames(d[1], LeafPath(d)) \ {k}:
              bundle' = [x \in (DOMAIN bundle \ {k}) \cup {old} |-> bundle[IF x = old THEN k ELSE x]]
    /\ UNCHANGED <<doc, issued, used, changed>>

Done == used = MaxEntry /\ UNCHANGED vars

Next ==
    \/ \E o \in Owner: Append1(o) \/ Remove(o) \/ Retype(o)
    \/ Apply \/ FixBundle \/ OldRelease \/ Done

Spec == Init /\ [][Next]_vars

-----------------------------------------------------------------------------
(* Properties. *)

\* Types: entries are declared identities, at most one owner has changed, and
\* every stored Consumer name starts with its owner's escaped namespace and "/".
TypeOK ==
    /\ \A o \in Owner: doc[o].type \in Type \cup {NoType}
                       /\ \A i \in DOMAIN doc[o].entries: doc[o].entries[i] \in 1..used
    /\ \A k \in DOMAIN bundle:
         /\ bundle[k][1] \in Owner /\ bundle[k][2] \in Type
         /\ Starts(k, Escape(bundle[k][1].ns) \o <<"/">>)
    /\ used \in 0..MaxEntry /\ Cardinality(changed) <= 1

\* Nobody is issued a value that was stored for another Consumer, plugin
\* type, entry or leaf: not a retired one behind a position that shifted or
\* grew again, and not through an older spelling (resolve_secrets).
IssuedToItsOwner ==
    changed = {} => \A d \in DOMAIN issued: d \in Declared => issued[d] = Whose(d)

\* The retirement scan sees every stored name that a lookup could read for
\* an entry the array does not have: "every spelling the lookup still reads
\* names the same slot, so the retirement check scans all of them".
ScanSeesLookups ==
    \A key \in DOMAIN bundle, o \in Owner:
        doc[o].type # NoType =>
            \A i \in (Len(doc[o].entries) + 1)..3, l \in Leaf:
                key \in ReadNames(o, PathOf(o, doc[o].type, i, l)) => key \in Remaps

\* Two leaves of one document never have a name in common, in any spelling
\* that is read (escape_slot_component, is_elided, legacy_slot_from_components).
NamesAreApart ==
    \A d, e \in Declared: d # e =>
        ReadNames(d[1], LeafPath(d)) \cap ReadNames(e[1], LeafPath(e)) = {}

\* Nothing steady is refused: with the repository as it was last applied and
\* the bundle that apply left, resolution succeeds again.
SteadyResolves == changed = {} => Resolves
=============================================================================
