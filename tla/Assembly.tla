------------------------------ MODULE Assembly ------------------------------
(***************************************************************************)
(* From the resource tree to the desired configuration (config/loader.rs,  *)
(* config/assembler.rs): overlay fragments are merged into the base        *)
(* resources they address, mesh fragments into one mesh document, and the  *)
(* gateway resources are put into the form the gateway stores.  Fragments  *)
(* are taken in any order: the code takes them in the order of their       *)
(* paths, and nothing may depend on how files are called.                  *)
(*                                                                         *)
(* A resource is [kind, dir, ns, id, fields, list]: its directory, its own *)
(* namespace field, its scalar fields (a partial function) and the one     *)
(* array that matters for its kind, a sequence of members [name, val].     *)
(***************************************************************************)
EXTENDS Integers, Sequences, FiniteSets

CONSTANTS
    Base, Overlay,      \* the files that may be in the tree, and in the overlay
    Namespace, AllNs,   \* a run is filtered by one namespace, or not at all
    Lexical,            \* plugin identifiers in lexical order
    NoName,             \* a member that cannot be identified
    NoList,             \* an overlay that does not set the array
    MaxBase, MaxOverlay \* bounds: files in the tree, and in the overlay

DefaultNs == "ferrum"

Members(s) == {s[i] : i \in DOMAIN s}
Names(s) == {s[i].name : i \in DOMAIN s}

IsList(s) == s \in Seq(Members(s))
IsResource(r) ==
    r = [kind |-> r.kind, dir |-> r.dir, ns |-> r.ns, id |-> r.id,
         fields |-> r.fields, list |-> r.list]
AssemblyAssumption ==
    /\ AllNs \notin Namespace /\ {MaxBase, MaxOverlay} \subseteq Nat /\ IsList(Lexical)
    /\ \A r \in Base : /\ IsResource(r) /\ IsList(r.list)
                       /\ r.kind = "PluginConfig" => r.id \in Members(Lexical)
    /\ \A o \in Overlay : IsResource(o) /\ (o.list # NoList => IsList(o.list))

VARIABLES
    base, over, filter,     \* the inputs of the run
    tree,                   \* base resources as merged so far
    rest, targets,          \* overlay fragments not yet merged, keys addressed
    parts, mesh,            \* mesh fragments not yet folded in, and the document
    gateway,                \* the assembled gateway resources
    phase                   \* overlay, mesh, done, conflict or refused

vars == <<base, over, filter, tree, rest, targets, parts, mesh, gateway, phase>>

-----------------------------------------------------------------------------
(* Which resource a file is about. *)

Effective(dir, ns) == IF ns = DefaultNs THEN dir ELSE ns

\* A mesh fragment has no namespace of its own.
Key(r) == [kind |-> r.kind, id |-> r.id,
           ns |-> IF r.kind = "MeshConfig" THEN r.dir ELSE Effective(r.dir, r.ns)]

\* An overlay that names no namespace means its directory.
Target(o) == Key(IF o.ns = "" THEN [o EXCEPT !.ns = DefaultNs] ELSE o)

-----------------------------------------------------------------------------
(* The merge of one fragment. *)

Override(f, g) == [k \in DOMAIN f \cup DOMAIN g |-> IF k \in DOMAIN g THEN g[k] ELSE f[k]]

Additive(kind) == kind \in {"Proxy", "Upstream", "MeshConfig"}

\* One member: over the one of its name, or at the end.
Place(items, m) ==
    LET same == {i \in DOMAIN items : items[i].name = m.name} IN
    IF m.name = NoName THEN IF m \in Members(items) THEN items ELSE Append(items, m)
    ELSE IF same = {} THEN Append(items, m)
    ELSE [items EXCEPT ![CHOOSE i \in same: \A j \in same: i <= j] = m]

Placed(old, new) ==
    LET placed[i \in 0..Len(new)] == IF i = 0 THEN old ELSE Place(placed[i - 1], new[i])
    IN  placed
MergeList(kind, old, new) == IF Additive(kind) THEN Placed(old, new)[Len(new)] ELSE new

\* An overlay may still spell the scheme by its older name.
Alias == "backend_protocol"
Scheme == "backend_scheme"
AliasAgrees(f) == {Alias, Scheme} \subseteq DOMAIN f => f[Alias] = f[Scheme]
Canonical(f) ==
    IF Alias \notin DOMAIN f THEN f
    ELSE [k \in (DOMAIN f \ {Alias}) \cup {Scheme} |-> IF k = Scheme THEN f[Alias] ELSE f[k]]

Anchor(r, o) == Target(o).ns

Merged(r, o) == [r EXCEPT
    !.ns = IF o.ns = "" THEN @ ELSE o.ns,
    !.dir = Anchor(r, o),
    !.fields = Override(@, Canonical(o.fields)),
    !.list = IF o.list = NoList THEN @ ELSE MergeList(r.kind, @, o.list)]

-----------------------------------------------------------------------------
(* The forms the gateway stores. *)

Plugins(rs) == {r \in rs : r.kind = "PluginConfig"}
ScopedTo(p, rs) ==
    {q.id : q \in {x \in Plugins(rs) : /\ x.fields["scope"] = "proxy" /\ x.fields["proxy_id"] = p.id
                                       /\ Key(x).ns = Key(p).ns}}

\* One association, unless its plugin is associated already.
Associate(items, m) == IF m.name \in Names(items) THEN items ELSE Append(items, m)

Firsts(s) ==
    LET kept[i \in 0..Len(s)] == IF i = 0 THEN <<>> ELSE Associate(kept[i - 1], s[i])
    IN  kept
FirstOnly(s) == Firsts(s)[Len(s)]

Member(n) == [name |-> n, val |-> ""]
Derived(items, ids) ==
    LET derived[i \in 0..Len(Lexical)] ==
            IF i = 0 THEN items
            ELSE IF Lexical[i] \in ids THEN Associate(derived[i - 1], Member(Lexical[i]))
            ELSE derived[i - 1]
    IN  derived
Associated(p, rs) == Derived(FirstOnly(p.list), ScopedTo(p, rs))[Len(Lexical)]

IsStream(p) == "listen_port" \in DOMAIN p.fields
WithScheme(p) ==
    IF IsStream(p) \/ Scheme \in DOMAIN p.fields THEN p
    ELSE [p EXCEPT !.fields = Override(@, [k \in {Scheme} |-> "https"])]

\* A credential written as one object becomes a list of one.
WithArrays(c) ==
    IF "object" \in DOMAIN c.fields
    THEN [c EXCEPT !.list = <<Member(c.fields["object"])>>,
                   !.fields = [k \in DOMAIN c.fields \ {"object"} |-> c.fields[k]]]
    ELSE c

Stored(r, rs) ==
    CASE r.kind = "Proxy" -> [WithScheme(r) EXCEPT !.list = Associated(r, rs)]
      [] r.kind = "Consumer" -> WithArrays(r)
      [] OTHER -> r

\* The namespace is settled, then everything is normalised.
Settled(rs) == {[r EXCEPT !.ns = Key(r).ns, !.dir = Key(r).ns] : r \in rs}
Normalised(rs) == {Stored(r, rs) : r \in rs}

-----------------------------------------------------------------------------
(* The mesh document. *)

NoMesh == [root |-> {}, members |-> <<>>]
RootOf(f) == IF "root" \in DOMAIN f.fields THEN {f.fields["root"]} ELSE {}

Agrees(m, doc) ==
    \/ m.name = NoName
    \/ \A i \in DOMAIN doc.members: doc.members[i].name = m.name => doc.members[i] = m

\* mutant: the first definition wins
Folds_First(f, doc) == Cardinality(doc.root) <= 1 /\ f.kind = "MeshConfig"
Folds(f, doc) ==
    /\ Cardinality(doc.root \cup RootOf(f)) <= 1
    /\ \A i \in DOMAIN f.list: Agrees(f.list[i], doc)
    /\ \A i, j \in DOMAIN f.list:
         f.list[i].name = f.list[j].name /\ f.list[i].name # NoName => f.list[i] = f.list[j]

\* A member that is there already as it is defined comes once.
Include(items, m) ==
    IF m.name # NoName /\ m \in Members(items) THEN items ELSE Append(items, m)

Included(items, s) ==
    LET included[i \in 0..Len(s)] ==
            IF i = 0 THEN items ELSE Include(included[i - 1], s[i])
    IN  included
Fold(f, doc) ==
    [root |-> IF doc.root = {} THEN RootOf(f) ELSE doc.root,
     members |-> Included(doc.members, f.list)[Len(f.list)]]

-----------------------------------------------------------------------------
Few(s, n) == {x \in SUBSET s : Cardinality(x) <= n}

Init ==
    /\ base \in Few(Base, MaxBase) /\ over \in Few(Overlay, MaxOverlay)
    /\ filter \in Namespace \cup {AllNs}
    /\ tree = base /\ rest = over /\ targets = {}
    /\ parts = {} /\ mesh = NoMesh /\ gateway = {} /\ phase = "overlay"

Inputs == <<base, over, filter>>

DistinctKeys(rs) == \A r, s \in rs: Key(r) = Key(s) => r = s

\* Duplicate base keys are refused when there is an overlay to look them up.
RefuseDuplicates ==
    /\ phase = "overlay" /\ over # {} /\ tree = base /\ ~DistinctKeys(base)
    /\ phase' = "refused"
    /\ UNCHANGED <<Inputs, tree, rest, targets, parts, mesh, gateway>>

Accepts(o) ==
    /\ o.id # "" /\ Target(o) \notin targets
    /\ Target(o) \in {Key(r) : r \in tree}
    /\ o.kind = "Proxy" => AliasAgrees(o.fields)

MergeOne ==
    /\ phase = "overlay" /\ (over = {} \/ DistinctKeys(base))
    /\ \E o \in rest:
         /\ rest' = rest \ {o}
         /\ IF Accepts(o)
            THEN /\ targets' = targets \cup {Target(o)} /\ UNCHANGED phase
                 /\ tree' = {IF Key(r) = Target(o) THEN Merged(r, o) ELSE r : r \in tree}
            ELSE phase' = "refused" /\ UNCHANGED <<tree, targets>>
    /\ UNCHANGED <<Inputs, parts, mesh, gateway>>

Selected(r) == filter = AllNs \/ Key(r).ns = filter
Fragments == {r \in tree : r.kind = "MeshConfig"}

\* Everything but the mesh, which is folded one fragment at a time.
Assemble ==
    /\ phase = "overlay" /\ rest = {} /\ (over = {} \/ DistinctKeys(base))
    /\ gateway' = Normalised(Settled(tree \ Fragments))
    /\ parts' = {r \in Fragments : Selected(r)} /\ phase' = "mesh"
    /\ UNCHANGED <<Inputs, tree, rest, targets, mesh>>

FoldOne ==
    /\ phase = "mesh"
    /\ \E f \in parts:
         /\ parts' = parts \ {f}
         /\ IF Folds(f, mesh) THEN mesh' = Fold(f, mesh) /\ UNCHANGED phase
            ELSE phase' = "conflict" /\ UNCHANGED mesh
    /\ UNCHANGED <<Inputs, tree, rest, targets, gateway>>

\* A filter that selects nothing of a tree that holds something is an error.
NothingSelected(rs) == filter # AllNs /\ base # {} /\ rs = {}

Select ==
    /\ phase = "mesh" /\ parts = {}
    /\ LET mine == {r \in gateway : Selected(r)} IN
       /\ gateway' = mine
       /\ phase' = IF NothingSelected(mine \cup {r \in Fragments : Selected(r)}) THEN "refused" ELSE "done"
    /\ UNCHANGED <<Inputs, tree, rest, targets, parts, mesh>>

Done == phase \in {"done", "conflict", "refused"} /\ UNCHANGED vars

Next == RefuseDuplicates \/ MergeOne \/ Assemble \/ FoldOne \/ Select \/ Done

Spec == Init /\ [][Next]_vars

-----------------------------------------------------------------------------
(* Properties. *)

\* Types: what is left to merge and fold belongs to the run, and a proxy has a
\* default scheme only where it has no port of its own.
TypeOK ==
    /\ rest \subseteq over /\ targets \subseteq {Target(o) : o \in over}
    /\ parts \subseteq Fragments /\ phase \in {"overlay", "mesh", "done", "conflict", "refused"}
    /\ \A r \in {x \in gateway : x.kind = "Proxy" /\ "listen_port" \in DOMAIN x.fields}:
         Scheme \in DOMAIN r.fields => \E t \in tree: Key(t) = Key(r) /\ Scheme \in DOMAIN t.fields

\* An overlay moves no resource to another namespace and adds or removes none:
\* the tree keeps its keys whatever directory and namespace field the base and
\* the fragment spell (apply_overlay_with_options re-anchors the directory).
OverlayKeepsKeys == {Key(r) : r \in tree} = {Key(r) : r \in base}

\* A fragment that names a member twice means the later one.
IsLast(i, s) == s[i].name # NoName => \A j \in DOMAIN s: i < j => s[j].name # s[i].name

\* An array of members grows by the fragment's and keeps the others as they
\* were; any other array is exactly what the fragment says, so that an overlay
\* can narrow it (array_merge_identity).
OverlayNarrowsOrAdds ==
    \A b \in base, o \in over:
        (/\ phase = "mesh" /\ Target(o) = Key(b) /\ o.list # NoList /\ o \notin rest)
        => \E t \in tree:
             /\ Key(t) = Key(b)
             /\ IF b.kind \notin {"Proxy", "Upstream", "MeshConfig"} THEN t.list = o.list
                ELSE /\ \A i \in DOMAIN o.list: IsLast(i, o.list) => o.list[i] \in Members(t.list)
                     /\ \A i \in DOMAIN b.list:
                          (b.list[i].name = NoName \/ b.list[i].name \notin Names(o.list))
                          => t.list[i] = b.list[i]

\* The gateway derives associations when it stores a scoped plugin: the desired
\* proxy names each of its plugins once, the authored ones first and in their
\* order, and normalising again changes nothing (else every run shows drift).
NormalisingIsStable ==
    phase = "mesh" =>
        /\ Normalised(gateway) = gateway
        /\ \A p \in {r \in gateway : r.kind = "Proxy"}:
             /\ \A i, j \in DOMAIN p.list: p.list[i].name = p.list[j].name => i = j
             /\ \A q \in Plugins(gateway):
                  (q.fields["scope"] = "proxy" /\ q.fields["proxy_id"] = p.id /\ q.ns = p.ns)
                  => q.id \in Names(p.list)

\* The mesh document does not depend on the order of its fragments: it is
\* refused exactly when two definitions of one thing differ, else it holds every
\* member, each named one once (merge_mesh_fragments).  Of the order in which
\* members stand it says nothing.
Conflict(fs) ==
    \E f, g \in fs:
      \/ RootOf(f) # {} /\ RootOf(g) # {} /\ RootOf(f) # RootOf(g)
      \/ \E i \in DOMAIN f.list, j \in DOMAIN g.list:
           f.list[i].name = g.list[j].name /\ f.list[i].name # NoName /\ f.list[i] # g.list[j]
MeshIsOrderless ==
    LET mine == {r \in Fragments : Selected(r)} IN
    /\ phase = "done" => /\ ~Conflict(mine)
                         /\ Members(mesh.members) = UNION {Members(f.list) : f \in mine}
                         /\ mesh.root = UNION {RootOf(f) : f \in mine}
                         /\ \A i, j \in DOMAIN mesh.members:
                              mesh.members[i].name = mesh.members[j].name /\ mesh.members[i].name # NoName => i = j
    /\ phase = "conflict" => Conflict(mine)

\* A filtered run deploys what the unfiltered one deploys in its namespace: what
\* a resource is made of does not depend on the resources of another namespace.
SelectionIsAShare ==
    phase = "done" =>
        gateway = Normalised({r \in Settled(tree \ Fragments) : filter \in {AllNs, r.ns}})

\* What holds of an assembly at every moment.
DesiredIsSound ==
    /\ TypeOK /\ OverlayKeepsKeys /\ OverlayNarrowsOrAdds
    /\ NormalisingIsStable /\ MeshIsOrderless /\ SelectionIsAShare
=============================================================================
