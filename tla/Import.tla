------------------------------- MODULE Import -------------------------------
(***************************************************************************)
(* Import of a live configuration into a repository tree (cmd_import,      *)
(* import/*.rs): one backup is read, every gate is passed, the live        *)
(* secrets go to a private migration bundle, and the tree appears in one   *)
(* rename.  Importers and whoever else writes to the destination share a   *)
(* disk; the gateway changes between two imports.                          *)
(*                                                                         *)
(* A resource is a record [ns, kind, id, leaf, field, spec, rev]: its      *)
(* identity (id is a sequence of characters), the one string that may be   *)
(* secret, an unmodelled top-level field, whether a spec owns it, and a    *)
(* revision of its value.                                                  *)
(***************************************************************************)
EXTENDS Integers, Sequences, FiniteSets

CONSTANTS
    Importer, Namespace,
    Char,           \* the characters of identifiers and file names
    Source,         \* the resources the gateway may hold
    NoField,        \* a resource without unmodelled top-level fields
    Order,          \* the slots' keys in the order of their names
    Size,           \* [key -> bytes of the bundle entry]
    Limit,          \* BUNDLE_SOFT_LIMIT_BYTES
    MaxShards,      \* MAX_BUNDLE_SHARDS
    MaxRows, MaxChanges, MaxStarts  \* bounds: resources, others' changes, imports

(* What a leaf is: brokered, a plugin string nobody classifies, readable    *)
(* configuration, or one of the shapes that cannot be stored.               *)
Leaf == {"secret", "review", "open", "sentinel", "malformed", "nonstring", "userinfo",
         "badtype"}
Resource == [ns : Namespace, kind : STRING, id : Seq(Char) \ {<<>>}, leaf : Leaf,
             field : STRING, spec : BOOLEAN, rev : Nat]

Key(r) == [ns |-> r.ns, kind |-> r.kind, id |-> r.id]
Keys == {Key(r) : r \in Source}
ASSUME ImportAssumption ==
    /\ {"_", "%", "2", "5", "F"} \subseteq Char /\ Source \subseteq Resource
    /\ Order \in Seq(Keys) /\ {Order[i] : i \in DOMAIN Order} = Keys
    /\ \A i, j \in DOMAIN Order: Order[i] = Order[j] => i = j
    /\ Size \in [Keys -> Nat \ {0}] /\ {Limit, MaxShards, MaxRows, MaxChanges, MaxStarts} \subseteq Nat

VARIABLES
    live,           \* the source: what the gateway, or a backup file, holds
    out,            \* the destination: [state, files, truth, opts]
    bundle,         \* the migration bundle on disk: key -> [row, shard]
    job,            \* per importer
    changes, starts

vars == <<live, out, bundle, job, changes, starts>>

NoFiles == [p \in {} |-> ""]
Absent == [state |-> "absent", files |-> NoFiles, truth |-> {}, allow |-> {}]
Foreign == [Absent EXCEPT !.state = "foreign"]
NoBundle == [k \in {} |-> ""]
Idle == [pc |-> "idle", rows |-> {}, truth |-> {}, opts |-> {}, where |-> "none",
         existed |-> FALSE]

-----------------------------------------------------------------------------
(* Names of files, and what the loader makes of them. *)

FileName(id) ==
    CASE id[1] = "_" -> <<"%", "5", "F">> \o Tail(id)
      [] id[1] = "%" -> <<"%", "2", "5">> \o Tail(id)
      [] OTHER -> id

PathFor(r) == [ns |-> r.ns, dir |-> r.kind, name |-> FileName(r.id)]

\* A leading "_" means "intentionally disabled".
Enabled(p) == p.name[1] # "_"
Loaded(files) == {files[p] : p \in {q \in DOMAIN files: Enabled(q)}}

-----------------------------------------------------------------------------
(* The gates, over the rows of one source. *)

Brokered(r) == r.leaf = "secret"
Unstorable(r) == r.leaf \in {"sentinel", "malformed", "nonstring", "userinfo", "badtype"}

Redacted(r) == IF Brokered(r) THEN [r EXCEPT !.leaf = "placeholder", !.rev = 0] ELSE r

SpecOwned(r) == r.spec /\ r.kind # "consumers"
Written(rows) == {r \in rows : ~SpecOwned(r)}

UnknownFieldsPass(rows, opts) ==
    {r.field : r \in Written(rows)} \ {NoField} = {} \/ {"acknowledged", "allowUnknown"} \subseteq opts

PlaintextPasses(rows, opts) ==
    (\E r \in Written(rows): r.leaf = "review") => "plaintext" \in opts

Captured(rows) == {r \in Written(rows) : Brokered(r)}
SlotsAreDistinct(rows) == \A r, s \in Captured(rows): Key(r) = Key(s) => r = s
FilesAreDistinct(rows) == \A r, s \in Written(rows): PathFor(r) = PathFor(s) => r = s

(* First fit over the slots in order; a shard's object costs two bytes and  *)
(* every entry after its first a comma.                                     *)
Cost(current, k) == Size[k] + (IF current > 2 THEN 1 ELSE 0)

\* One slot more: in the first shard that has room, or in a new one.
Fitted(p, k) ==
    LET fits == {n \in DOMAIN p.sizes : p.sizes[n] + Cost(p.sizes[n], k) <= Limit}
        n == IF fits = {} THEN Len(p.sizes) + 1 ELSE CHOOSE m \in fits: \A x \in fits: m <= x
    IN  [sizes |-> IF fits = {} THEN Append(p.sizes, 2 + Cost(2, k))
                   ELSE [p.sizes EXCEPT ![n] = @ + Cost(@, k)],
         at |-> [x \in DOMAIN p.at \cup {k} |-> IF x = k THEN n ELSE p.at[x]]]

Packing(keys) ==
    LET pack[i \in 0..Len(Order)] ==
            IF i = 0 THEN [sizes |-> <<2>>, at |-> NoBundle]
            ELSE IF Order[i] \in keys THEN Fitted(pack[i - 1], Order[i]) ELSE pack[i - 1]
    IN  pack
Packed(rows) == Packing({Key(r) : r \in Captured(rows)})[Len(Order)]

BundleFits(rows) == LET sizes == Packed(rows).sizes IN
    Len(sizes) <= MaxShards /\ \A n \in DOMAIN sizes: sizes[n] <= Limit

NeedsBundle(rows, where) == Captured(rows) # {} => where # "none"
PrivatePlace(where) == where \in {"none", "outside"}

Passes(j) ==
    /\ UnknownFieldsPass(j.rows, j.opts) /\ \A r \in Written(j.rows): ~Unstorable(r)
    /\ PlaintextPasses(j.rows, j.opts) /\ SlotsAreDistinct(j.rows)
    /\ NeedsBundle(j.rows, j.where) /\ PrivatePlace(j.where)
    /\ FilesAreDistinct(j.rows)

-----------------------------------------------------------------------------
Init ==
    /\ live \in {s \in SUBSET Source : Cardinality(s) <= MaxRows}
    /\ out \in {Absent, [Absent EXCEPT !.state = "empty"]} /\ bundle = NoBundle
    /\ job = [i \in Importer |-> Idle]
    /\ changes = 0 /\ starts = 0

Go(i, j) == job' = [job EXCEPT ![i] = j]
Goto(i, l) == Go(i, [job[i] EXCEPT !.pc = l])
End(i) == Go(i, Idle)
Env == <<live, changes, starts>>

Start(i) ==
    /\ job[i].pc = "idle" /\ starts < MaxStarts /\ starts' = starts + 1
    /\ Go(i, [Idle EXCEPT !.pc = "read"])
    /\ UNCHANGED <<live, out, bundle, changes>>

\* What the admin API answers for one namespace: the whole backup, one that
\* lost a row on the way (its count seal disagrees), or the gateway's cached
\* view, which names no owning spec.
Answer(rows) ==
    {[rows |-> rows, cached |-> FALSE, sealed |-> TRUE]}
    \cup {[rows |-> rows \ {r}, cached |-> FALSE, sealed |-> FALSE] : r \in rows}
    \cup {[rows |-> {[r EXCEPT !.spec = FALSE] : r \in rows}, cached |-> TRUE, sealed |-> TRUE]}

Complete(a) == ~a.cached /\ a.sealed

Read(i, a, truth) ==
    IF Complete(a)
    THEN Go(i, [job[i] EXCEPT !.pc = "gates", !.rows = a.rows, !.truth = truth])
    ELSE End(i)

\* One namespace at a time: the command asks for an explicit one.
ReadApi(i) ==
    /\ job[i].pc = "read" /\ \A r, s \in live: Key(r) = Key(s) => r = s
    /\ \E ns \in Namespace:
         LET rows == {r \in live : r.ns = ns} IN \E a \in Answer(rows): Read(i, a, rows)
    /\ UNCHANGED <<Env, out, bundle>>

\* A whole document, which must lie inside the selection, if there is one.
ReadFile(i) ==
    /\ job[i].pc = "read"
    /\ \E selected \in SUBSET Namespace:
         IF {r.ns : r \in live} \subseteq selected
         THEN Read(i, [rows |-> live, cached |-> FALSE, sealed |-> TRUE], live)
         ELSE End(i)
    /\ UNCHANGED <<Env, out, bundle>>

\* Every gate, the plan of the files, and the empty destination; the flags and
\* the bundle's place are the operator's.
Options == SUBSET {"acknowledged", "allowUnknown", "plaintext"}
Gates(i) ==
    /\ job[i].pc = "gates"
    /\ \E opts \in Options, where \in {"none", "outside", "inside"}:
         LET j == [job[i] EXCEPT !.opts = opts, !.where = where, !.pc = "bundle"] IN
         IF Passes(j) /\ out.state \in {"absent", "empty"}
         THEN Go(i, j)
         ELSE End(i)
    /\ UNCHANGED <<Env, out, bundle>>

\* mutant: a bundle that exists is kept
Replaced_Kept(new) == IF bundle = NoBundle THEN new ELSE bundle
Replaced(new) == new

\* Atomic, and before the tree; refused when the slots do not fit.
PublishBundle(i) ==
    /\ job[i].pc = "bundle"
    /\ LET rows == job[i].rows IN
       IF job[i].where = "none" THEN Goto(i, "inspect") /\ UNCHANGED bundle
       ELSE IF ~BundleFits(rows) THEN End(i) /\ UNCHANGED bundle
       ELSE /\ bundle' = Replaced([k \in {Key(r) : r \in Captured(rows)} |->
                  [row |-> CHOOSE r \in Captured(rows): Key(r) = k, shard |-> Packed(rows).at[k]]])
            /\ Goto(i, "inspect")
    /\ UNCHANGED <<Env, out>>

\* The first look at the destination, then files, permissions and syncs in a
\* temporary sibling.
Inspect(i) ==
    /\ job[i].pc = "inspect"
    /\ IF out.state \in {"absent", "empty"}
       THEN Go(i, [job[i] EXCEPT !.pc = "recheck", !.existed = out.state = "empty"])
       ELSE End(i)
    /\ UNCHANGED <<Env, out, bundle>>

Recheck(i) ==
    /\ job[i].pc = "recheck"
    /\ IF out.state = (IF job[i].existed THEN "empty" ELSE "absent")
       THEN Goto(i, "rename") ELSE End(i)
    /\ UNCHANGED <<Env, out, bundle>>

\* rename(2) replaces nothing but an empty directory.
\* mutant: the destination is removed first
Renames_Always(d) == d \in {"absent", "empty", "foreign", "tree"}
Renames(d) == d \in {"absent", "empty"}

Rename(i) ==
    /\ job[i].pc = "rename"
    /\ IF Renames(out.state)
       THEN /\ out' = [state |-> "tree", truth |-> job[i].truth, allow |-> job[i].opts,
                       files |-> [p \in {PathFor(r) : r \in Written(job[i].rows)} |->
                         Redacted(CHOOSE r \in Written(job[i].rows): PathFor(r) = p)]]
            /\ End(i)
       ELSE End(i) /\ UNCHANGED out
    /\ UNCHANGED <<Env, bundle>>

Crash(i) == job[i].pc # "idle" /\ End(i) /\ UNCHANGED <<Env, out, bundle>>

\* The gateway: a resource appears, changes its value or goes.
Change ==
    /\ changes < MaxChanges /\ changes' = changes + 1
    /\ \E r \in Source:
         live' \in {{s \in live : Key(s) # Key(r)} \cup {r}, live \ {r}} \ {live}
    /\ UNCHANGED <<out, bundle, job, starts>>

\* Somebody else writes to the destination, or clears it.
Intrude ==
    /\ changes < MaxChanges /\ changes' = changes + 1
    /\ out' \in {Foreign, [Absent EXCEPT !.state = "empty"], Absent} \ {out}
    /\ UNCHANGED <<live, bundle, job, starts>>

Done == starts = MaxStarts /\ (\A i \in Importer: job[i] = Idle) /\ UNCHANGED vars

Next ==
    \/ \E i \in Importer:
         \/ Start(i) \/ ReadApi(i) \/ ReadFile(i) \/ Gates(i) \/ PublishBundle(i)
         \/ Inspect(i) \/ Recheck(i) \/ Rename(i) \/ Crash(i)
    \/ Change \/ Intrude \/ Done

Spec == Init /\ [][Next]_vars

-----------------------------------------------------------------------------
(* Properties. *)

\* Types: a tree exists exactly when an import has put it there, and no import
\* passes the gates with a bundle placed inside a tree or a repository.
TypeOK ==
    /\ live \subseteq Source /\ out.state \in {"absent", "empty", "foreign", "tree"}
    /\ (out.files # NoFiles => out.state = "tree") /\ DOMAIN bundle \subseteq Keys
    /\ \A i \in Importer: job[i].pc \in {"bundle", "inspect", "recheck", "rename"} => job[i].where # "inside"

\* The tree holds no live secret, and an unclassified or unmodelled value only
\* on the operator's word (split_config_with_inventory).
NoPlaintext ==
    \A r \in Loaded(out.files):
        /\ r.leaf # "secret"
        /\ r.leaf = "review" => "plaintext" \in out.allow
        /\ r.field # NoField => "acknowledged" \in out.allow

\* Whatever the tree replaced by a placeholder is in the migration bundle, with
\* the value the gateway had, in a shard that fits its secret: whatever fails,
\* crashes or is retried (the bundle is published first).
NothingLost ==
    \A r \in {x \in out.truth : out.state = "tree" /\ ~SpecOwned(x) /\ x.leaf = "secret"}:
        Key(r) \in DOMAIN bundle /\ bundle[Key(r)].row = r

\* The bytes of the entries of some slots.
Weight(ks) ==
    LET sum[i \in 0..Len(Order)] ==
            IF i = 0 THEN 0
            ELSE sum[i - 1] + (IF Order[i] \in ks THEN Size[Order[i]] ELSE 0)
    IN  sum

\* No shard of the bundle is over the limit, commas and braces counted.
ShardsFit ==
    \A n \in 1..MaxShards:
        LET mine == {k \in DOMAIN bundle : bundle[k].shard = n}
        IN  mine # {} => 2 + Weight(mine)[Len(Order)] + Cardinality(mine) - 1 <= Limit

\* The loader reads back every resource the source had and no spec owns, under
\* the flags of the import: none missing, none hidden behind a file name, none
\* dropped by a truncated or a cached answer.
LoadsBack ==
    out.state = "tree" =>
        /\ {Key(r) : r \in Loaded(out.files)} = {Key(r) : r \in Written(out.truth)}
        /\ (\E r \in Loaded(out.files): r.field # NoField) => "allowUnknown" \in out.allow

\* A source of one resource per key with nothing to object to is imported,
\* unless somebody else is at the destination or the bundle is full.
CleanSourceIsImported ==
    \A i \in Importer:
        LET rows == Written(job[i].rows) IN
        (/\ job[i].pc = "gates"
         /\ \A r, s \in rows: Key(r) = Key(s) => r = s
         /\ \A r \in rows: ~Unstorable(r))
        => Passes([job[i] EXCEPT !.where = "outside",
                        !.opts = {"acknowledged", "allowUnknown", "plaintext"}])

\* The tree and its private bundle together hold whatever the source had, the
\* tree alone none of its secrets, and the loader reads every resource back; no
\* crash or retry, and nothing that appears at the destination meanwhile,
\* changes that, and nothing else than what the gates name is refused.  (Of
\* imports that do not overlap: the second of two into one destination replaces
\* the bundle of the first.)
ImportIsWhole ==
    TypeOK /\ NothingLost /\ LoadsBack /\ NoPlaintext /\ CleanSourceIsImported

\* A step of an import never replaces what somebody else put at the destination,
\* nor a tree that an import has published.
OthersSurvive ==
    [][out.state \in {"foreign", "tree"} /\ out' # out => changes' = changes + 1]_vars
=============================================================================
