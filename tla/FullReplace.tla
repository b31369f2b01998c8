---------------------------- MODULE FullReplace ----------------------------
(***************************************************************************)
(* Apply with strategy full_replace, in exclusive ownership (prepare_apply *)
(* to apply_prepared, apply/api_target.rs; conditional_backup,             *)
(* http_client/conditional.rs; post_restore and build_restore_body,        *)
(* http_client.rs; cmd_apply, main.rs).                                    *)
(*                                                                         *)
(* The run reads every namespace with its token, prepares every restore    *)
(* body, and only then replaces the namespaces one after the other.        *)
(* Administrators, the API-spec importer and trust rotations write at any  *)
(* time.  A row carries its content, the API spec that owns it, and what   *)
(* of it this build cannot express.                                        *)
(***************************************************************************)
EXTENDS Ledger, Sequences, Integers

CONSTANTS
    Order,          \* the namespaces of a run, in their order
    Declared,       \* SUBSET Key, what the repository declares
    ApiSpec,        \* API-spec documents
    SpecNs,         \* [ApiSpec -> Namespace]
    OwnerOf,        \* [ApiSpec -> Key], a document's owning proxy
    NoSpec, NoRow,
    Rows,           \* the rows a key may hold in an instance
    MaxChanges,     \* bound on the writes of others
    MaxRuns         \* bound on the runs

\* "top" and "nested" fields, and credentials no declaration can express.
Unknown == {"none", "top", "nested", "hidden"}
Row == [content : {"declared", "other"}, spec : ApiSpec \cup {NoSpec}, unknown : Unknown]
Trust == 0..MaxChanges

ASSUME FullReplaceAssumption ==
    /\ Declared \subseteq Key /\ SpecNs \in [ApiSpec -> Namespace]
    /\ OwnerOf \in [ApiSpec -> Key] /\ \A d \in ApiSpec : NsOf[OwnerOf[d]] = SpecNs[d]
    /\ NoSpec \notin ApiSpec /\ Rows \subseteq Row \cup {NoRow} /\ NoRow \notin Row
    /\ Order \in Seq(Namespace) /\ Order # <<>>
    /\ \A ns \in Namespace : \E i \in DOMAIN Order : Order[i] = ns
    /\ \A i, j \in DOMAIN Order : Order[i] = Order[j] => i = j
    /\ MaxChanges \in Nat /\ MaxRuns \in Nat

VARIABLES
    rows, docs, trust, rev, outage,         \* the gateway
    disk,                                   \* the ledger file
    pc, confirm, withheld,                  \* the run and its inputs
    snap,                                   \* [Namespace -> snapshot], as read
    bodies, blocked,                        \* PreparedApply
    pos, mem, replaced, errors, fatal,
    changes, runs

gateway == <<rows, docs, trust, rev, outage>>
prepared == <<bodies, blocked>>
inputs == <<confirm, withheld>>
bounds == <<changes, runs>>
vars == <<gateway, disk, pc, inputs, snap, prepared, pos, mem,
          replaced, errors, fatal, bounds>>

DeclaredOf(nss) == Declared \cap KeysIn(nss)
DeclaredIn(ns) == Declared \cap KeysIn({ns})
Restored == [content |-> "declared", spec |-> NoSpec, unknown |-> "none"]
NoBody == [rows |-> <<>>, docs |-> {}, section |-> FALSE, trust |-> {}]

-----------------------------------------------------------------------------
(* The restore body.                                                       *)

Live(s) == {k \in DOMAIN s.rows : s.rows[k] # NoRow}
Tagged(s) == {k \in Live(s) : s.rows[k].spec # NoSpec}
Tags(s) == {s.rows[k].spec : k \in Tagged(s)}

SpecConflict(ns, s) == DeclaredIn(ns) \cap Tagged(s) # {}

(* Documents and tagged rows are one unit: each names the other.           *)
GraphProvable(s) ==
    /\ Tags(s) = s.docs
    /\ \A d \in s.docs : OwnerOf[d] \in Tagged(s) /\ s.rows[OwnerOf[d]].spec = d

(* A restore replaces a Consumer, credentials it does not carry included.  *)
Unrepresentable(ns, s) ==
    \E k \in DeclaredIn(ns) \cap Live(s) : s.rows[k].unknown = "hidden"

Carried(ns, s) == IF confirm THEN {} ELSE Tagged(s)
(* Fields a rewrite would reset.  Carried rows keep their top-level ones.  *)
UnmodeledField(ns, s) ==
    \/ \E k \in DeclaredIn(ns) \cap Live(s) : s.rows[k].unknown \in {"top", "nested"}
    \/ \E k \in Carried(ns, s) : s.rows[k].unknown = "nested"

Body_DesiredOnly(ns, s) ==   \* mutant: the spec-owned rows are left out
    [rows |-> [k \in KeysIn({ns}) |-> IF k \in DeclaredIn(ns) THEN Restored ELSE NoRow],
     docs |-> {}, section |-> TRUE, trust |-> {}]
(* Desired rows and live spec-owned ones, with their documents if any; the *)
(* trust roots never travel.                                               *)
Body(ns, s) ==
    [rows |-> [k \in KeysIn({ns}) |->
                 IF k \in DeclaredIn(ns) THEN Restored
                 ELSE IF k \in Carried(ns, s)
                      THEN [s.rows[k] EXCEPT !.unknown =
                              IF @ = "nested" THEN "none" ELSE @]
                      ELSE NoRow],
     docs |-> IF confirm THEN {} ELSE s.docs,
     section |-> ~confirm /\ s.docs # {}, trust |-> {}]

-----------------------------------------------------------------------------

(* Every document's proxy is there and every tag names a document.         *)
Consistent(r, ds) ==
    \A k \in Key : r[k] # NoRow =>
        /\ r[k].unknown = "none"
        /\ r[k].spec # NoSpec <=> \E d \in ds : OwnerOf[d] = k /\ r[k].spec = d
Init ==
    /\ docs \in SUBSET ApiSpec
    /\ rows \in {r \in [Key -> Rows] : Consistent(r, docs)}
    /\ \A d \in docs : rows[OwnerOf[d]] # NoRow
    /\ trust = [ns \in Namespace |-> 0]
    /\ rev = [ns \in Namespace |-> 0] /\ outage = FALSE
    /\ disk \in {EmptyLedger, [managed |-> Declared, pending |-> {}],
                [managed |-> {}, pending |-> Declared]}
    /\ pc = "idle" /\ confirm = FALSE /\ withheld = {}
    /\ snap = [ns \in Namespace |-> NoBody]
    /\ bodies = [ns \in Namespace |-> NoBody] /\ blocked = {}
    /\ pos = 1 /\ mem = EmptyLedger /\ replaced = {} /\ errors = {} /\ fatal = FALSE
    /\ changes = 0 /\ runs = 0

Start ==
    /\ pc = "idle" /\ runs < MaxRuns /\ runs' = runs + 1
    /\ confirm' \in BOOLEAN /\ withheld' \in {{}} \cup {{ns} : ns \in Namespace}
    /\ pc' = "read" /\ mem' = disk
    /\ UNCHANGED <<gateway, disk, changes, snap, prepared, pos, replaced, errors, fatal>>

(* A run leaves nothing behind but the ledger file.                        *)
Over ==
    /\ pc' = "idle" /\ pos' = 1 /\ mem' = EmptyLedger
    /\ snap' = [ns \in Namespace |-> NoBody] /\ bodies' = [ns \in Namespace |-> NoBody]
    /\ confirm' = FALSE /\ withheld' = {} /\ blocked' = {}
    /\ replaced' = {} /\ errors' = {} /\ fatal' = FALSE
    /\ UNCHANGED <<gateway, bounds>>

Ns == Order[pos]
Quiet == UNCHANGED <<gateway, inputs, bounds, disk>>

Snapshot(ns) == [rows |-> [k \in KeysIn({ns}) |-> rows[k]],
                 docs |-> {d \in docs : SpecNs[d] = ns},
                 rev |-> rev[ns], trust |-> trust[ns]]
(* One coherent backup per namespace; a cached one ends the run.           *)
ReadNamespace ==
    /\ pc = "read"
    /\ IF ~outage
         THEN /\ snap' = [snap EXCEPT ![Ns] = Snapshot(Ns)]
              /\ pos' = IF pos < Len(Order) THEN pos + 1 ELSE 1
              /\ pc' = IF pos < Len(Order) THEN "read" ELSE "prepare"
              /\ UNCHANGED fatal
              /\ Quiet /\ UNCHANGED <<prepared, mem, replaced, errors>>
         ELSE Over /\ UNCHANGED disk

(* Policy, the prune guard, a read-only plane: the run ends, nothing sent. *)
Refuse ==
    /\ pc = "prepare" /\ Over /\ UNCHANGED disk

RunWideError ==
    \E ns \in Namespace \ withheld :
        LET s == snap[ns]
        IN  /\ ~SpecConflict(ns, s)
            /\ ~(confirm \/ GraphProvable(s)) \/ Unrepresentable(ns, s)
Blocked ==
    withheld \cup {ns \in Namespace : SpecConflict(ns, snap[ns]) \/ UnmodeledField(ns, snap[ns])}
(* Every body is built, and the journal settled, before the first write.   *)
Prepare ==
    /\ pc = "prepare"
    /\ ~RunWideError /\ blocked' = Blocked
    /\ bodies' = [ns \in Namespace |-> Body(ns, snap[ns])]
    /\ mem' = ReconcileAbsent(ForgetPending(mem, Namespace), Declared,
                              UNION {Live(snap[ns]) : ns \in Namespace}, Namespace)
    /\ disk' = mem' /\ pc' = "restore"
    /\ UNCHANGED <<gateway, inputs, bounds, snap, pos, replaced, errors, fatal>>
PrepareRefused ==
    /\ pc = "prepare" /\ RunWideError /\ Over /\ UNCHANGED disk

-----------------------------------------------------------------------------
(* POST /restore.                                                          *)

Onward == /\ pos' = pos + 1
          /\ pc' = IF pos < Len(Order) THEN "restore" ELSE "record"
Stop == pc' = "record" /\ fatal' = TRUE /\ UNCHANGED <<pos, replaced, errors>>
Kept == UNCHANGED <<inputs, bounds, disk, snap, prepared, mem>>

SkipBlocked ==
    /\ pc = "restore" /\ Ns \in blocked /\ errors' = errors \cup {Ns} /\ Onward
    /\ Kept /\ UNCHANGED <<gateway, replaced, fatal>>

LiveDocs(ns) == {d \in docs : SpecNs[d] = ns}
IfMatch_Unconditional == TRUE   \* mutant: the restore carries no token
(* The token of the original snapshot fences the whole replacement.        *)
IfMatch == snap[Ns].rev = rev[Ns]
(* What the gateway validates before it deletes anything.                  *)
Valid(b) ==
    /\ LET tags == {b.rows[k].spec : k \in {i \in DOMAIN b.rows : b.rows[i] # NoRow}} \ {NoSpec}
       IN  tags = b.docs
    /\ confirm \/ b.section \/ LiveDocs(Ns) = {}
Replace(b) ==
    /\ rows' = [k \in Key |-> IF NsOf[k] = Ns THEN b.rows[k] ELSE rows[k]]
    /\ docs' = (docs \ LiveDocs(Ns)) \cup b.docs
    /\ trust' = [trust EXCEPT ![Ns] = IF b.trust = {} THEN @ ELSE CHOOSE t \in b.trust : TRUE]
    /\ rev' = [rev EXCEPT ![Ns] = @ + 1] /\ UNCHANGED outage
Restoring == pc = "restore" /\ Ns \notin blocked /\ ~outage
Accepted == Restoring /\ IfMatch /\ Valid(bodies[Ns])

RestoreSucceeds ==
    /\ Accepted /\ Replace(bodies[Ns]) /\ replaced' = replaced \cup {Ns} /\ Onward
    /\ Kept /\ UNCHANGED <<errors, fatal>>
(* 412, a refusal, or a rollback the gateway completed: the next namespace *)
(* is still restored.                                                      *)
RestoreRefused ==
    /\ pc = "restore" /\ Ns \notin blocked /\ errors' = errors \cup {Ns} /\ Onward
    /\ Kept /\ UNCHANGED <<gateway, replaced, fatal>>
StopsRun == Stop
(* No answer, a commit that is not live, an answer without a full seal.    *)
RestoreUnproven ==
    /\ pc = "restore" /\ Ns \notin blocked /\ StopsRun /\ Kept
    /\ \/ Accepted /\ Replace(bodies[Ns])
       \/ UNCHANGED gateway
(* The rollback failed too: the namespace is left in pieces.               *)
RestoreDamaged ==
    /\ Accepted /\ StopsRun /\ Kept
    /\ \E lost \in SUBSET KeysIn({Ns}) :
          rows' = [k \in Key |-> IF k \in lost THEN NoRow ELSE rows[k]]
    /\ rev' = [rev EXCEPT ![Ns] = @ + 1] /\ UNCHANGED <<docs, trust, outage>>

(* What was replaced is recorded, a stop or failures notwithstanding.      *)
Record ==
    /\ pc = "record" /\ Over
    /\ disk' = RecordFullReplace(mem, replaced, Declared)

(* The process dies; a runner that is lost takes its ledger file with it.  *)
Crash == pc # "idle" /\ Over /\ UNCHANGED disk

-----------------------------------------------------------------------------
(* Everybody else.  What they do outside a run is seen by the next one as  *)
(* if it came before its first read.                                       *)

Bump(ns) == rev' = [rev EXCEPT ![ns] = @ + 1]
Change == /\ pc \in {"read", "prepare", "restore"} /\ changes < MaxChanges /\ changes' = changes + 1
          /\ UNCHANGED <<disk, pc, inputs, snap, prepared, pos, mem,
                         replaced, errors, fatal, runs>>
Edit ==
    /\ Change
    /\ \E k \in Key : \E r \in Rows \ {rows[k]} :
          /\ r # NoRow => r.spec = IF rows[k] = NoRow THEN NoSpec ELSE rows[k].spec
          /\ rows' = [rows EXCEPT ![k] = r] /\ Bump(NsOf[k])
    /\ UNCHANGED <<docs, trust, outage>>
ImportSpec ==
    /\ Change
    /\ \E d \in ApiSpec \ docs :
          /\ docs' = docs \cup {d} /\ Bump(SpecNs[d])
          /\ rows' = [rows EXCEPT ![OwnerOf[d]] = [Restored EXCEPT !.content = "other", !.spec = d]]
    /\ UNCHANGED <<trust, outage>>
DropSpec ==
    /\ Change
    /\ \E d \in docs : docs' = docs \ {d} /\ Bump(SpecNs[d])
    /\ UNCHANGED <<rows, trust, outage>>
RotateTrust ==
    /\ Change
    /\ \E ns \in Namespace : trust' = [trust EXCEPT ![ns] = @ + 1]
    /\ UNCHANGED <<rows, docs, rev, outage>>
Outage == Change /\ outage' = ~outage /\ UNCHANGED <<rows, docs, trust, rev>>

Rest == pc = "idle" /\ runs = MaxRuns /\ UNCHANGED vars

Restore == \/ SkipBlocked \/ RestoreSucceeds \/ RestoreRefused
           \/ RestoreUnproven \/ RestoreDamaged
Others == Edit \/ ImportSpec \/ DropSpec \/ RotateTrust \/ Outage
Next == \/ Start \/ ReadNamespace \/ Refuse \/ Prepare \/ PrepareRefused
        \/ Restore \/ Record \/ Crash \/ Others \/ Rest
Specification == Init /\ [][Next]_vars

-----------------------------------------------------------------------------
(* Properties.                                                             *)

TypeOK ==
    /\ rows \in [Key -> Row \cup {NoRow}] /\ docs \subseteq ApiSpec
    /\ trust \in [Namespace -> Trust] /\ rev \in [Namespace -> Nat] /\ outage \in BOOLEAN
    /\ disk \in LedgerType /\ mem \in LedgerType
    /\ pc \in {"idle", "read", "prepare", "restore", "record"}
    /\ confirm \in BOOLEAN /\ withheld \cup blocked \cup replaced \cup errors \subseteq Namespace
    /\ pos \in 1..Len(Order) + 1 /\ fatal \in BOOLEAN
    /\ changes \in 0..MaxChanges /\ runs \in 0..MaxRuns

(* A replacement only ever overwrites rows and documents the run has read: *)
(* no edit made between the backup and the restore is lost with it.        *)
NoLostUpdate ==
    [][\A ns \in replaced' \ replaced :
          Snapshot(ns).rows = snap[ns].rows /\ LiveDocs(ns) = snap[ns].docs]_vars

(* Each namespace goes over in one step, by what is in it then: API specs  *)
(* and the rows they own stay unless their deletion was confirmed, trust   *)
(* roots stay, and no field this build cannot express is reset.            *)
Atomic == INSTANCE Replacement WITH writes <- changes
ReplacesAtomically == Atomic!Spec

(* A namespace whose body cannot be built, for want of a provable graph or *)
(* of expressible credentials, is found out before any other is replaced.  *)
ErrorsComeFirst ==
    replaced # {} =>
        \A ns \in Namespace \ blocked :
            (confirm \/ GraphProvable(snap[ns])) /\ ~Unrepresentable(ns, snap[ns])

(* A step of the run that changes the gateway.                             *)
Wrote == pc = "restore" /\ rev' # rev /\ changes' = changes

(* After a restore nobody can vouch for, the run replaces nothing more.    *)
UnprovenStops ==
    [][Wrote /\ replaced' = replaced => pc' = "record"]_vars

(* The ledger gains only keys of namespaces whose restore this run saw     *)
(* succeed, and loses none of the others' but rows proven gone.            *)
OnlyRestoredAreRecorded ==
    [][/\ disk'.managed \ disk.managed \subseteq DeclaredOf(replaced)
       /\ \A k \in disk.managed \ disk'.managed :
             NsOf[k] \in replaced \/ snap[NsOf[k]].rows[k] = NoRow]_vars

(* A full replacement implements the atomic one; it stops before the first *)
(* restore for what it can know then, and after the first it cannot vouch  *)
(* for, and records no more than it saw restored.                          *)
RestoreIsWhole ==
    /\ [](TypeOK /\ ErrorsComeFirst) /\ ReplacesAtomically
    /\ UnprovenStops /\ OnlyRestoredAreRecorded
=============================================================================
