------------------------------- MODULE Apply -------------------------------
(***************************************************************************)
(* `gitforgeops apply` in api mode with the incremental strategy: one run  *)
(* reads a backup of every namespace in scope, plans, journals its         *)
(* creates, writes each row under a precondition, and records what landed  *)
(* (src/main.rs cmd_apply, src/apply/api_target.rs), while administrators  *)
(* and the API-spec importer keep writing to the gateway.                  *)
(*                                                                         *)
(* Runs are serial: the workflow's concurrency group and the state lock    *)
(* admit one at a time.  A run may crash (the workflow still commits the   *)
(* ledger file) or lose its runner (the file is gone).                     *)
(***************************************************************************)
EXTENDS ResourceDiff

CONSTANTS
    KindOf,          \* [Key -> Kind]
    References,      \* <<p, g>>: proxy p names plugin config g
    Norm,            \* [Content -> Content], the form /backup shows a row in
    Owned,           \* ownership.namespaces, used in exclusive mode
    Filters,         \* namespace filters a run may be given, {} for none
    Documents,       \* desired documents the repository may hold
    InitialViews,    \* rows the gateway may hold before the first run
    Written,         \* contents other writers may store
    AllowLargePrune, \* values of --allow-large-prune runs are given
    MaxChanges,      \* bound: steps of other writers
    MaxFaults,       \* bound: lost answers, failed reads, crashes
    NoOp, NoNamespace

Kind == {"Upstream", "Consumer", "PluginConfig", "Proxy"}

ASSUME ApplyAssumption ==
    /\ KindOf \in [Key -> Kind]
    /\ References \subseteq Key \X Key
    /\ Norm \in [Content -> Content]
    /\ \A c \in Content : Norm[Norm[c]] = Norm[c]
    /\ Owned \subseteq Namespace
    /\ Filters \subseteq SUBSET Namespace
    /\ Documents \subseteq Document
    /\ InitialViews \subseteq View
    /\ Written \subseteq Content
    /\ AllowLargePrune \subseteq BOOLEAN
    /\ MaxChanges \in Nat
    /\ MaxFaults \in Nat
    /\ NoOp \notin Op
    /\ NoNamespace \notin Namespace

(***************************************************************************)
(* What the repository declares and what others write is in the form       *)
(* /backup shows.  A row stored before a normalization rule may be there   *)
(* from the start, but no consumer's, whose complete row is compared.      *)
(***************************************************************************)
ASSUME NormalFormAssumption ==
    /\ \A d \in Documents : \A k \in Declared(d) : Norm[d[k]] = d[k]
    /\ \A c \in Written : Norm[c] = c
    /\ \A v \in InitialViews : \A k \in Live(v) :
          KindOf[k] = "Consumer" => Norm[v[k].content] = v[k].content

VARIABLES
    live,       \* the gateway's rows
    origin,     \* who created each live row: "repo", "other", "none"
    landing,    \* timed-out creates the gateway may still commit
    disk,       \* the ledger file in the runner's work tree
    committed,  \* the ledger file on the default branch
    desired,    \* the run's document, narrowed to its namespaces
    nss,        \* the run's namespaces
    plan,       \* the rows as the run's backups showed them
    blocked,    \* namespaces preflight refused
    mem,        \* the run's ledger
    evidence,   \* consumers whose row is still the one captured at planning
    tag,        \* the tag held for op's row still names its stored version
    confirmed,  \* adoption candidates the confirmation backup bears out
    pc, left, cur, todo, op,        \* where the run is
    applied, bad, failed, stale,    \* what it did: operations that landed,
                                    \* operations of cur that failed, any
                                    \* error, and the plan of cur gone stale
    claimed,    \* history: keys of rows whose write by the run was acknowledged
    forgotten,  \* history: created rows a run or a lost runner gave up
    calm,       \* history: nothing disturbed the run since it began
    changes, faults                 \* budgets spent

gatewayVars  == <<live, origin, landing>>
ledgerVars   == <<disk, committed>>
viewVars     == <<desired, nss, plan, blocked>>
freshVars    == <<evidence, tag, confirmed>>
progressVars == <<pc, left, cur, todo, op>>
resultVars   == <<applied, bad, failed, stale>>
historyVars  == <<claimed, forgotten>>
budgetVars   == <<changes, faults, calm>>
vars == <<gatewayVars, ledgerVars, viewVars, mem, freshVars, progressVars,
          resultVars, historyVars, budgetVars>>

Steps == {"idle", "read", "plan", "namespaces", "select", "readback",
          "verify", "assert", "confirm", "write", "replay", "adopt", "claim",
          "record", "publish"}

Unread == [k \in Key |-> NoRow]
NoDoc  == [k \in Key |-> Undeclared]

(* A row as /backup shows it. *)
Archival(row) == [row EXCEPT !.content = Norm[@]]
Backup(v)     == [k \in Key |-> IF v[k] = NoRow THEN NoRow ELSE Archival(v[k])]

Consumers     == {k \in Key : KindOf[k] = "Consumer"}

(* The order the admin API accepts: dependencies first, deletes last. *)
Rank(o) ==
    LET write  == [Upstream |-> 0, Consumer |-> 0, PluginConfig |-> 1, Proxy |-> 2]
        delete == [Proxy |-> 3, PluginConfig |-> 4, Upstream |-> 5, Consumer |-> 5]
    IN  IF o.act = "Delete" THEN delete[KindOf[o.key]] ELSE write[KindOf[o.key]]

ClaimRank(o) == [Upstream |-> 0, Consumer |-> 1, Proxy |-> 2, PluginConfig |-> 3][KindOf[o.key]]

Init ==
    /\ live \in InitialViews
    /\ origin = [k \in Key |-> IF live[k] = NoRow THEN "none" ELSE "other"]
    /\ landing = NoDoc
    /\ disk = EmptyLedger /\ committed = EmptyLedger
    /\ desired = NoDoc /\ nss = {} /\ plan = Unread /\ blocked = {}
    /\ mem = EmptyLedger
    /\ evidence = {} /\ tag = FALSE /\ confirmed = {}
    /\ pc = "idle" /\ left = {} /\ cur = NoNamespace /\ todo = {} /\ op = NoOp
    /\ applied = {} /\ bad = {} /\ failed = FALSE /\ stale = FALSE
    /\ claimed = {} /\ forgotten = {} /\ calm = TRUE
    /\ changes = 0 /\ faults = 0

(***************************************************************************)
(* A failure of the network, the gateway or a service the run calls.       *)
(***************************************************************************)
Fault ==
    /\ faults < MaxFaults
    /\ faults' = faults + 1
    /\ calm' = FALSE
    /\ UNCHANGED changes

----------------------------------------------------------------------------
(* Planning. *)

(***************************************************************************)
(* Take the lock and load the ledger.  The document is the repository's at *)
(* the commit being applied; a namespace filter narrows it.  A request of  *)
(* an earlier run is not in flight any more.                               *)
(***************************************************************************)
Begin ==
    /\ pc = "idle"
    /\ landing = NoDoc
    /\ \E d \in Documents, f \in Filters :
         /\ nss' = ResolvedNamespaces(Mode, Owned, f, Declared(d), disk)
         /\ desired' = [k \in Key |-> IF NsOf[k] \in nss' THEN d[k] ELSE Undeclared]
    /\ left' = nss'
    /\ mem' = disk
    /\ failed' = FALSE
    /\ calm' = TRUE
    /\ pc' = "read"
    /\ UNCHANGED <<gatewayVars, ledgerVars, plan, blocked, freshVars, cur, todo,
                   op, applied, bad, stale, historyVars, changes, faults>>

(* Read one namespace's backup and its consumers' complete evidence. *)
ReadBackup ==
    /\ pc = "read"
    /\ \E ns \in left :
         /\ plan' = [k \in Key |-> IF NsOf[k] = ns THEN Backup(live)[k] ELSE plan[k]]
         /\ evidence' = evidence \cup (Consumers \cap KeysIn({ns}) \cap Live(live))
         /\ left' = left \ {ns}
    /\ UNCHANGED <<gatewayVars, ledgerVars, desired, nss, blocked, mem, tag,
                   confirmed, pc, cur, todo, op, resultVars, historyVars, budgetVars>>

(***************************************************************************)
(* Nothing was written yet and the run gives up: a backup is unreadable or *)
(* cached, a consumer changed while its evidence was captured, preflight   *)
(* refuses, a credential cannot be allocated or delivered.                 *)
(***************************************************************************)
Abort ==
    /\ \/ pc \in {"read", "plan"}
       \/ pc = "namespaces" /\ left = nss
    /\ Fault
    /\ failed' = TRUE
    /\ pc' = "publish"
    /\ UNCHANGED <<gatewayVars, ledgerVars, viewVars, mem, freshVars, left, cur,
                   todo, op, applied, bad, stale, historyVars>>

(***************************************************************************)
(* Preflight's verdict, then the ledger reconciled with what the backups   *)
(* show, and saved.                                                        *)
(***************************************************************************)
Reconcile ==
    /\ pc = "read"
    /\ left = {}
    /\ blocked' = {NsOf[k] : k \in SpecConflicts(desired, plan)}
    /\ LET l == ReconcilePending(mem, Declared(desired), nss)
       IN  mem' = ReconcileAbsent(l, Declared(desired), Live(plan), nss)
    /\ disk' = mem'
    /\ forgotten' = forgotten \cup Forgotten(mem, Declared(desired), Live(plan), nss)
    /\ pc' = "plan"
    /\ UNCHANGED <<gatewayVars, committed, desired, nss, plan, freshVars, left,
                   cur, todo, op, resultVars, claimed, budgetVars>>

PruneRefused_FlagInverted(allow) ==   \* mutant
    /\ allow
    /\ ExceedsThreshold(Cardinality(Deletes(desired, plan, mem.managed)),
                        PruneDenominator(plan, mem.managed, nss))

PruneRefused(allow) ==
    /\ ~allow
    /\ ExceedsThreshold(Cardinality(Deletes(desired, plan, mem.managed)),
                        PruneDenominator(plan, mem.managed, nss))

(* The large-prune guard; the reconciled ledger is already saved. *)
Refuse ==
    /\ pc = "plan"
    /\ \E allow \in AllowLargePrune : PruneRefused(allow)
    /\ failed' = TRUE
    /\ calm' = FALSE
    /\ pc' = "publish"
    /\ UNCHANGED <<gatewayVars, ledgerVars, viewVars, mem, freshVars, left, cur,
                   todo, op, applied, bad, stale, historyVars, changes, faults>>

(* Journal the creates of every namespace the run will write to, and save. *)
Journal ==
    /\ pc = "plan"
    /\ \E allow \in AllowLargePrune : ~PruneRefused(allow)
    /\ mem' = ReserveAdds(mem, {o \in Diff(desired, plan, mem.managed) :
                                   NsOf[o.key] \notin blocked})
    /\ disk' = mem'
    /\ left' = nss
    /\ pc' = "namespaces"
    /\ UNCHANGED <<gatewayVars, committed, viewVars, freshVars, cur, todo, op,
                   resultVars, historyVars, budgetVars>>

----------------------------------------------------------------------------
(* Writing one namespace. *)

SkipBlocked ==
    /\ pc = "namespaces"
    /\ \E ns \in left \cap blocked : left' = left \ {ns}
    /\ failed' = TRUE
    /\ UNCHANGED <<gatewayVars, ledgerVars, viewVars, mem, freshVars, pc, cur,
                   todo, op, applied, bad, stale, historyVars, budgetVars>>

StartNamespace ==
    /\ pc = "namespaces"
    /\ \E ns \in left \ blocked :
         /\ cur' = ns
         /\ left' = left \ {ns}
         /\ todo' = {o \in PlannedOps(desired, plan, mem) : NsOf[o.key] = ns}
    /\ bad' = {}
    /\ stale' = FALSE
    /\ pc' = "select"
    /\ UNCHANGED <<gatewayVars, ledgerVars, viewVars, mem, freshVars, op,
                   applied, failed, historyVars, budgetVars>>

(* The operations that may go next. *)
Foremost == {o \in todo : \A p \in todo : Rank(o) <= Rank(p)}

(* What the end of an operation, or of a whole run, leaves behind. *)
Finish(o) ==
    /\ todo' = todo \ {o}
    /\ op' = NoOp
    /\ tag' = FALSE
    /\ pc' = "select"
    /\ UNCHANGED <<left, cur, evidence, confirmed>>

Land(o) ==
    /\ applied' = applied \cup {o}
    /\ UNCHANGED <<bad, failed, stale>>

Fail(o, isStale) ==
    /\ bad' = bad \cup {o}
    /\ failed' = TRUE
    /\ stale' = isStale
    /\ UNCHANGED applied

(* A run-stopping error: what landed so far is still recorded. *)
Stop ==
    /\ failed' = TRUE
    /\ op' = NoOp
    /\ tag' = FALSE
    /\ todo' = {}
    /\ pc' = "record"
    /\ UNCHANGED <<left, cur, evidence, confirmed, applied, bad, stale>>

(* Take up an operation whose row has been read. *)
Hold(o, step) ==
    /\ op' = o
    /\ tag' = TRUE
    /\ pc' = step
    /\ UNCHANGED <<left, cur, todo, evidence, confirmed, resultVars>>

keptByWrites == <<ledgerVars, viewVars, mem>>
Untouched    == UNCHANGED <<keptByWrites, gatewayVars, historyVars>>

(***************************************************************************)
(* An operation that is not sent: everything after a stale plan, a delete  *)
(* after a failed write or, for a plugin, after its proxy's failed delete; *)
(* a proxy one of whose plugins failed.                                    *)
(***************************************************************************)
WritesFailed_Ignored == FALSE   \* mutant: deletes go out regardless

WritesFailed == \E o \in bad : o.act # "Delete"

Deferred(o) ==
    /\ o.act = "Delete"
    /\ \/ stale \/ WritesFailed
       \/ \E p \in bad : p.act = "Delete" /\ <<p.key, o.key>> \in References

DependencyFailed(o) ==
    /\ o.act # "Delete"
    /\ \E p \in bad : p.act # "Delete" /\ <<o.key, p.key>> \in References

Defer ==
    /\ pc = "select"
    /\ \E o \in Foremost : Deferred(o) /\ Finish(o)
    /\ UNCHANGED <<resultVars, budgetVars>>
    /\ Untouched

Withhold ==
    /\ pc = "select"
    /\ \E o \in Foremost :
         /\ o.act # "Delete"
         /\ stale \/ DependencyFailed(o)
         /\ Finish(o)
         /\ Fail(o, stale)
    /\ UNCHANGED budgetVars
    /\ Untouched

Sendable(o) == o \in Foremost /\ ~stale /\ ~Deferred(o) /\ ~DependencyFailed(o)

(* What the gateway stores for a create. *)
Insert(k) ==
    /\ live' = [live EXCEPT ![k] = [content |-> desired[k], spec |-> Unowned]]
    /\ origin' = [origin EXCEPT ![k] = "repo"]
    /\ UNCHANGED landing

CreateAccepted ==
    /\ pc = "select"
    /\ \E o \in todo :
         /\ Sendable(o) /\ o.act = "Add"
         /\ live[o.key] = NoRow
         /\ Insert(o.key)
         /\ claimed' = claimed \cup {o.key}
         /\ forgotten' = forgotten \ {o.key}
         /\ Finish(o)
         /\ Land(o)
    /\ UNCHANGED <<keptByWrites, budgetVars>>

(* The id is taken, or the gateway rejects the body. *)
CreateRefused ==
    /\ pc = "select"
    /\ \E o \in todo :
         /\ Sendable(o) /\ o.act = "Add"
         /\ \/ live[o.key] # NoRow /\ UNCHANGED budgetVars
            \/ Fault
         /\ Finish(o)
         /\ Fail(o, FALSE)
    /\ Untouched

(* No usable answer: committed, still in flight, or never arrived. *)
CreateUnanswered ==
    /\ pc = "select"
    /\ \E o \in todo :
         /\ Sendable(o) /\ o.act = "Add"
         /\ Fault
         /\ \/ live[o.key] = NoRow /\ Insert(o.key)
            \/ /\ landing' = [landing EXCEPT ![o.key] = desired[o.key]]
               /\ UNCHANGED <<live, origin>>
            \/ UNCHANGED gatewayVars
         /\ forgotten' = forgotten \ {o.key}
         /\ op' = o
         /\ pc' = "readback"
    /\ UNCHANGED <<keptByWrites, claimed, tag, left, cur, todo, evidence,
                   confirmed, resultVars>>

(***************************************************************************)
(* After an ambiguous create: the tagged read, then the backup.  A row     *)
(* that carries everything sent is asserted with a conditional update; an  *)
(* absent row is an ordinary failure; anything else stops the run.         *)
(***************************************************************************)
Readback ==
    /\ pc = "readback"
    /\ tag' = (live[op.key] # NoRow)
    /\ pc' = "verify"
    /\ UNCHANGED <<left, cur, todo, op, evidence, confirmed, resultVars, budgetVars>>
    /\ Untouched

RowCarries(k) ==
    /\ live[k] # NoRow
    /\ live[k].spec = Unowned
    /\ <<desired[k], Norm[live[k].content]>> \in Carried

VerifyAbsent ==
    /\ pc = "verify"
    /\ live[op.key] = NoRow
    /\ Finish(op)
    /\ Fail(op, FALSE)
    /\ UNCHANGED budgetVars
    /\ Untouched

VerifyExact ==
    /\ pc = "verify"
    /\ RowCarries(op.key)
    /\ tag
    /\ Norm[live[op.key].content] = live[op.key].content
    /\ pc' = "assert"
    /\ UNCHANGED <<left, cur, todo, op, freshVars, resultVars, budgetVars>>
    /\ Untouched

VerifyUnproven ==
    /\ pc = "verify"
    /\ \/ Fault
       \/ /\ live[op.key] # NoRow
          /\ ~(/\ RowCarries(op.key) /\ tag
               /\ Norm[live[op.key].content] = live[op.key].content)
          /\ UNCHANGED budgetVars
    /\ Stop
    /\ Untouched

(* The update rewrites the verified row as it is, so it changes no content. *)
AssertCreated ==
    /\ pc = "assert"
    /\ tag
    /\ claimed' = claimed \cup {op.key}
    /\ origin' = [origin EXCEPT ![op.key] = "repo"]
    /\ Finish(op)
    /\ Land(op)
    /\ UNCHANGED <<keptByWrites, live, landing, forgotten, budgetVars>>

AssertRefused ==
    /\ pc = "assert"
    /\ \/ ~tag /\ UNCHANGED budgetVars
       \/ Fault
    /\ Stop
    /\ Untouched

----------------------------------------------------------------------------
(* Updates and deletes: read the row, compare it with the plan, write it   *)
(* only if it is still the version that was read.                          *)

OwnerChanged_Ignored(o) == FALSE   \* mutant: content alone is compared

OwnerChanged(o) == live[o.key].spec # plan[o.key].spec

ReadRow ==
    /\ pc = "select"
    /\ \E o \in todo :
         /\ Sendable(o) /\ o.act # "Add"
         /\ LET k == o.key IN
            \/ /\ live[k] = NoRow /\ o.act = "Delete"
               /\ Finish(o) /\ Land(o)
            \/ /\ \/ live[k] = NoRow /\ o.act = "Modify"
                  \/ live[k] # NoRow /\ OwnerChanged(o)
                  \/ live[k] # NoRow /\ k \in Consumers \ evidence
               /\ Finish(o) /\ Fail(o, TRUE)
            \/ /\ live[k] # NoRow /\ ~OwnerChanged(o)
               /\ IF k \in Consumers THEN k \in evidence
                                     ELSE live[k].content = plan[k].content
               /\ Hold(o, "write")
            \/ /\ live[k] # NoRow /\ ~OwnerChanged(o)
               /\ k \notin Consumers /\ live[k].content # plan[k].content
               /\ Hold(o, "confirm")
    /\ UNCHANGED budgetVars
    /\ Untouched

(* The read fails, or comes from a cache and stops the run. *)
ReadFails ==
    /\ \/ /\ pc = "select"
          /\ \E o \in todo : /\ Sendable(o) /\ o.act # "Add"
                             /\ Finish(o) /\ Fail(o, FALSE)
       \/ pc = "confirm" /\ Finish(op) /\ Fail(op, FALSE)
       \/ /\ pc = "select" /\ \E o \in todo : Sendable(o) /\ o.act # "Add"
          /\ Stop
       \/ pc = "confirm" /\ Stop
    /\ Fault
    /\ Untouched

(***************************************************************************)
(* The stored row differs from the plan's form of it, so a backup decides. *)
(* The code reuses an earlier backup that shows the version just read; the *)
(* verdict can differ from a fresh one's only when the row changed since,  *)
(* and then the conditional write is refused as stale too.                 *)
(***************************************************************************)
Confirmed_Blindly(o) == TRUE                      \* mutant: no comparison
Confirmed_AsStored(o) == live[o.key] = plan[o.key] \* mutant: without the backup

Confirmed(o) == Backup(live)[o.key] = plan[o.key]

Confirm ==
    /\ pc = "confirm"
    /\ \/ /\ Confirmed(op)
          /\ pc' = "write"
          /\ UNCHANGED <<left, cur, todo, op, freshVars, resultVars>>
       \/ /\ ~Confirmed(op)
          /\ Finish(op) /\ Fail(op, TRUE)
    /\ UNCHANGED budgetVars
    /\ Untouched

(* What the gateway stores for an update or a delete. *)
Store(o) ==
    /\ live' = [live EXCEPT ![o.key] =
                   IF o.act = "Delete" THEN NoRow
                   ELSE [content |-> desired[o.key], spec |-> live[o.key].spec]]
    /\ origin' = [origin EXCEPT ![o.key] = IF o.act = "Delete" THEN "none" ELSE @]
    /\ UNCHANGED landing

WriteRow ==
    /\ pc = "write"
    /\ tag
    /\ Store(op)
    /\ claimed' = claimed \cup {op.key}
    /\ Finish(op)
    /\ Land(op)
    /\ UNCHANGED <<keptByWrites, forgotten, budgetVars>>

(* 412, or 404 for a row that is gone: a delete then counts as done. *)
WriteRefused ==
    /\ pc = "write"
    /\ ~tag
    /\ Finish(op)
    /\ \/ live[op.key] # NoRow /\ Fail(op, TRUE)
       \/ live[op.key] = NoRow /\ op.act = "Delete" /\ Land(op)
       \/ live[op.key] = NoRow /\ op.act = "Modify" /\ Fail(op, FALSE)
    /\ UNCHANGED budgetVars
    /\ Untouched

(***************************************************************************)
(* No answer from any attempt: an ordinary failure, whether or not the     *)
(* write committed.                                                        *)
(***************************************************************************)
WriteUnanswered ==
    /\ pc = "write"
    /\ Fault
    /\ \/ tag /\ Store(op)
       \/ UNCHANGED gatewayVars
    /\ Finish(op)
    /\ Fail(op, FALSE)
    /\ UNCHANGED <<keptByWrites, historyVars>>

(***************************************************************************)
(* The plane refuses every write, or it committed this one without taking  *)
(* it live or with an answer that cannot be read: nothing more is sent.    *)
(***************************************************************************)
WriteStopsRun ==
    /\ Fault
    /\ \/ /\ pc = "select"
          /\ \E o \in todo :
               /\ Sendable(o) /\ o.act = "Add"
               /\ \/ live[o.key] = NoRow /\ Insert(o.key)
                  \/ UNCHANGED gatewayVars
               /\ forgotten' = forgotten \ {o.key}
       \/ /\ pc = "write"
          /\ \/ tag /\ Store(op)
             \/ UNCHANGED gatewayVars
          /\ UNCHANGED forgotten
    /\ Stop
    /\ UNCHANGED <<keptByWrites, claimed>>

(* The first attempt committed, its answer was a retryable error. *)
WriteCommittedThenRetried ==
    /\ pc = "write"
    /\ tag
    /\ Fault
    /\ Store(op)
    /\ tag' = FALSE
    /\ pc' = "replay"
    /\ UNCHANGED <<keptByWrites, historyVars, left, cur, todo, op, evidence,
                   confirmed, resultVars>>

(***************************************************************************)
(* The retry of a committed write is refused by its own tag.  An update    *)
(* counts as applied when one more read shows the row as sent and unowned, *)
(* except a consumer's; a delete when the row is gone.                     *)
(***************************************************************************)
WroteItself ==
    /\ op.key \notin Consumers
    /\ live[op.key] = [content |-> desired[op.key], spec |-> Unowned]

Replay ==
    /\ pc = "replay"
    /\ Finish(op)
    /\ LET done == IF op.act = "Delete" THEN live[op.key] = NoRow ELSE WroteItself
       IN  \/ done /\ Land(op) /\ claimed' = claimed \cup {op.key}
           \/ ~done /\ Fail(op, live[op.key] # NoRow) /\ UNCHANGED claimed
    /\ UNCHANGED <<keptByWrites, gatewayVars, forgotten, budgetVars>>

----------------------------------------------------------------------------
(* Adoption of declared rows that already match and nobody claimed. *)

Candidates == {k \in AdoptionCandidates(desired, plan, mem) : NsOf[k] = cur}

(* Exclusive ownership records the claims without a write. *)
EndNamespace ==
    /\ pc = "select"
    /\ todo = {}
    /\ \/ stale \/ Candidates = {} \/ Mode = "exclusive"
    /\ applied' = IF Mode = "exclusive" /\ ~stale
                  THEN applied \cup [key : Candidates, act : {"Modify"}]
                  ELSE applied
    /\ cur' = NoNamespace
    /\ bad' = {}
    /\ stale' = FALSE
    /\ pc' = "namespaces"
    /\ UNCHANGED <<left, todo, op, freshVars, failed, budgetVars>>
    /\ Untouched

(* Shared mode reads one confirmation backup for all candidates. *)
StartAdoption ==
    /\ pc = "select"
    /\ todo = {} /\ ~stale /\ Candidates # {}
    /\ Mode = "shared"
    /\ todo' = [key : Candidates, act : {"Modify"}]
    /\ confirmed' = {k \in Candidates :
                        Backup(live)[k] = [content |-> desired[k], spec |-> Unowned]}
    /\ pc' = "adopt"
    /\ UNCHANGED <<left, cur, op, evidence, tag, resultVars, budgetVars>>
    /\ Untouched

(***************************************************************************)
(* An answer came from the gateway's cache: all skipped.  Or the           *)
(* confirmation backup shared mode reads cannot be had, which is fatal.    *)
(***************************************************************************)
AdoptionUnconfirmed ==
    /\ pc = "select"
    /\ todo = {} /\ ~stale /\ Candidates # {}
    /\ Fault
    /\ \/ /\ cur' = NoNamespace /\ bad' = {} /\ pc' = "namespaces"
          /\ UNCHANGED <<left, todo, op, freshVars, applied, failed, stale>>
       \/ Mode = "shared" /\ Stop
    /\ Untouched

(* What the end of one claim leaves behind; a refused consumer ends all. *)
Skip(o) ==
    /\ IF o.key \in Consumers
       THEN todo' = {} /\ failed' = TRUE
       ELSE todo' = todo \ {o} /\ UNCHANGED failed
    /\ op' = NoOp
    /\ tag' = FALSE
    /\ pc' = "adopt"
    /\ UNCHANGED <<left, cur, evidence, confirmed, applied, bad, stale>>

(* The row as stored must be the declared row, unowned. *)
Claimable(k) ==
    /\ k \in confirmed
    /\ live[k] = [content |-> desired[k], spec |-> Unowned]
    /\ k \in Consumers => k \in evidence

ReadCandidate ==
    /\ pc = "adopt"
    /\ \E o \in {p \in todo : \A q \in todo : ClaimRank(p) <= ClaimRank(q)} :
         IF Claimable(o.key) THEN Hold(o, "claim") ELSE Skip(o)
    /\ UNCHANGED budgetVars
    /\ Untouched

(* Once acknowledged, the claim is what makes the row the repository's. *)
Claim ==
    /\ pc = "claim"
    /\ tag
    /\ claimed' = claimed \cup {op.key}
    /\ applied' = applied \cup {op}
    /\ todo' = todo \ {op}
    /\ op' = NoOp
    /\ tag' = FALSE
    /\ pc' = "adopt"
    /\ UNCHANGED <<keptByWrites, gatewayVars, forgotten, left, cur, evidence,
                   confirmed, bad, failed, stale, budgetVars>>

ClaimRefused ==
    /\ pc = "claim"
    /\ ~tag
    /\ Skip(op)
    /\ UNCHANGED budgetVars
    /\ Untouched

ClaimFails ==
    /\ pc \in {"adopt", "claim"} /\ todo # {}
    /\ Fault
    /\ \/ Stop
       \/ /\ pc = "claim"
          /\ todo' = todo \ {op} /\ op' = NoOp /\ tag' = FALSE /\ pc' = "adopt"
          /\ failed' = TRUE
          /\ UNCHANGED <<left, cur, evidence, confirmed, applied, bad, stale>>
    /\ Untouched

EndAdoption ==
    /\ pc = "adopt"
    /\ todo = {}
    /\ cur' = NoNamespace
    /\ bad' = {}
    /\ confirmed' = {}
    /\ pc' = "namespaces"
    /\ UNCHANGED <<left, todo, op, evidence, tag, applied, failed, stale, budgetVars>>
    /\ Untouched

----------------------------------------------------------------------------
(* Recording, publishing, and losing the record. *)

EndNamespaces ==
    /\ pc = "namespaces"
    /\ left = {}
    /\ pc' = "record"
    /\ UNCHANGED <<left, cur, todo, op, freshVars, resultVars, budgetVars>>
    /\ Untouched

Record ==
    /\ pc = "record"
    /\ mem' = RecordOps(mem, applied, Declared(desired))
    /\ disk' = mem'
    /\ pc' = "publish"
    /\ UNCHANGED <<gatewayVars, committed, viewVars, freshVars, left, cur, todo,
                   op, resultVars, historyVars, budgetVars>>

(* The process is gone. *)
Reset ==
    /\ desired' = NoDoc /\ nss' = {} /\ plan' = Unread /\ blocked' = {}
    /\ mem' = EmptyLedger
    /\ evidence' = {} /\ tag' = FALSE /\ confirmed' = {}
    /\ pc' = "idle" /\ left' = {} /\ cur' = NoNamespace /\ todo' = {} /\ op' = NoOp
    /\ applied' = {} /\ bad' = {} /\ failed' = FALSE /\ stale' = FALSE

(* The workflow commits the ledger file unless it was cancelled. *)
Publish ==
    /\ pc = "publish"
    /\ committed' = disk
    /\ Reset
    /\ UNCHANGED <<gatewayVars, disk, historyVars, budgetVars>>

(* The process dies; the ledger file is what it last saved. *)
Crash ==
    /\ pc \notin {"idle", "publish"}
    /\ Fault
    /\ failed' = TRUE
    /\ pc' = "publish"
    /\ UNCHANGED <<gatewayVars, ledgerVars, viewVars, mem, freshVars, left, cur,
                   todo, op, applied, bad, stale, historyVars>>

(* The workflow is cancelled or its runner lost: the file is lost with it. *)
Lose ==
    /\ pc # "idle"
    /\ Fault
    /\ disk' = committed
    /\ forgotten' = forgotten \cup
          ((disk.managed \cup disk.pending) \ (committed.managed \cup committed.pending))
    /\ Reset
    /\ UNCHANGED <<gatewayVars, committed, claimed>>

RunStep ==
    \/ ReadBackup \/ Abort \/ Reconcile \/ Refuse \/ Journal
    \/ SkipBlocked \/ StartNamespace \/ Defer \/ Withhold
    \/ CreateAccepted \/ CreateRefused \/ CreateUnanswered
    \/ Readback \/ VerifyAbsent \/ VerifyExact \/ VerifyUnproven
    \/ AssertCreated \/ AssertRefused
    \/ ReadRow \/ ReadFails \/ Confirm
    \/ WriteRow \/ WriteRefused \/ WriteUnanswered
    \/ WriteCommittedThenRetried \/ WriteStopsRun \/ Replay
    \/ EndNamespace \/ StartAdoption \/ AdoptionUnconfirmed
    \/ ReadCandidate \/ Claim \/ ClaimRefused \/ ClaimFails \/ EndAdoption
    \/ EndNamespaces \/ Record \/ Publish

----------------------------------------------------------------------------
(* The gateway's other writers, and its late commits. *)

(* A write to row k that is not the run's. *)
Disturb(k) ==
    /\ evidence' = evidence \ {k}
    /\ tag' = (tag /\ op.key # k)
    /\ calm' = FALSE
    /\ UNCHANGED <<ledgerVars, viewVars, mem, confirmed, progressVars,
                   resultVars, historyVars, faults>>

Arrives(k, who) ==
    origin' = [origin EXCEPT ![k] = IF live[k] = NoRow THEN who ELSE @]

OtherWrite(k) ==
    /\ changes < MaxChanges
    /\ changes' = changes + 1
    /\ Disturb(k)
    /\ UNCHANGED landing

AdminPut ==
    \E k \in Key, c \in Written :
        /\ live' = [live EXCEPT ![k] =
                       [content |-> c, spec |-> IF live[k] = NoRow THEN Unowned ELSE live[k].spec]]
        /\ Arrives(k, "other")
        /\ OtherWrite(k)

AdminDelete ==
    \E k \in Live(live) :
        /\ live' = [live EXCEPT ![k] = NoRow]
        /\ origin' = [origin EXCEPT ![k] = "none"]
        /\ OtherWrite(k)

(* The importer creates a row, or takes an existing one over. *)
SpecImport ==
    \E k \in Key \ Consumers, c \in Written, s \in SpecId :
        /\ live' = [live EXCEPT ![k] = [content |-> c, spec |-> s]]
        /\ origin' = [origin EXCEPT ![k] = "other"]
        /\ OtherWrite(k)

(* A create in flight commits if its id is still free, or is dropped. *)
LateCommit ==
    \E k \in Declared(landing) :
        /\ landing' = [landing EXCEPT ![k] = Undeclared]
        /\ \/ /\ live[k] = NoRow
              /\ live' = [live EXCEPT ![k] = [content |-> landing[k], spec |-> Unowned]]
              /\ Arrives(k, "repo")
              /\ Disturb(k)
           \/ /\ UNCHANGED <<live, origin, ledgerVars, viewVars, mem, freshVars,
                             progressVars, resultVars, historyVars, faults, calm>>
        /\ UNCHANGED changes

Environment == AdminPut \/ AdminDelete \/ SpecImport \/ LateCommit

Next == Begin \/ RunStep \/ Crash \/ Lose \/ Environment

Spec == Init /\ [][Next]_vars

(***************************************************************************)
(* A started run keeps going, and a request in flight is resolved.  Nobody *)
(* promises that another run starts, and no fault has to happen.           *)
(***************************************************************************)
----------------------------------------------------------------------------
(* Correctness. *)

(* Every variable holds a value of its domain in every state of a run of   *)
(* cmd_apply and of the gateway it writes to.                              *)
TypeOK ==
    /\ live \in View /\ origin \in [Key -> {"repo", "other", "none"}]
    /\ landing \in Document
    /\ disk \in LedgerType /\ committed \in LedgerType /\ mem \in LedgerType
    /\ desired \in Document /\ plan \in View
    /\ nss \in SUBSET Namespace /\ blocked \in SUBSET Namespace
    /\ evidence \in SUBSET Key /\ tag \in BOOLEAN /\ confirmed \in SUBSET Key
    /\ pc \in Steps /\ left \in SUBSET Namespace
    /\ cur \in Namespace \cup {NoNamespace}
    /\ todo \in SUBSET Op /\ op \in Op \cup {NoOp}
    /\ applied \in SUBSET Op /\ bad \in SUBSET Op
    /\ failed \in BOOLEAN /\ stale \in BOOLEAN /\ calm \in BOOLEAN
    /\ claimed \in SUBSET Key /\ forgotten \in SUBSET Key
    /\ changes \in 0..MaxChanges /\ faults \in 0..MaxFaults

(***************************************************************************)
(* A step of the run that overwrites or deletes row k.  Other writers      *)
(* never move pc, and a create, which may leave pc alone, takes a free id. *)
(***************************************************************************)
Writes(k) == pc' # pc /\ live'[k] # live[k]

(***************************************************************************)
(* In shared mode no ledger, in memory, saved or committed, gives deletion *)
(* authority over a key the gateway never acknowledged a repository write  *)
(* of: neither a journaled create nor equality with the declaration is     *)
(* ownership, through any crash, lost runner or racing writer.             *)
(***************************************************************************)
ManagedIsClaimed ==
    Mode = "shared" =>
        mem.managed \cup disk.managed \cup committed.managed \subseteq claimed

(***************************************************************************)
(* In shared mode a run deletes only rows under keys it once wrote with an *)
(* acknowledgement; resources of others are left alone.                    *)
(***************************************************************************)
DeletesOnlyClaimed ==
    [][\A k \in Key :
          Writes(k) /\ live'[k] = NoRow /\ Mode = "shared" => k \in claimed]_vars

(***************************************************************************)
(* A run never reverts an edit it did not plan against: a row it updates   *)
(* or deletes is, at the write, the row its backup showed, however long    *)
(* ago the plan was made; everything else it writes is a create.           *)
(***************************************************************************)
NoLostEdit ==
    [][\A k \in Key :
          Writes(k) /\ live[k] # NoRow => Archival(live[k]) = plan[k]]_vars

(***************************************************************************)
(* A row an API spec owns when the write reaches it is never written, but  *)
(* for a prune the operator confirmed and planned for that owner.          *)
(***************************************************************************)
SpecRowsAreSafe ==
    [][\A k \in Key :
          Writes(k) /\ k \in SpecOwned(live) =>
              /\ live'[k] = NoRow
              /\ Mode = "exclusive" /\ PruneSpecOwned
              /\ plan[k] # NoRow /\ plan[k].spec = live[k].spec]_vars

(***************************************************************************)
(* Incumbents are removed only once the desired state of their namespace   *)
(* stands: when a delete goes out every planned add and update of the      *)
(* namespace has landed.                                                   *)
(***************************************************************************)
DeletesAwaitWrites ==
    \A k \in Key :
        Writes(k) /\ live'[k] = NoRow =>
            \A o \in PlannedOps(desired, plan, mem) :
                o.act # "Delete" /\ NsOf[o.key] = NsOf[k] => o \in applied
DeletesComeLast == [][DeletesAwaitWrites]_vars

(***************************************************************************)
(* Every row the repository created, and every create still in flight, is  *)
(* in the saved ledger, as managed or as pending, whatever crashed; the    *)
(* rows a run forgot with a warning and those a lost runner took along are *)
(* the exceptions the code names.                                          *)
(***************************************************************************)
CreatesAreAccounted ==
    \A k \in Key :
        origin[k] = "repo" \/ landing[k] # Undeclared =>
            k \in disk.managed \cup disk.pending \cup forgotten

(***************************************************************************)
(* The deletes of one run stay within the threshold's share of what it     *)
(* could have deleted, unless the operator lifted the guard.               *)
(***************************************************************************)
PruneIsBounded ==
    LET prunable == IF Mode = "shared"
                    THEN {k \in disk.managed : NsOf[k] \in nss}
                    ELSE {k \in Live(plan) : NsOf[k] \in nss /\ (k \in SpecOwned(plan) => PruneSpecOwned)}
        deleted  == {k \in Key : \E o \in applied : o.key = k /\ o.act = "Delete"}
    IN  pc \in Steps \ {"idle", "publish"} /\ TRUE \notin AllowLargePrune =>
            Cardinality(deleted) * 100 <= Threshold * Cardinality(prunable)

(***************************************************************************)
(* A run that reports success leaves nothing unsettled in its namespaces:  *)
(* no create is pending, and nothing is managed that is neither declared   *)
(* nor held back as spec-owned.                                            *)
(***************************************************************************)
CleanRunSettlesLedger ==
    pc = "publish" /\ ~failed =>
        /\ disk.pending \cap KeysIn(nss) = {}
        /\ disk.managed \cap KeysIn(nss) \subseteq Declared(desired) \cup SpecOwned(plan)

(***************************************************************************)
(* No history of crashes, lost answers and edits wedges an environment: a  *)
(* run nothing disturbs succeeds but for declared ownership conflicts, and *)
(* leaves its namespaces as declared.                                      *)
(***************************************************************************)
AsDeclared(d, k) ==
    IF d[k] # Undeclared
    THEN live[k] # NoRow /\ Norm[live[k].content] = d[k]
    ELSE live[k] = NoRow \/ live[k].spec # Unowned \/ (Mode = "shared" /\ k \notin disk.managed)

CalmRunConverges ==
    pc = "publish" /\ calm /\ blocked = {} =>
        ~failed /\ \A k \in KeysIn(nss) : AsDeclared(desired, k)

(***************************************************************************)
(* What adoption is for: after an undisturbed run everything declared is   *)
(* in the delete fence, so a later removal from the repository prunes it.  *)
(* In shared mode a row stored before a normalization rule is left out:    *)
(* adoption compares it raw, and it never reads as declared.               *)
(***************************************************************************)
DeclaredRowsAreManaged ==
    pc = "publish" /\ calm /\ blocked = {} =>
        \A k \in Declared(desired) :
            \/ k \in disk.managed
            \/ Mode = "shared" /\ live[k].content # desired[k]

(***************************************************************************)
(* A create the run counts as failed because the backup showed no row is   *)
(* one the gateway will not commit any more.                               *)
(***************************************************************************)
AbsentProvesNotCommitted ==
    \A o \in bad : o.act = "Add" => landing[o.key] = Undeclared

=============================================================================
