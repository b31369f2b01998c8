----------------------------- MODULE Deployment -----------------------------
(***************************************************************************)
(* The workflows that run the tool: `apply-on-merge.yml`, with its         *)
(* independent and its promoted environments, and `rotate.yml`, which      *)
(* shares the concurrency group of an environment.                         *)
(*                                                                         *)
(* Both take the group, move onto the head of the protected branch, refuse *)
(* a head whose deployment inputs are not those of the commit that         *)
(* triggered them, change the gateway, and push the ledger as one commit.  *)
(* An apply also verifies traffic and leaves the record a promoted         *)
(* environment is authorized by.  Meanwhile others merge, edit the ledger  *)
(* by an authorized pull request, cancel and re-run.                       *)
(*                                                                         *)
(* A commit is its deployment inputs, and per environment the last effect  *)
(* its ledger records and the edits people made to that ledger.            *)
(***************************************************************************)
EXTENDS Integers, Sequences

CONSTANTS
    Env,          \* the environments .gitforgeops/config.yaml declares
    NoEnv,
    Requires,     \* promotion.requires of each, or NoEnv
    FileMode,     \* those with FERRUM_GATEWAY_MODE=file
    Inputs,       \* contents the deployment inputs may have
    Mixed,        \* what a gateway serves after half an apply
    MaxRuns,      \* bound: workflow runs triggered
    MaxReruns,    \* bound: times somebody re-runs a run
    MaxOthers,    \* bound: inert commits and edits of a ledger
    MaxCuts,      \* bound: cancellations, rejected approvals, lost runners
    MaxPushes     \* pushes one job tries: five in both workflows

(* RepoConfig::validate refuses a predecessor that is itself promoted. *)
ASSUME DeploymentAssumption ==
    /\ NoEnv \notin Env /\ Mixed \notin Inputs /\ Inputs # {}
    /\ Requires \in [Env -> Env \cup {NoEnv}]
    /\ \A e \in Env : Requires[e] # NoEnv => Requires[Requires[e]] = NoEnv
    /\ FileMode \subseteq Env
    /\ {MaxRuns, MaxReruns, MaxOthers, MaxCuts} \subseteq Nat
    /\ MaxPushes \in Nat \ {0}

VARIABLES
    main,      \* the protected branch: a sequence of commits
    runs,      \* workflow runs: kind, the position of the triggering commit
    job,       \* the job of each run in each environment
    records,   \* promotion records published as artifacts of a run
    gateway,   \* per environment: inputs served, effects so far, and the
               \* position of the commit the last apply took its inputs from
    lost,      \* environments whose last effect no ledger records
    proved,    \* <<run, environment, inputs>> whose traffic was verified
    reruns, others, cuts

vars == <<main, runs, job, records, gateway, lost, proved, reruns, others, cuts>>
bounds == <<reruns, others, cuts>>
-----------------------------------------------------------------------------
Run == 1..MaxRuns
Promoted == {e \in Env : Requires[e] # NoEnv}
Independent == Env \ Promoted

Commit == [inputs: Inputs, ledger: [Env -> Nat], edits: [Env -> Nat]]
Tip == main[Len(main)]

(* Where a job is: the step it takes next.  "needs" waits for the           *)
(* independent phase, "listed" has not reached its concurrency group yet,   *)
(* and "queued" is pending in it.                                           *)
Held == {"gate", "apply", "verify", "record", "push"}
Step == {"absent", "needs", "listed", "queued", "ended"} \cup Held

(* `verdict` is why the job will not be green, if anything.                 *)
Verdict == {"success", "superseded", "blocked", "failed", "displaced", "cancelled", "skipped"}
Job == [at: Step, rev: Nat, base: Nat, mine: Nat, tries: 0..MaxPushes, landed: BOOLEAN,
        apply: {"success", "failure"}, verify: {"success", "failure", "skipped"},
        verdict: Verdict]

(* rev 0: no revision passed the freshness guard.  mine 0: the work tree's  *)
(* ledger is the one checked out.                                           *)
NewJob(step) == [at |-> step, rev |-> 0, base |-> 0, mine |-> 0, tries |-> 0, landed |-> FALSE,
                 apply |-> "failure", verify |-> "skipped", verdict |-> "success"]

NoRecord == [rev |-> 0, apply |-> "failure", verify |-> "skipped"]

IsApply(r) == runs[r].kind = "apply"
Free(e) == \A r \in Run : job[r][e].at \notin Held
Over(r) == \A e \in Env : job[r][e].at \in {"absent", "ended"}
Quiet == \A r \in Run : Over(r)

Fault(j, why) == IF j.verdict = "success" THEN [j EXCEPT !.verdict = why] ELSE j

(* "Fail on apply error" and "Fail on traffic verification failure": the    *)
(* steps that ran with continue-on-error still fail the job.                *)
Conclusion(r, j) ==
    IF IsApply(r) /\ (j.apply = "failure" \/ j.verify = "failure") THEN Fault(j, "failed") ELSE j

Ended(verdict) == [NewJob("ended") EXCEPT !.verdict = verdict]

End(r, j) == Ended(Conclusion(r, j).verdict)
Becomes(r, e, j) == job' = [job EXCEPT ![r][e] = j]

(* mutant: any newer commit on the branch supersedes.                       *)
Superseded_AnyCommit(from, to) == from # to

(* deployment_scope.classify: a difference in the deployment inputs, never  *)
(* one outside them.                                                        *)
Superseded(from, to) == main[from].inputs # main[to].inputs
-----------------------------------------------------------------------------
Init ==
    /\ LET i == CHOOSE i \in Inputs : TRUE IN
          /\ main = <<[inputs |-> i, ledger |-> [e \in Env |-> 0], edits |-> [e \in Env |-> 0]]>>
          /\ gateway = [e \in Env |-> [inputs |-> i, effects |-> 0, pos |-> 1]]
    /\ runs = <<>>
    /\ job = [r \in Run |-> [e \in Env |-> NewJob("absent")]]
    /\ records = [r \in Run |-> [e \in Env |-> NoRecord]]
    /\ lost = {} /\ proved = {}
    /\ reruns = 0 /\ others = 0 /\ cuts = 0
-----------------------------------------------------------------------------
(* The repository and its people.                                          *)

NewRun(kind, position, jobs) ==
    /\ Len(runs) < MaxRuns
    /\ runs' = Append(runs, [kind |-> kind, trigger |-> position])
    /\ job' = [job EXCEPT ![Len(runs) + 1] = jobs]

(* A push to main that touches a path of the trigger: list-envs builds the  *)
(* two matrices.                                                            *)
Merge(i) ==
    /\ i # Tip.inputs
    /\ main' = Append(main, [Tip EXCEPT !.inputs = i])
    /\ NewRun("apply", Len(main) + 1,
              [e \in Env |-> NewJob(IF e \in Promoted THEN "needs" ELSE "listed")])
    /\ UNCHANGED <<records, gateway, lost, proved, bounds>>

(* workflow_dispatch of rotate.yml, from the protected branch only.  File   *)
(* mode has no consumer to update: it is refused before anything happens.   *)
Dispatch(e) ==
    /\ e \notin FileMode
    /\ NewRun("rotate", Len(main),
              [d \in Env |-> NewJob(IF d = e THEN "listed" ELSE "absent")])
    /\ UNCHANGED <<main, records, gateway, lost, proved, bounds>>

(* Documentation or tests; or an authorized repair of one .state file.      *)
Unrelated ==
    /\ others < MaxOthers /\ others' = others + 1
    /\ \/ main' = Append(main, Tip)
       \/ \E e \in Env : main' = Append(main, [Tip EXCEPT !.edits[e] = @ + 1])
    /\ UNCHANGED <<runs, job, records, gateway, lost, proved, reruns, cuts>>

(* "Re-run failed jobs" or "re-run all jobs": the same triggering commit,   *)
(* and the records the earlier attempt published.                           *)
Rerun(r) ==
    /\ reruns < MaxReruns /\ reruns' = reruns + 1
    /\ Over(r)
    /\ \E failedOnly \in BOOLEAN :
          LET again == {e \in Env : /\ job[r][e].at = "ended"
                                    /\ failedOnly => job[r][e].verdict # "success"}
              Reset(e) == NewJob(IF IsApply(r) /\ e \in Promoted THEN "needs" ELSE "listed")
          IN  /\ again # {}
              /\ job' = [job EXCEPT ![r] = [e \in Env |-> IF e \in again THEN Reset(e) ELSE job[r][e]]]
    /\ UNCHANGED <<main, runs, records, gateway, lost, proved, others, cuts>>

(* A cancelled job skips every later step, the ledger commit included.  An  *)
(* apply that is cut may already have changed the gateway.                  *)
Cut(r, e) ==
    LET j == job[r][e] IN
    /\ cuts < MaxCuts /\ cuts' = cuts + 1
    /\ j.at \in {"queued"} \cup Held
    /\ Becomes(r, e, Ended("cancelled"))
    /\ \/ /\ lost' = IF j.mine # 0 /\ ~j.landed THEN lost \cup {e} ELSE lost
          /\ UNCHANGED gateway
       \/ /\ j.at = "apply"
          /\ gateway' = [gateway EXCEPT ![e].effects = @ + 1,
                                        ![e].inputs = IF IsApply(r) THEN Mixed ELSE @]
          /\ lost' = lost \cup {e}
    /\ UNCHANGED <<main, runs, records, proved, reruns, others>>
-----------------------------------------------------------------------------
(* GitHub's scheduling.                                                    *)

(* A concurrency group holds one running and one pending job: a job that    *)
(* joins takes the place of a pending one, which is cancelled.  A free      *)
(* group starts its pending job first.                                      *)
Displace(j) == IF j.at = "queued" THEN Ended("displaced") ELSE j

Join(r, e) ==
    /\ job[r][e].at = "listed"
    /\ Free(e) => \A q \in Run : job[q][e].at # "queued"
    /\ job' = [q \in Run |-> [job[q] EXCEPT ![e] = IF q = r THEN [@ EXCEPT !.at = "queued"]
                                                            ELSE Displace(@)]]
    /\ UNCHANGED <<main, runs, records, gateway, lost, proved, bounds>>

(* promote: needs: apply. *)
Promote(r) ==
    /\ \A e \in Independent : job[r][e].at = "ended"
    /\ \E e \in Promoted : job[r][e].at = "needs"
    /\ LET green == \A e \in Independent : job[r][e].verdict = "success"
       IN  job' = [job EXCEPT ![r] = [e \in Env |->
                      IF @[e].at # "needs" THEN @[e]
                      ELSE IF green THEN [@[e] EXCEPT !.at = "listed"]
                      ELSE Ended("skipped")]]
    /\ UNCHANGED <<main, runs, records, gateway, lost, proved, bounds>>
-----------------------------------------------------------------------------
(* The steps of a job that holds its group.                                *)

(* mutant: actions/checkout's default, the commit that triggered the run.   *)
Revision_Trigger(r) == runs[r].trigger

(* The commit a job checks out once it holds the group.                     *)
Revision(r) == Len(main)

(* "Commit state": whatever the apply came to, unless the job was cancelled *)
(* or the ledger did not change.                                            *)
Staged(j) == j.mine # 0

StageLedger(r, j) ==
    IF Staged(j) THEN [j EXCEPT !.at = "push", !.base = j.rev] ELSE End(r, j)

(* The group is free, the environment's reviewer approves, and "Refresh     *)
(* protected branch and reject stale deployments" moves onto the head.  A   *)
(* refusal skips to the steps that run unless the job is cancelled.         *)
Start(r, e) ==
    LET j == job[r][e]
        rev == Revision(r)
        refused == Fault(j, "superseded")
    IN  /\ j.at = "queued"
        /\ Free(e)
        /\ Becomes(r, e,
              IF ~Superseded(runs[r].trigger, rev)
              THEN [j EXCEPT !.rev = rev,
                             !.at = IF IsApply(r) /\ e \in Promoted THEN "gate" ELSE "apply"]
              ELSE IF IsApply(r) THEN [refused EXCEPT !.at = "verify"]
              ELSE StageLedger(r, refused))
        /\ UNCHANGED <<main, runs, records, gateway, lost, proved, bounds>>

(* mutant: an environment that declares no check authorizes.                *)
Authorizing_Skipped == {"success", "skipped"}

(* promotion_record.blockers: the predecessor's record of this run shows    *)
(* both results and the same deployment.                                    *)
Authorizing == {"success"}

Authorized(r, e, rev) ==
    LET record == records[r][Requires[e]] IN
    /\ record.rev # 0
    /\ record.apply = "success"
    /\ record.verify \in Authorizing
    /\ ~Superseded(record.rev, rev)

Gate(r, e) ==
    LET j == job[r][e] IN
    /\ j.at = "gate"
    /\ Becomes(r, e, IF Authorized(r, e, j.rev) THEN [j EXCEPT !.at = "apply"]
                     ELSE [Fault(j, "blocked") EXCEPT !.at = "verify"])
    /\ UNCHANGED <<main, runs, records, gateway, lost, proved, bounds>>

(* From the install to the apply, or rotate, step.  It does all it set out  *)
(* to; or part, and fails, or its timeout kills it; or fails before any     *)
(* effect.  The ledger in the work tree follows the effects.                *)
Act(r, e) ==
    LET j == job[r][e]
        effect == gateway[e].effects + 1
        Then(k) == Becomes(r, e, IF IsApply(r) THEN [k EXCEPT !.at = "verify"] ELSE StageLedger(r, k))
        Affects(inputs) == gateway' = [gateway EXCEPT ![e] =
            IF IsApply(r) THEN [inputs |-> inputs, effects |-> effect, pos |-> j.rev]
            ELSE [@ EXCEPT !.effects = effect]]
    IN  /\ j.at = "apply"
        /\ \/ Then([j EXCEPT !.mine = effect, !.apply = "success"]) /\ Affects(main[j.rev].inputs)
           \/ Then(Fault([j EXCEPT !.mine = effect], "failed")) /\ Affects(Mixed)
           \/ Then(Fault(j, "failed")) /\ UNCHANGED gateway
        /\ UNCHANGED <<main, runs, records, lost, proved, bounds>>

(* "Verify traffic": skipped in file mode, without a smoke file ("not_run") *)
(* or when the file declares nothing here; a failure without the finalized  *)
(* bundle of a completed apply.                                             *)
VerifyTraffic(r, e) ==
    LET j == job[r][e] IN
    /\ j.at = "verify"
    /\ \E result \in IF e \in FileMode THEN {"skipped"}
                     ELSE IF j.apply = "failure" THEN {"failure", "skipped"}
                     ELSE {"success", "failure", "skipped"} :
          /\ Becomes(r, e, [j EXCEPT !.at = "record", !.verify = result])
          /\ proved' = IF result = "success" THEN proved \cup {<<r, e, gateway[e].inputs>>} ELSE proved
    /\ UNCHANGED <<main, runs, records, gateway, lost, bounds>>

(* "Record promotion result" and its artifact.  On a later attempt the name *)
(* may be taken: the older record stays and the step fails.                 *)
Record(r, e) ==
    LET j == job[r][e]
        record == [rev |-> j.rev, apply |-> j.apply, verify |-> j.verify]
    IN  /\ j.at = "record"
        /\ \/ /\ records' = [records EXCEPT ![r][e] = record]
              /\ Becomes(r, e, StageLedger(r, j))
           \/ /\ records[r][e] # NoRecord
              /\ Becomes(r, e, StageLedger(r, Fault(j, "failed")))
              /\ UNCHANGED records
        /\ UNCHANGED <<main, runs, gateway, lost, proved, bounds>>

(* A push lands only on the head it was based on.                           *)
FastForward(j) == j.base = Len(main)

Pushed(j, e) ==
    Append(main, [main[j.base] EXCEPT !.ledger[e] = j.mine])

(* The answer arrives; or after a landed push whose answer was lost, the    *)
(* rebase dropped the commit and there is nothing left to push.             *)
Push(r, e) ==
    LET j == job[r][e] IN
    /\ j.at = "push"
    /\ FastForward(j)
    /\ main' = IF j.landed THEN main ELSE Pushed(j, e)
    /\ lost' = IF j.landed THEN lost ELSE lost \ {e}
    /\ Becomes(r, e, End(r, j))
    /\ UNCHANGED <<runs, records, gateway, proved, bounds>>

(* for attempt in 1 2 3 4 5 *)
TriesLeft(j) == j.tries + 1 < MaxPushes

(* Rejected, or unanswered: fetch and rebase, unless that fails or meets a  *)
(* person's edit of the same file, and try again while tries are left.      *)
Rebase(r, e) ==
    LET j == job[r][e]
        conflict == ~j.landed /\ main[j.base].edits[e] # Tip.edits[e]
    IN  /\ j.at = "push"
        /\ \/ /\ ~conflict
              /\ TriesLeft(j)
              /\ Becomes(r, e, [j EXCEPT !.base = Len(main), !.tries = @ + 1])
              /\ UNCHANGED lost
           \/ /\ lost' = IF j.landed THEN lost ELSE lost \cup {e}
              /\ Becomes(r, e, End(r, Fault(j, "failed")))
        /\ UNCHANGED <<main, runs, records, gateway, proved, bounds>>

(* The push lands and its answer does not arrive.                           *)
LandUnanswered(r, e) ==
    LET j == job[r][e] IN
    /\ j.at = "push"
    /\ FastForward(j) /\ ~j.landed
    /\ main' = Pushed(j, e)
    /\ lost' = lost \ {e}
    /\ Becomes(r, e, IF TriesLeft(j)
                     THEN [j EXCEPT !.landed = TRUE, !.base = Len(main) + 1, !.tries = @ + 1]
                     ELSE End(r, Fault([j EXCEPT !.landed = TRUE], "failed")))
    /\ UNCHANGED <<runs, records, gateway, proved, bounds>>
-----------------------------------------------------------------------------
HeldStep(r, e) ==
    \/ Gate(r, e) \/ Act(r, e) \/ VerifyTraffic(r, e) \/ Record(r, e)
    \/ Push(r, e) \/ Rebase(r, e) \/ LandUnanswered(r, e)

Done == Quiet /\ UNCHANGED vars

Next ==
    \/ \E i \in Inputs : Merge(i)
    \/ \E e \in Env : Dispatch(e)
    \/ Unrelated
    \/ \E r \in 1..Len(runs) :
          \/ Rerun(r) \/ Promote(r)
          \/ \E e \in Env : Cut(r, e) \/ Join(r, e) \/ Start(r, e) \/ HeldStep(r, e)
    \/ Done

Spec == Init /\ [][Next]_vars

-----------------------------------------------------------------------------
TypeOK ==
    /\ main \in Seq(Commit) /\ main # <<>>
    /\ \A r \in 1..Len(runs) : runs[r].trigger \in 1..Len(main)
    /\ job \in [Run -> [Env -> Job]]
    /\ \A r \in Run, e \in Env :
          LET j == job[r][e] IN
          /\ j.rev \in 0..Len(main) /\ j.base \in 0..Len(main)
          /\ j.at \in {"gate", "apply"} => j.rev # 0
          /\ records[r][e].rev \in 0..Len(main)
    /\ \A e \in Env : gateway[e].inputs \in Inputs \cup {Mixed}
    /\ lost \in SUBSET Env

(* The ledger a job works from is the one the last job of its environment   *)
(* left, whatever ran in between, unless that one's commit was lost to a    *)
(* cancellation or to a push that failed: the comment above "Check out      *)
(* protected main for apply".                                               *)
LedgerIsFresh ==
    \A r \in DOMAIN runs : \A e \in DOMAIN job[r] :
        job[r][e].at \in {"gate", "apply"} =>
            e \in lost \/ main[job[r][e].rev].ledger[e] = gateway[e].effects

(* A promoted environment is changed only with inputs this run's own        *)
(* predecessor applied and was seen to serve: docs/promotion.md.            *)
PromotedWasVerified ==
    \A r \in DOMAIN runs : \A e \in DOMAIN job[r] :
        LET j == job[r][e] IN
        j.mine # 0 /\ IsApply(r) /\ Requires[e] # NoEnv =>
            <<r, Requires[e], main[j.rev].inputs>> \in proved

(* What a job works from is what it takes it for: the newest ledger of its  *)
(* environment, and inputs the predecessor serves.                          *)
JobsAreGrounded == LedgerIsFresh /\ PromotedWasVerified

(* When nothing runs any more, an environment that does not serve the       *)
(* head's inputs had a run of the commit that brought them, and that run    *)
(* was not refused for being old: it failed, was blocked, cut or displaced, *)
(* or succeeded and an older run of the same inputs was cut after it.       *)
LastChange == CHOOSE n \in 1..Len(main) :
    /\ \A m \in n..Len(main) : main[m].inputs = Tip.inputs
    /\ n = 1 \/ main[n - 1].inputs # Tip.inputs

EndedBy(e, reasons) ==
    \E r \in 1..Len(runs) :
        /\ IsApply(r) /\ runs[r].trigger = LastChange
        /\ job[r][e].verdict \in reasons

Accounted ==
    Quiet => \A e \in Env :
        \/ gateway[e].inputs = Tip.inputs
        \/ EndedBy(e, {"success", "failed", "blocked", "cancelled", "skipped", "displaced"})

(* "Keeping them equal is what makes a queued apply un-strandable": the     *)
(* same, without the job that was displaced from its group.                 *)
Unstrandable ==
    Quiet => \A e \in Independent :
        \/ gateway[e].inputs = Tip.inputs
        \/ EndedBy(e, {"success", "failed", "blocked", "cancelled", "skipped"})

(* A job that ends green has its effect in the ledger of the branch, and no *)
(* declared check of it failed.                                             *)
GreenIsRecorded ==
    \A r \in DOMAIN runs : \A e \in DOMAIN job[r] :
        LET j == job[r][e] IN
        j.at # "ended" /\ job'[r][e].at = "ended" /\ job'[r][e].verdict = "success" =>
            /\ Tip'.ledger[e] = gateway'[e].effects
            /\ IsApply(r) => j.apply = "success" /\ j.verify # "failure"

(* No apply takes its inputs from a commit before the one the last apply of *)
(* that environment took them from: an old run cannot roll back a newer     *)
(* configuration.                                                           *)
NeverRollsBack == \A e \in DOMAIN gateway : gateway'[e].pos >= gateway[e].pos

(* A pushed ledger commit leaves every other ledger, every person's edit    *)
(* and every merge on the branch as they were.                              *)
PushKeepsOthers ==
    /\ \A e \in DOMAIN gateway : /\ Tip'.ledger[e] >= Tip.ledger[e]
                                /\ Tip'.edits[e] >= Tip.edits[e]
    /\ Len(runs') = Len(runs) => Tip'.inputs = Tip.inputs

(* No apply rolls an environment back to an older commit, no push of a     *)
(* ledger undoes what others put on the branch, and a green job has its    *)
(* effect on record.                                                       *)
NothingIsUndone == [][NeverRollsBack /\ PushKeepsOthers /\ GreenIsRecorded]_vars

(* Every run comes to an end, whatever queues behind whatever.              *)
EveryRunEnds == []<>Quiet
=============================================================================
