------------------------------- MODULE Verify -------------------------------
(***************************************************************************)
(* Traffic verification of a deployment: the last part of an apply that    *)
(* hands its finalized credential bundle on, the verify command that       *)
(* sends the declared checks to the data plane with it, and the record a   *)
(* promotion is decided from.  Time is counted in ticks; an attempt takes  *)
(* any time up to its timeout, and the scheduler may add overhead.         *)
(***************************************************************************)
EXTENDS Integers, Sequences

CONSTANTS
    Slot,           \* credential slots the smoke file can name
    Elsewhere,      \* slots in a namespace an ad-hoc selection leaves out
    CheckLists,     \* the check sequences smoke.yaml may declare
    BudgetCap,      \* MAX_ENVIRONMENT_VERIFY_BUDGET_SECS
    Grace,          \* VERIFY_DEADLINE_GRACE_SECS
    MaxOverhead     \* bound: ticks the scheduler adds in one run

NoSlot == "no-slot"
SmokeCheck ==
    [method : {"GET", "POST"}, slot : Slot \cup {NoSlot}, guarded : BOOLEAN,
     expect : STRING, attempts : Nat \ {0}, timeout : Nat \ {0}, backoff : Nat,
     replay_safe : BOOLEAN]
VerifyAssumption ==
    /\ NoSlot \notin Slot /\ Elsewhere \subseteq Slot
    /\ \A cs \in CheckLists : cs \in Seq(SmokeCheck)
    /\ BudgetCap \in Nat /\ Grace \in Nat /\ MaxOverhead \in Nat

NoBundle == [s \in {"absent"} |-> "none"]   \* no handoff file
Empty == [s \in {} |-> "none"]

VARIABLES
    checks, adhoc, bound,       \* what the job is given, chosen once
    brokered, labelled,         \* desired Consumers: placeholder leaf, probe label
    secret,                     \* slots with a value in the environment secret
    allow, edited,              \* the operator's list; edited since the apply began
    handoff,                    \* the finalized-bundle file
    served,                     \* the value the gateway accepts for each slot
    pc, applied, granted,       \* step; apply's outcome; the projection's values
    next, tries, clock,         \* check in progress, its attempts, time
    results, overhead,          \* one outcome per finished check; time added
    sent, effects, answered,    \* what the endpoint saw (see Observe below)
    record                      \* the promotion record

given == <<checks, adhoc, bound, brokered, labelled, secret>>
wire == <<sent, effects, answered>>
timing == <<next, tries, clock, results, overhead>>
vars == <<given, allow, edited, handoff, served, pc, applied, granted, timing,
          wire, record>>

-----------------------------------------------------------------------------
(* The declared checks. *)

Idempotent(c) == c.method = "GET"

ReplaysAmbiguous(c) == c.replay_safe \/ Idempotent(c)

Backoff(c, n) == c.backoff * n

WorstCase(c) ==
    c.attempts * c.timeout + c.backoff * (((c.attempts - 1) * c.attempts) \div 2)

\* The checks run one after another: what the first n of them can take.
WorstCases(cs) ==
    LET total[n \in 0..Len(cs)] == IF n = 0 THEN 0 ELSE total[n - 1] + WorstCase(cs[n])
    IN  total
WorstCaseOf(cs) == WorstCases(cs)[Len(cs)]

SmokeConfigLoads(cs) ==
    /\ \A i \in DOMAIN cs: cs[i].slot # NoSlot => cs[i].method = "GET"
    /\ WorstCaseOf(cs) <= BudgetCap

Deadline ==
    (IF WorstCaseOf(checks) <= BudgetCap THEN WorstCaseOf(checks) ELSE BudgetCap) + Grace

-----------------------------------------------------------------------------
(* Which slots a check may spend. *)

\* The brokered secrets of the desired configuration this job assembles.
Owned == brokered \ (IF adhoc THEN Elsewhere ELSE {})

\* A blank or unset list is no list.
Visible == allow # {}

Approved(s, list) == s \in Owned /\ s \in labelled /\ s \in list

Refused(s, list) ==
    IF s \in Owned THEN s \notin labelled \/ (list # {} /\ s \notin list)
                   ELSE ~(adhoc /\ s \in Elsewhere)

Slots(cs) == {cs[i].slot : i \in DOMAIN cs} \ {NoSlot}

PreflightRefuses ==
    \/ Slots(checks) # {} /\ ~Visible /\ bound
    \/ \E s \in Slots(checks): Refused(s, allow)

Authorizes ==
    \/ Slots(checks) = {}
    \/ Visible /\ \A s \in Slots(checks): Approved(s, allow)

-----------------------------------------------------------------------------
Init ==
    /\ checks \in {cs \in CheckLists: SmokeConfigLoads(cs)}
    /\ adhoc \in BOOLEAN /\ bound \in BOOLEAN
    /\ brokered \in SUBSET Slots(checks) /\ labelled \in SUBSET brokered
    /\ secret \in SUBSET brokered /\ allow \in SUBSET Slot /\ edited = FALSE
    /\ handoff \in {NoBundle, [s \in Slot |-> "old"]}
    /\ served = [s \in Slot |-> "old"]
    /\ pc = "start" /\ applied = "none" /\ granted = Empty
    /\ next = 1 /\ tries = 0 /\ clock = 0 /\ results = <<>> /\ overhead = 0
    /\ sent = {} /\ effects = [i \in DOMAIN checks |-> 0]
    /\ answered = [i \in DOMAIN checks |-> "none"]
    /\ record = "none"

\* The administrator changes the environment's variable while the job runs.
EditAllowlist ==
    /\ pc \in {"apply", "deployed", "job"} /\ ~edited /\ edited' = TRUE
    /\ \E list \in SUBSET Slot \ {allow}: allow' = list
    /\ UNCHANGED <<given, handoff, served, pc, applied, granted, timing, wire, record>>

-----------------------------------------------------------------------------
(* The apply step. *)

\* mutant: an earlier run's file stays where it is
ClearHandoff_Kept == handoff
ClearHandoff == NoBundle

StartApply ==
    /\ pc = "start" /\ handoff' = ClearHandoff
    /\ IF PreflightRefuses THEN pc' = "job" /\ applied' = "failure"
                           ELSE pc' = "apply" /\ applied' = "none"
    /\ UNCHANGED <<given, allow, edited, served, granted, timing, wire, record>>

\* Slots without a value are allocated; the gateway then serves every value.
Deploy ==
    /\ pc = "apply" /\ pc' = "deployed"
    /\ served' = [s \in Slot |-> IF s \in secret THEN "held" ELSE "fresh"]
    /\ UNCHANGED <<given, allow, edited, handoff, applied, granted, timing, wire, record>>

FailApply ==
    /\ pc \in {"apply", "deployed"} /\ pc' = "job" /\ applied' = "failure"
    /\ UNCHANGED <<given, allow, edited, handoff, served, granted, timing, wire, record>>

\* The bundle with what this apply allocated, for every slot it resolved.
Finalized == [s \in brokered |-> served[s]]

FinishApply ==
    /\ pc = "deployed" /\ pc' = "job" /\ applied' = "success"
    /\ handoff' = Finalized
    /\ UNCHANGED <<given, allow, edited, served, granted, timing, wire, record>>

-----------------------------------------------------------------------------
(* The verify step. *)

Verdict(v) ==
    /\ pc' = "verified" /\ record' = v
    /\ UNCHANGED <<given, allow, edited, handoff, served, applied, granted, timing, wire>>

\* The step itself stops when the apply left no file.
NoFinalizedBundle == pc = "job" /\ handoff = NoBundle /\ Verdict("error")

NothingDeclared == IF checks = <<>> THEN "skipped" ELSE "none"

Skip ==
    /\ pc = "job" /\ handoff # NoBundle /\ NothingDeclared # "none"
    /\ Verdict(NothingDeclared)

RefuseSlots ==
    /\ pc = "job" /\ handoff # NoBundle /\ NothingDeclared = "none" /\ ~Authorizes
    /\ Verdict("refused")

\* The projection: authorised slots that have a value, and nothing else.
Authorize ==
    /\ pc = "job" /\ handoff # NoBundle /\ NothingDeclared = "none" /\ Authorizes
    /\ granted' = [s \in Slots(checks) \cap DOMAIN handoff |-> handoff[s]]
    /\ pc' = "checking"
    /\ UNCHANGED <<given, allow, edited, handoff, served, applied, timing, wire, record>>

Check == checks[next]

\* Every header has a value to send.
Resolves == Check.slot # NoSlot => Check.slot \in DOMAIN granted

Finish(outcome) ==
    /\ results' = Append(results, outcome)
    /\ next' = next + 1 /\ tries' = 0

Running == pc = "checking" /\ next <= Len(checks)
Past == clock >= Deadline

NotRun ==
    /\ Running /\ tries = 0 /\ (Past \/ ~Resolves)
    /\ Finish(IF Past THEN "late" ELSE "unreachable")
    /\ UNCHANGED <<given, allow, edited, handoff, served, pc, applied, granted,
                   clock, overhead, wire, record>>

\* What one request does at the endpoint.
Credential(c) == IF c.slot \in DOMAIN granted THEN granted[c.slot] ELSE "none"
Answers(c) ==
    {"502"} \cup
    (IF ~c.guarded \/ (c.slot # NoSlot /\ Credential(c) = served[c.slot])
     THEN {"200"} ELSE {"401"})
Observe(acted) ==
    /\ sent' = sent \cup (IF Check.slot \in DOMAIN granted THEN {Check.slot} ELSE {})
    /\ effects' = [effects EXCEPT ![next] = @ + acted]

\* The pause before the attempt, then d ticks on the wire and o of overhead.
Elapsed(d, o) == clock + Backoff(Check, tries) + d + o
InTime(d, o) == Elapsed(d, o) <= Deadline

MayAttempt == Running /\ ~(tries = 0 /\ Past) /\ Resolves /\ tries < Check.attempts

Answered(d, o) ==
    /\ MayAttempt /\ InTime(d, o)
    /\ clock' = Elapsed(d, o) /\ overhead' = overhead + o
    /\ \E status \in Answers(Check):
         /\ Observe(IF status = "200" THEN 1 ELSE 0)
         /\ answered' = [answered EXCEPT ![next] = status]
         /\ Finish(IF status = Check.expect THEN "passed" ELSE "unexpected")
    /\ UNCHANGED <<given, allow, edited, handoff, served, pc, applied, granted, record>>

\* The attempt failed: another one, or the check ends here.
Again(retry, outcome) ==
    IF retry /\ tries + 1 < Check.attempts
    THEN tries' = tries + 1 /\ UNCHANGED <<next, results>>
    ELSE Finish(outcome)

\* A connection that was never established carried no request.
NotConnected(d, o) ==
    /\ MayAttempt /\ InTime(d, o)
    /\ clock' = Elapsed(d, o) /\ overhead' = overhead + o
    /\ Again(TRUE, "unreachable")
    /\ UNCHANGED <<given, allow, edited, handoff, served, pc, applied, granted, wire, record>>

\* A timeout or a broken connection: the endpoint may have acted.
Ambiguous(d, o) ==
    /\ MayAttempt /\ InTime(d, o)
    /\ clock' = Elapsed(d, o) /\ overhead' = overhead + o
    /\ \E acted \in 0..1: Observe(acted)
    /\ Again(ReplaysAmbiguous(Check), IF d = Check.timeout THEN "timedout" ELSE "unreachable")
    /\ UNCHANGED <<given, allow, edited, handoff, served, pc, applied, granted,
                   answered, record>>

\* timeout_at(deadline): the check is abandoned wherever it is.
Interrupted == "late"
Interrupt(d, o) ==
    /\ MayAttempt /\ ~InTime(d, o)
    /\ clock' = Deadline /\ overhead' = overhead + o
    /\ \E acted \in 0..1: Observe(acted)
    /\ Finish(Interrupted)
    /\ UNCHANGED <<given, allow, edited, handoff, served, pc, applied, granted,
                   answered, record>>

Attempt ==
    \E d \in 0..Check.timeout, o \in 0..(MaxOverhead - overhead):
        Answered(d, o) \/ NotConnected(d, o) \/ Ambiguous(d, o) \/ Interrupt(d, o)

AllPassed == \A i \in DOMAIN results: results[i] = "passed"

Report ==
    /\ pc = "checking" /\ next > Len(checks)
    /\ Verdict(IF AllPassed THEN "passed" ELSE "failed")

\* The record names the apply's and the verification's results together.
RecordPromotion ==
    /\ pc = "verified" /\ pc' = "done"
    /\ record' = IF applied = "success" /\ record = "passed" THEN "authorizes" ELSE record
    /\ UNCHANGED <<given, allow, edited, handoff, served, applied, granted, timing, wire>>

Done == pc = "done" /\ UNCHANGED vars

Verifying == NotRun \/ (Running /\ Attempt) \/ Report

Next ==
    \/ EditAllowlist \/ StartApply \/ Deploy \/ FailApply \/ FinishApply
    \/ NoFinalizedBundle \/ Skip \/ RefuseSlots \/ Authorize
    \/ Verifying \/ RecordPromotion \/ Done

Spec == Init /\ [][Next]_vars

-----------------------------------------------------------------------------
(* Properties. *)

Outcome == {"passed", "unexpected", "timedout", "unreachable", "late"}

\* Types; results grow with the checks, and time stays within the deadline.
TypeOK ==
    /\ allow \in SUBSET Slot /\ edited \in BOOLEAN
    /\ handoff = NoBundle \/ handoff \in UNION {[d -> {"old", "held", "fresh"}] : d \in SUBSET Slot}
    /\ served \in [Slot -> {"old", "held", "fresh"}]
    /\ granted \in UNION {[d -> {"old", "held", "fresh"}] : d \in SUBSET Slot}
    /\ pc \in {"start", "apply", "deployed", "job", "checking", "verified", "done"}
    /\ applied \in {"none", "success", "failure"}
    /\ next = Len(results) + 1 /\ results \in Seq(Outcome)
    /\ tries \in Nat /\ clock \in 0..Deadline /\ overhead \in 0..MaxOverhead
    /\ sent \subseteq Slot
    /\ record \in {"none", "error", "skipped", "refused", "passed", "failed", "authorizes"}

\* A record that authorises a promotion was earned by this deployment: the
\* apply completed, at least one check was declared, and every check's route
\* answered what it must, asked with the value the gateway serves now
\* (cmd_verify, the step that records its result).
PromotionIsEarned ==
    record = "authorizes" =>
        /\ applied = "success" /\ checks # <<>>
        /\ \A i \in DOMAIN checks:
             /\ answered[i] = checks[i].expect
             /\ checks[i].slot # NoSlot => granted[checks[i].slot] = served[checks[i].slot]

\* Nothing but this apply's own values is ever in the projection: not those
\* of an earlier run's file, and not the bundle as it was before allocation
\* (remove_bundle_handoff, write_bundle_handoff).
HandoffIsCurrent == \A s \in DOMAIN granted: granted[s] = served[s]

\* A request that is unsafe to replay acts at most once, however the attempts
\* fail (run_check).
NeverReplayed ==
    \A i \in DOMAIN checks: ~(checks[i].replay_safe \/ checks[i].method = "GET") => effects[i] <= 1

\* Only a credential that both the repository labels and the operator lists
\* is put on the wire (authorize_probe_slots).
SpendsOnlyProbes == sent \subseteq (allow \cap labelled \cap brokered)

\* What verify would refuse was refused before the gateway changed, unless the
\* list was edited meanwhile, or this run could not see it, or an ad-hoc
\* namespace hid the slot's Consumer (preflight_probe_bindings).
RefusedBeforeChange ==
    record = "refused" => edited \/ ~bound \/ adhoc

\* The budget covers the checks: only overhead beyond the grace can make the
\* deadline interrupt a check that keeps to its own limits (worst_case_budget
\* against the pauses and timeouts of run_check).
BudgetCoversChecks ==
    (\E i \in DOMAIN results: results[i] = "late") => overhead > Grace

\* A promotion rests on this deployment's own result, asked with this
\* deployment's own credentials; a verification spends no other credential,
\* repeats no request that may act twice, has time for its checks, and refuses
\* nothing the apply could have refused before (cmd_apply, cmd_verify).
VerificationIsHonest ==
    /\ TypeOK /\ PromotionIsEarned /\ HandoffIsCurrent /\ NeverReplayed
    /\ SpendsOnlyProbes /\ RefusedBeforeChange /\ BudgetCoversChecks

=============================================================================
