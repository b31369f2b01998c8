------------------------------- MODULE Gates -------------------------------
(***************************************************************************)
(* The refusals `plan`, `review` and `apply` share, each command in the    *)
(* order of its own code, over one world: a repository, an environment and *)
(* a GitHub that do not change while the commands run.                     *)
(*                                                                         *)
(* `apply` meets its refusals one at a time, between its own effects (lock *)
(* the state, read the bundle, publish, allocate, write); `plan` gathers   *)
(* the same predicates into one verdict; `review` shows that verdict on    *)
(* the pull request.  The properties relate the three.                     *)
(***************************************************************************)
EXTENDS Integers, Sequences, FiniteSets, SequencesExt

CONSTANTS
    MaxFacts,           \* bound: facts that hold of one world
    MaxCommentRetries   \* review/github.rs MAX_COMMENT_RETRIES

GatesAssumption ==
    /\ MaxFacts \in Nat
    /\ MaxCommentRetries \in Nat

VARIABLES
    (* the world *)
    mode,       \* gateway_mode: "api" or "file"
    facts,      \* what is wrong, or pending, in the repository and environment
    accepted,   \* facts a flag of the command line accepts
    policyFile, \* is there a policy configuration?
    pr,         \* the pull request number: "none", "malformed" or "known"
    github,     \* what an override lookup answers: "active", "inactive", "error"
    (* the commands *)
    stage,      \* which command runs, and for review which step of it
    planned,    \* how plan ended: "clean", "refused", or "none" before
    at,         \* the apply step that comes next
    approved,   \* was apply given --auto-approve?
    touched,    \* effects apply has had
    refusedBy,  \* the gate that refused the apply
    (* one review *)
    required,   \* --require-live
    strict,     \* --fail-on-blockers
    shown,      \* blockers the review's text names
    attempt,    \* comment POSTs made
    delivery,   \* "none", "posted", "failed"
    fallback,   \* is the text on the step summary or on stdout?
    comments,   \* comments that exist on the pull request
    exit        \* how review ended: "running", "zero", "error"

world == <<mode, facts, accepted, policyFile, pr, github>>
applying == <<at, approved, touched, refusedBy>>
reviewing == <<required, strict, shown, attempt, delivery, fallback, comments, exit>>
vars == <<world, stage, planned, applying, reviewing>>
-----------------------------------------------------------------------------
(* The facts the gates tell apart.  "noToken" and "noRepository" are a      *)
(* pending allocation without what it needs; "conflict" is a declaration    *)
(* that collides with a spec-owned row, in the namespace of the pending     *)
(* slots; "storedInvalid" is a stored credential value the validator        *)
(* rejects; "resolvedPolicy" is a blocking finding that appears only after  *)
(* credential resolution; "smoke" is a smoke file that names a slot verify  *)
(* would refuse, "allowlist" an operator's list that is missing.            *)
FileFacts == {"narrowed", "paths"}
ApiFacts == {"conflict", "resolvedPolicy"}
Pendings == {"pending", "noToken", "noRepository"}
LiveFacts == {"cached", "gatewayDown"}
Fact ==
    FileFacts \cup ApiFacts \cup Pendings \cup LiveFacts
    \cup {"emptySelection", "smoke", "allowlist", "scope", "security", "policy",
          "remap", "required", "gatewayInvalid", "meshInvalid", "validatorDown",
          "storedInvalid"}

(* Facts that can hold together. *)
Possible(F, m, p) ==
    /\ m = "api" => F \cap FileFacts = {}
    /\ m = "file" => "conflict" \notin F
    /\ F \cap {"policy", "resolvedPolicy"} # {} => p

Holds(f) == f \in facts
Pending == facts \cap Pendings # {}
Active == pr = "known" /\ github = "active"

(* The flags that accept a remap and an empty selection. *)
Acceptable == {"remap", "emptySelection"}
Stands(f) == f \in facts \ accepted
-----------------------------------------------------------------------------
(* verdict.rs: the refusals that need no gateway, as one set.               *)

Unprovisioned == facts \cap {"noToken", "noRepository"}

(* Security and policy findings the decision at hand leaves blocking.  The  *)
(* override covers no finding that only resolution shows, and only an api   *)
(* run looks for those.                                                     *)
Findings(overridden) ==
    (IF overridden THEN {} ELSE facts \cap {"security", "policy"})
    \cup (IF mode = "api" THEN facts \cap {"resolvedPolicy"} ELSE {})

Blockers(overridden, invalid) ==
    Findings(overridden) \cup invalid \cup Unprovisioned
    \cup {f \in {"remap"} : Stands(f)}
    \cup (facts \cap {"narrowed", "paths", "smoke", "allowlist", "required"})

(* plan and review validate the resolved document, whatever the mode. *)
InvalidPreview ==
    facts \cap {"gatewayInvalid", "meshInvalid", "validatorDown", "storedInvalid"}

(* A file-mode apply validates the placeholders it publishes. *)
InvalidApply == InvalidPreview \ (IF mode = "file" THEN {"storedInvalid"} ELSE {})

(* A live view that plan and review compare with. *)
Compared == facts \cap LiveFacts = {}
-----------------------------------------------------------------------------
Init ==
    /\ mode \in {"api", "file"}
    /\ facts \in UNION {kSubset(k, Fact) : k \in 0..MaxFacts}
    /\ accepted \in SUBSET (facts \cap Acceptable)
    /\ policyFile \in BOOLEAN
    /\ Possible(facts, mode, policyFile)
    /\ pr \in {"none", "malformed", "known"}
    /\ github \in IF pr = "known" THEN {"active", "inactive", "error"} ELSE {"inactive"}
    /\ stage = "plan" /\ planned = "none"
    /\ at = 1 /\ approved = FALSE /\ touched = {} /\ refusedBy = "none"
    /\ required = FALSE /\ strict = FALSE /\ shown = {} /\ attempt = 0
    /\ delivery = "none" /\ fallback = FALSE /\ comments = 0 /\ exit = "running"

-----------------------------------------------------------------------------
(* plan: the preflights first, then one verdict over everything else.       *)

PreflightRefuses == facts \cap {"paths", "smoke", "allowlist", "scope"} # {}

(* plan asks GitHub only when a finding blocks; a failed lookup leaves the  *)
(* findings standing, a malformed pull request number is an error.          *)
PlanAsks == Findings(FALSE) # {}
PlanOverridden == PlanAsks /\ Active

\* mutant: plan leaves the environment's provisioning out of its verdict
PlanRefuses_NoProvisioning ==
    \/ PreflightRefuses
    \/ PlanAsks /\ pr = "malformed"
    \/ Blockers(PlanOverridden, InvalidPreview) \ Unprovisioned # {}
    \/ Compared /\ Holds("conflict")
    \/ Stands("emptySelection")

PlanRefuses ==
    \/ PreflightRefuses
    \/ PlanAsks /\ pr = "malformed"
    \/ Blockers(PlanOverridden, InvalidPreview) # {}
    \/ Compared /\ Holds("conflict")
    \/ Stands("emptySelection")

Plan ==
    /\ stage = "plan"
    /\ planned' = IF PlanRefuses THEN "refused" ELSE "clean"
    /\ stage' = "between"
    /\ UNCHANGED <<world, applying, reviewing>>
-----------------------------------------------------------------------------
(* apply: its steps in order, gates and effects alike.                      *)

Audits == <<"prNumber", "selection", "narrowed", "paths", "smoke", "allowlist",
            "scope", "lookup", "security", "policy">>
Resolved == <<"remap", "resolvedPolicy", "required", "validation", "mesh">>

Steps ==
    Audits \o <<"lock", "bundle">> \o Resolved
    \o (IF mode = "file"
        THEN <<"approval", "provisioning", "publish", "allocate", "record">>
        ELSE <<"read", "evidence", "approval", "provisioning", "allocate", "write", "record">>)

Effects == {"lock", "bundle", "read", "publish", "allocate", "write", "record"}
Changes == {"publish", "allocate", "write"}

(* apply looks the override up whenever there is a policy file, whether or  *)
(* not a rule is broken.                                                    *)
LooksUp == pr = "known" /\ (Holds("security") \/ policyFile)

(* A slot in a namespace the apply refuses is left unallocated. *)
Withheld == Holds("conflict")
Allocatable == Pending /\ ~Withheld

Refuses(gate) ==
    CASE gate = "prNumber" -> pr = "malformed"
      [] gate = "selection" -> Stands("emptySelection")
      [] gate \in {"narrowed", "paths", "smoke", "allowlist", "scope", "required"} -> Holds(gate)
      [] gate = "lookup" -> LooksUp /\ github = "error"
      [] gate \in {"security", "policy"} -> Holds(gate) /\ ~Active
      [] gate = "remap" -> Stands("remap")
      [] gate = "resolvedPolicy" -> mode = "api" /\ Holds("resolvedPolicy")
      [] gate = "validation" -> InvalidApply \ {"meshInvalid"} # {}
      [] gate = "mesh" -> Holds("meshInvalid")
      [] gate = "evidence" -> ~Compared
      [] gate = "provisioning" -> Unprovisioned # {} /\ ~Withheld

StartApply ==
    /\ stage = "between"
    /\ stage' = "apply"
    /\ approved' \in BOOLEAN
    /\ UNCHANGED <<world, planned, at, touched, refusedBy, reviewing>>

AtStep(s) == stage = "apply" /\ at <= Len(Steps) /\ Steps[at] = s

PassGate ==
    /\ stage = "apply" /\ at <= Len(Steps)
    /\ Steps[at] \notin Effects \cup {"approval"}
    /\ ~Refuses(Steps[at])
    /\ at' = at + 1
    /\ UNCHANGED <<world, stage, planned, approved, touched, refusedBy, reviewing>>

RefuseAtGate ==
    /\ stage = "apply" /\ at <= Len(Steps)
    /\ Steps[at] \notin Effects \cup {"approval"}
    /\ Refuses(Steps[at])
    /\ refusedBy' = Steps[at]
    /\ stage' = "ended"
    /\ UNCHANGED <<world, planned, at, approved, touched, reviewing>>

(* Without --auto-approve an api run only previews; a file run previews     *)
(* when it would allocate.                                                  *)
AsksFirst == ~approved /\ (mode = "api" \/ Pending)

Approval ==
    /\ AtStep("approval")
    /\ IF AsksFirst
       THEN stage' = "ended" /\ refusedBy' = "unapproved" /\ UNCHANGED at
       ELSE at' = at + 1 /\ UNCHANGED <<stage, refusedBy>>
    /\ UNCHANGED <<world, planned, approved, touched, reviewing>>

Effect ==
    /\ stage = "apply" /\ at <= Len(Steps)
    /\ Steps[at] \in Effects
    /\ touched' = touched \cup (IF Steps[at] = "allocate" /\ ~Allocatable
                                THEN {} ELSE {Steps[at]})
    /\ at' = at + 1
    /\ UNCHANGED <<world, stage, planned, approved, refusedBy, reviewing>>

(* The run-out of apply; a refused namespace fails the command after the    *)
(* state is saved.                                                          *)
EndApply ==
    /\ stage = "apply" /\ at > Len(Steps)
    /\ stage' = "ended"
    /\ refusedBy' = IF Withheld THEN "conflict" ELSE "none"
    /\ UNCHANGED <<world, planned, at, approved, touched, reviewing>>
-----------------------------------------------------------------------------
(* review: the same verdict, as a comment.                                  *)

ReviewLooksUp == pr = "known" /\ (policyFile \/ Holds("security"))

StartReview ==
    /\ stage = "between"
    /\ required' \in BOOLEAN /\ strict' \in BOOLEAN
    /\ IF required' /\ pr # "known"
       THEN stage' = "ended" /\ exit' = "error"
       ELSE stage' = "compose" /\ exit' = exit
    /\ UNCHANGED <<world, planned, applying, shown, attempt, delivery, fallback, comments>>

(* Nothing is shown of a review whose scope is wrong or whose override      *)
(* lookup failed.                                                           *)
ReviewAborts ==
    /\ stage = "compose"
    /\ Holds("scope") \/ (ReviewLooksUp /\ github = "error")
    /\ stage' = "ended" /\ exit' = "error"
    /\ UNCHANGED <<world, planned, applying, required, strict, shown, attempt,
                   delivery, fallback, comments>>

ReviewBlockers == Blockers(ReviewLooksUp /\ Active, InvalidPreview)

(* Without a pull request the text goes to stdout and nothing is posted. *)
Compose ==
    /\ stage = "compose"
    /\ ~Holds("scope") /\ ~(ReviewLooksUp /\ github = "error")
    /\ shown' = ReviewBlockers
    /\ IF pr = "known"
       THEN stage' = "post" /\ UNCHANGED fallback
       ELSE stage' = "enforce" /\ fallback' = TRUE
    /\ UNCHANGED <<world, planned, applying, required, strict, attempt, delivery,
                   comments, exit>>

(* A 2xx: GitHub has the comment. *)
PostAccepted ==
    /\ stage = "post"
    /\ comments' = comments + 1
    /\ delivery' = "posted"
    /\ stage' = "enforce"
    /\ UNCHANGED <<world, planned, applying, required, strict, shown, attempt,
                   fallback, exit>>

(* 408, 429 or 503 is asked again, a bounded number of times. *)
PostBusy ==
    /\ stage = "post"
    /\ attempt < MaxCommentRetries
    /\ attempt' = attempt + 1
    /\ UNCHANGED <<world, stage, planned, applying, required, strict, shown,
                   delivery, fallback, comments, exit>>

(* Any other answer, and a retryable one once the retries are spent. *)
PostRefused ==
    /\ stage = "post"
    /\ delivery' = "failed"
    /\ stage' = "fallback"
    /\ UNCHANGED <<world, planned, applying, required, strict, shown, attempt,
                   fallback, comments, exit>>

(* No answer arrived: the comment may exist, and the POST is not repeated. *)
PostLost ==
    /\ stage = "post"
    /\ \E made \in {0, 1} : comments' = comments + made
    /\ delivery' = "failed"
    /\ stage' = "fallback"
    /\ UNCHANGED <<world, planned, applying, required, strict, shown, attempt,
                   fallback, exit>>

(* The step summary and stdout, before any gate of the exit code.  A        *)
(* summary that cannot be written ends the command there.                   *)
Fallback ==
    /\ stage = "fallback"
    /\ \/ fallback' = TRUE /\ stage' = "enforce" /\ exit' = exit
       \/ fallback' = fallback /\ stage' = "ended" /\ exit' = "error"
    /\ UNCHANGED <<world, planned, applying, required, strict, shown, attempt,
                   delivery, comments>>

ReviewFails ==
    \/ required /\ ~Compared
    \/ required /\ delivery = "failed"
    \/ strict /\ shown # {}
    \/ Holds("validatorDown")

Enforce ==
    /\ stage = "enforce"
    /\ exit' = IF ReviewFails THEN "error" ELSE "zero"
    /\ stage' = "ended"
    /\ UNCHANGED <<world, planned, applying, required, strict, shown, attempt,
                   delivery, fallback, comments>>

Done == stage = "ended" /\ UNCHANGED vars

Next ==
    \/ Plan
    \/ StartApply \/ PassGate \/ RefuseAtGate \/ Approval \/ Effect \/ EndApply
    \/ StartReview \/ ReviewAborts \/ Compose
    \/ PostAccepted \/ PostBusy \/ PostRefused \/ PostLost \/ Fallback \/ Enforce
    \/ Done

(* One process runs its commands to their end; GitHub answers or times out. *)
Spec == Init /\ [][Next]_vars
-----------------------------------------------------------------------------
Ended == stage = "ended"
Applied == Ended /\ exit = "running"
Reviewed == Ended /\ exit # "running"

TypeOK ==
    /\ mode \in {"api", "file"} /\ facts \subseteq Fact /\ accepted \subseteq Acceptable
    /\ policyFile \in BOOLEAN /\ pr \in {"none", "malformed", "known"}
    /\ github \in {"active", "inactive", "error"}
    /\ stage \in {"plan", "between", "apply", "compose", "post", "fallback", "enforce", "ended"}
    /\ planned \in {"none", "clean", "refused"}
    /\ at \in 1..(Len(Steps) + 1) /\ approved \in BOOLEAN
    /\ touched \subseteq Effects
    /\ required \in BOOLEAN /\ strict \in BOOLEAN /\ shown \subseteq Fact
    /\ attempt \in 0..MaxCommentRetries
    /\ delivery \in {"none", "posted", "failed"} /\ fallback \in BOOLEAN
    /\ comments \in Nat /\ exit \in {"running", "zero", "error"}

(* A run that could publish a committed secret, or break a rule of the      *)
(* repository, has not locked the state, read the bundle or spoken to the   *)
(* gateway (main.rs: "is what makes it impossible for an apply to publish a *)
(* secret that was committed to the repository").                           *)
AuditedFirst ==
    touched # {} => Findings(Active) \ {"resolvedPolicy"} = {}

(* Whatever verdict.rs calls a blocker stops apply before it has changed a  *)
(* document, a secret store or a gateway, although apply meets each blocker *)
(* in a place of its own and never computes the verdict.  What a pending    *)
(* allocation lacks does not stop a run that leaves its slots unallocated.  *)
BlockersStopChanges ==
    touched \cap Changes # {}
        => Blockers(Active, InvalidApply)
              \subseteq (IF Withheld THEN Unprovisioned ELSE {})

(* A dry run leaves the secret store and the gateway as they are. *)
UnapprovedAllocatesNothing ==
    ~approved => touched \cap {"allocate", "write"} = {}

(* An apply of what plan called clean is refused only by the live gateway,  *)
(* by the pull request number or by a failed override lookup.               *)
CleanPlanIsHonoured ==
    Applied /\ planned = "clean"
        => refusedBy \in {"none", "unapproved", "evidence", "prNumber", "lookup"}
           \/ (refusedBy = "conflict" /\ ~Compared)

(* What plan refuses, an approved apply refuses or fails on.  The exception *)
(* is a stored value the validator rejects, which a file-mode apply does    *)
(* not look at.                                                             *)
RefusedPlanIsReal ==
    Applied /\ planned = "refused" /\ approved /\ refusedBy = "none"
        => mode = "file" /\ Holds("storedInvalid")

(* The verdict of the comment is the verdict of plan, for all plan decides  *)
(* without a gateway; an empty selection is a banner of the comment, and    *)
(* the facts that plan refuses before its verdict are blockers of it.       *)
ReviewAgreesWithPlan ==
    Reviewed /\ (delivery # "none" \/ fallback)
        => (planned = "refused") = (shown # {} \/ Stands("emptySelection")
                                    \/ (Holds("conflict") /\ Compared))

(* A review that has a text ends with the text somewhere: on the pull       *)
(* request, or on the step summary and stdout.  Where neither took it, the  *)
(* command fails, even one that enforces nothing.                           *)
ReviewIsSeen ==
    Reviewed /\ ~Holds("scope") /\ ~(required /\ pr # "known")
             /\ ~(ReviewLooksUp /\ github = "error")
        => \/ fallback \/ (comments > 0 /\ delivery = "posted")
           \/ exit = "error" /\ delivery = "failed"

(* However many times the comment is sent, the pull request has one. *)
OneComment == comments <= 1

(* A trusted review that passes compared with a fresh gateway and left its  *)
(* comment on the pull request.                                             *)
RequiredResultIsDelivered ==
    required /\ exit = "zero" => Compared /\ comments = 1

(* plan, review and apply decide alike, though each meets the refusals in   *)
(* an order of its own: what one calls a blocker stops the others, before   *)
(* anything is changed, and nothing else does; and what review decides is   *)
(* seen, once.                                                              *)
CommandsAgree ==
    /\ TypeOK
    /\ AuditedFirst /\ BlockersStopChanges /\ UnapprovedAllocatesNothing
    /\ CleanPlanIsHonoured /\ RefusedPlanIsReal /\ ReviewAgreesWithPlan
    /\ RequiredResultIsDelivered /\ ReviewIsSeen /\ OneComment

=============================================================================
