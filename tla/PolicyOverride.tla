--------------------------- MODULE PolicyOverride ---------------------------
(***************************************************************************)
(* The override of a blocking finding by a pull request (check_override_at *)
(* in policy/github_override.rs, verify_input in policy/override_input.rs) *)
(* and the gates it clears in cmd_apply (main.rs, policy/refusal.rs).      *)
(*                                                                         *)
(* The evidence is the PR, who labelled it, that account's permission and  *)
(* its review of the head.  Every part is one or more requests, all are    *)
(* read, then all are read again; people act on the PR in between.  The    *)
(* checkout is the run's own and does not change while it runs.            *)
(***************************************************************************)
EXTENDS SequencesExt, Integers

CONSTANTS
    User, Rev, NoUser, NoReview,
    TreeOf,             \* [Rev -> the source and desired input it commits]
    Identity,           \* findings, as a reviewer sees them
    PageSize, MaxPages, \* pagination of events and reviews
    History, Reviewed,  \* events and reviews an instance begins with
    Checkouts,          \* the working trees an instance runs in
    MaxCount,           \* bound on equal findings
    MaxChanges          \* bound on what people do during the run

Event == [what : {"labeled", "unlabeled", "other"}, by : User]
(* Reviews are numbered as they were submitted.                            *)
Review == [id : Nat \ {0}, by : User, commit : Rev, accepts : BOOLEAN]
Checkout == [committed : STRING, source : STRING, input : STRING, unknown : BOOLEAN,
             hasMerge : BOOLEAN]

PolicyOverrideAssumption ==
    /\ NoUser \notin User /\ NoReview \notin Review
    /\ TreeOf \in [Rev -> [source : STRING, input : STRING]]
    /\ {PageSize, MaxPages} \subseteq Nat \ {0} /\ {MaxCount, MaxChanges} \subseteq Nat
    /\ \A es \in History : es \in Seq(Event)
    /\ \A rs \in Reviewed : rs \in Seq(Review) /\ \A i \in DOMAIN rs : rs[i].id = i
    /\ Checkouts \subseteq Checkout

VARIABLES
    events, reviews, head, merged, permitted,   \* the pull request
    checkout,           \* source, input, unknown files, and what HEAD contains
    pc, pass, page, got,                        \* the run and its requests
    pr, approver, review, may,                  \* the evidence
    decision,           \* "none" while it is checked
    security, before, after,                    \* blocking findings
    cleared, rows, wrote,   \* overridden_for_audit, the ledger, the gateway
    held,               \* ghost: the evidence of the first reading held together
    restored,           \* ghost: evidence that went away came back
    changes

pull == <<events, reviews, head, merged, permitted>>
request == <<page, got>>
evidence == <<pr, approver, review, may>>
findings == <<security, before, after>>
effects == <<cleared, rows, wrote>>
vars == <<pull, checkout, pc, pass, request, evidence, decision, findings, effects,
          held, restored, changes>>

Counts == [Identity -> 0..MaxCount]
SecurityRule == "security_audit"

-----------------------------------------------------------------------------
(* The pull request and what is read of it.                                *)

Latest(S) == CHOOSE i \in S : \A j \in S : j <= i
LabelEvents(es) == {i \in DOMAIN es : es[i].what # "other"}
LastLabeler(es) ==
    LET ls == LabelEvents(es)
    IN  IF ls # {} /\ es[Latest(ls)].what = "labeled" THEN es[Latest(ls)].by ELSE NoUser
Labeled == LastLabeler(events) # NoUser
PullRequest == [labeled |-> Labeled, head |-> head, merged |-> merged]

(* The labeler's latest review must accept this head with the marker.      *)
AuthorizedReview(rs, u, h) ==
    LET by == {i \in DOMAIN rs : rs[i].by = u}
        last == rs[Latest(by)]
    IN  IF by # {} /\ last.accepts /\ last.commit = h THEN last ELSE NoReview

(* All of it, at one moment.                                               *)
Holds(p, u, r) ==
    /\ PullRequest = p /\ LastLabeler(events) = u /\ u \in permitted
    /\ AuthorizedReview(reviews, u, p.head) = r

(* The reviewed commit's files are the checkout's: sources committed and   *)
(* on disk, every desired input, nothing unknown; a merge is an ancestor.  *)
InputIsReviewed(t) ==
    /\ checkout.committed = t.source /\ checkout.source = t.source
    /\ ~checkout.unknown /\ checkout.input = t.input
    /\ merged => checkout.hasMerge

-----------------------------------------------------------------------------

Init ==
    /\ events \in History /\ reviews \in Reviewed /\ head \in Rev /\ merged \in BOOLEAN
    /\ permitted \in SUBSET User /\ checkout \in Checkouts
    /\ pc = "pr" /\ pass = 1 /\ page = 1 /\ got = <<>>
    /\ pr = [labeled |-> FALSE, head |-> head, merged |-> FALSE]
    /\ approver = NoUser /\ review = NoReview /\ may = FALSE /\ decision = "none"
    /\ security = FALSE /\ before = [i \in Identity |-> 0] /\ after = before
    /\ cleared = {} /\ rows = {} /\ wrote = FALSE
    /\ held = FALSE /\ restored = FALSE /\ changes = 0

Asks == UNCHANGED <<pull, checkout, findings, effects, restored, changes>>
Decide(d) == /\ decision' = d /\ pc' = "gate" /\ Asks
             /\ UNCHANGED <<pass, request, evidence, held>>
Inactive == Decide("inactive")
Read(l) == pc' = l /\ page' = 1 /\ got' = <<>> /\ Asks
(* A request that fails, or an answer that does not parse.                 *)
RequestFails == pc \in {"pr", "events", "permission", "reviews", "tree"} /\ Inactive

FetchPR ==
    /\ pc = "pr"
    /\ IF ~Labeled \/ (pass = 2 /\ PullRequest # pr) THEN Inactive
       ELSE /\ pr' = PullRequest /\ Read("events")
            /\ UNCHANGED <<pass, approver, review, may, decision, held>>

(* Numbered pages of a list until one is empty, up to the cap.             *)
Page(s) == SubSeq(s, 1 + (page - 1) * PageSize,
                  IF page * PageSize < Len(s) THEN page * PageSize ELSE Len(s))
Ends(s) == Page(s) = <<>>
WithinCap == page < MaxPages
More(s) == /\ page' = page + 1 /\ got' = got \o Page(s) /\ Asks
           /\ UNCHANGED <<pc, pass, evidence, decision, held>>
All(s) == got \o Page(s)
FetchEvents ==
    /\ pc = "events"
    /\ CASE Ends(events) ->
              LET u == LastLabeler(All(events))
              IN  IF u = NoUser \/ (pass = 2 /\ u # approver) THEN Inactive
                  ELSE /\ approver' = u /\ Read("permission")
                       /\ UNCHANGED <<pass, pr, review, may, decision, held>>
         [] ~Ends(events) /\ WithinCap -> More(events)
         [] OTHER -> Inactive

RereadsPermission_Once == pass = 1   \* mutant: permission is read once
RereadsPermission == TRUE
FetchPermission ==
    /\ pc = "permission"
    /\ IF RereadsPermission /\ approver \notin permitted THEN Inactive
       ELSE /\ may' = TRUE /\ Read("reviews")
            /\ UNCHANGED <<pass, pr, approver, review, decision, held>>

FetchReviews ==
    /\ pc = "reviews"
    /\ CASE Ends(reviews) ->
              LET r == AuthorizedReview(All(reviews), approver, pr.head)
              IN  IF r = NoReview \/ (pass = 2 /\ r # review) THEN Inactive
                  ELSE IF pass = 2 THEN Decide("active")
                  ELSE /\ review' = r /\ Read("tree")
                       /\ UNCHANGED <<pass, pr, approver, may, decision, held>>
         [] ~Ends(reviews) /\ WithinCap -> More(reviews)
         [] OTHER -> Inactive

VerifyInput ==
    /\ pc = "tree"
    /\ IF ~InputIsReviewed(TreeOf[pr.head]) THEN Inactive
       ELSE /\ pass' = 2 /\ held' = Holds(pr, approver, review) /\ Read("pr")
            /\ UNCHANGED <<evidence, decision>>

-----------------------------------------------------------------------------
(* The gates.                                                              *)

Active == decision = "active"
Blocked(c) == {i \in Identity : c[i] > 0}
Stop == pc' = "end" /\ UNCHANGED effects
Gate ==
    /\ pc = "gate" /\ security' \in BOOLEAN /\ before' \in Counts
    /\ IF (security' \/ Blocked(before') # {}) /\ ~Active THEN Stop
       ELSE /\ pc' = "resolve"
            /\ cleared' = Blocked(before') \cup (IF security' THEN {SecurityRule} ELSE {})
            /\ UNCHANGED <<rows, wrote>>
    /\ UNCHANGED <<pull, checkout, pass, request, evidence, decision, after, held,
                   restored, changes>>

(* One reviewed finding covers one finding of the resolved document.       *)
Uncovered == {i \in Blocked(after') : ~Active \/ after'[i] > before[i]}
Resolve ==
    /\ pc = "resolve" /\ after' \in Counts
    /\ IF Uncovered # {} THEN Stop
       ELSE /\ pc' = "write" /\ cleared' = cleared \cup Blocked(after')
            /\ UNCHANGED <<rows, wrote>>
    /\ UNCHANGED <<pull, checkout, pass, request, evidence, decision, security, before, held,
                   restored, changes>>
Applying == UNCHANGED <<pull, checkout, pass, request, evidence, decision, findings, held,
                        restored, changes>>
Write == pc = "write" /\ wrote' = TRUE /\ pc' = "record" /\ Applying
         /\ UNCHANGED <<cleared, rows>>
RowsFor == cleared
Record == pc = "record" /\ rows' = RowsFor /\ pc' = "end" /\ Applying
          /\ UNCHANGED <<cleared, wrote>>
(* The run dies, or returns an error after it wrote and before it saved.   *)
Fail == pc \in {"write", "record"} /\ pc' = "failed" /\ Applying /\ UNCHANGED effects

-----------------------------------------------------------------------------
(* People.                                                                 *)

Change == /\ pc \notin {"end", "failed", "gate", "resolve", "write", "record"}
          /\ changes < MaxChanges /\ changes' = changes + 1
          /\ UNCHANGED <<checkout, pc, pass, request, evidence, decision, findings,
                         effects, held>>
Label(u) == /\ Change /\ ~Labeled /\ events' = Append(events, [what |-> "labeled", by |-> u])
            /\ restored' = (restored \/ u = approver)
            /\ UNCHANGED <<reviews, head, merged, permitted>>
Unlabel(u) == /\ Change /\ Labeled
              /\ events' = Append(events, [what |-> "unlabeled", by |-> u])
              /\ UNCHANGED <<reviews, head, merged, permitted, restored>>
Submit(u, ok) == /\ Change
                 /\ reviews' = Append(reviews, [id |-> Len(reviews) + 1, by |-> u, commit |-> head,
                                                 accepts |-> ok])
                 /\ UNCHANGED <<events, head, merged, permitted, restored>>
Dismiss(i) == /\ Change /\ reviews[i].accepts
              /\ reviews' = [reviews EXCEPT ![i].accepts = FALSE]
              /\ UNCHANGED <<events, head, merged, permitted, restored>>
Push(h) == /\ Change /\ ~merged /\ h # head /\ head' = h
           /\ restored' = (restored \/ h = pr.head)
           /\ UNCHANGED <<events, reviews, merged, permitted>>
Merge == /\ Change /\ ~merged /\ merged' = TRUE
         /\ UNCHANGED <<events, reviews, head, permitted, restored>>
Regrant(u) == /\ Change /\ restored' = (restored \/ u \notin permitted)
              /\ permitted' = IF u \in permitted THEN permitted \ {u} ELSE permitted \cup {u}
              /\ UNCHANGED <<events, reviews, head, merged>>

Done == pc \in {"end", "failed"} /\ UNCHANGED vars
Readings == \/ FetchPR \/ FetchEvents \/ FetchPermission \/ FetchReviews \/ VerifyInput
            \/ RequestFails \/ Gate \/ Resolve \/ Write \/ Record \/ Fail
Next ==
    \/ Readings \/ Merge \/ Done
    \/ \E u \in User : \/ Label(u) \/ Unlabel(u) \/ Regrant(u)
                       \/ \E ok \in BOOLEAN : Submit(u, ok)
    \/ \E i \in DOMAIN reviews : Dismiss(i)
    \/ \E h \in Rev : Push(h)
Spec == Init /\ [][Next]_vars

-----------------------------------------------------------------------------
(* Properties.                                                             *)

TypeOK ==
    /\ head \in Rev /\ {merged, may, security, wrote, held, restored} \subseteq BOOLEAN
    /\ permitted \subseteq User /\ approver \in User \cup {NoUser}
    /\ pc \in {"pr", "events", "permission", "reviews", "tree", "gate", "resolve",
               "write", "record", "end", "failed"}
    /\ pass \in 1..2 /\ page \in 1..MaxPages /\ Len(got) <= PageSize * MaxPages
    /\ decision \in {"none", "active", "inactive"} /\ pc = "gate" => decision # "none"
    /\ before \in Counts /\ after \in Counts /\ changes \in 0..MaxChanges
    /\ cleared \cup rows \subseteq Identity \cup {SecurityRule}

(* An override is active only if all of its evidence held at one moment,   *)
(* unless part of it was taken back and given again meanwhile: two equal   *)
(* readings of each part, all first ones before all second ones.           *)
EvidenceCoexisted == Active /\ ~restored => held

(* It authorises the checkout the run applies: the reviewed head's files.  *)
AuthorisesTheCheckout ==
    wrote /\ Active => /\ checkout.input = TreeOf[pr.head].input
                       /\ checkout.source = TreeOf[pr.head].source /\ ~checkout.unknown

(* Nothing is written over a blocking finding no reviewer could see: at    *)
(* most as many equal findings after credential resolution as before it.   *)
NothingUnseenIsWritten ==
    wrote => /\ security => Active
             /\ \A i \in Identity : after[i] <= IF Active THEN before[i] ELSE 0

(* A completed run's ledger names every rule the override cleared.         *)
ClearedIsRecorded ==
    pc = "end" /\ wrote => rows = Blocked(before) \cup Blocked(after)
                                  \cup (IF security THEN {SecurityRule} ELSE {})

(* An override stands on evidence that held at one moment, for the checkout *)
(* the run applies; it covers no finding a reviewer could not see, and what *)
(* it cleared is on record.                                                 *)
OverrideIsEarned ==
    /\ TypeOK /\ EvidenceCoexisted /\ AuthorisesTheCheckout
    /\ NothingUnseenIsWritten /\ ClearedIsRecorded

=============================================================================
