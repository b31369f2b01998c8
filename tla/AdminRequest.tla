---------------------------- MODULE AdminRequest ----------------------------
(***************************************************************************)
(* One admin API call of AdminClient (http_client.rs): the bearer token    *)
(* taken for every attempt, the schedule of send_with_retry, and what the  *)
(* caller is told about the row the call was for.                          *)
(*                                                                         *)
(* The gateway is external.  It holds one row, as the number of the write  *)
(* that stored it (0: no row): the number is also the row's entity tag,    *)
(* and the number of writes so far the namespace's revision.  Between the  *)
(* client and the gateway stands whatever the deployment puts there: it    *)
(* may answer for the gateway before the write commits, after it, or while *)
(* it is under way.                                                        *)
(***************************************************************************)
EXTENDS Integers, FiniteSets

CONSTANTS
    RowKind,       \* "Proxy", "PluginConfig" or "Consumer"
    MaxAttempts,   \* max_retries + 1
    Life, Margin,  \* a token's lifetime, and what must be left of it
    Scope,         \* sets of namespaces an `ns` claim may name
    NoToken,
    MaxTime, MaxClockSets,      \* bounds on the clocks
    MaxVersion                  \* bound on the writes of a behaviour

ASSUME RequestAssumption ==
    /\ RowKind \in {"Proxy", "PluginConfig", "Consumer"}
    /\ MaxAttempts \in Nat \ {0} /\ Life \in Nat \ {0}
    /\ Margin \in 0..(Life \div 2) /\ MaxVersion \in Nat
    /\ MaxTime \in Nat /\ MaxClockSets \in Nat

VARIABLES
    mono, wall, clockSets,  \* the clocks of the process
    scope, cache,           \* jwt_options.namespaces, token_cache
    call, tag,              \* the call under way and the tag it carries
    phase, attempt, answeredBefore, bearer,
    answer, outcome,
    row, last,              \* the gateway's row, and the writes so far
    inFlight,               \* attempts the gateway may still execute
    commits, seen           \* ghosts: this call's commits, rows during it

clocks == <<mono, wall, clockSets>>
client == <<call, tag, phase, attempt, answeredBefore, bearer, answer, outcome>>
gateway == <<row, last, inFlight, commits, seen>>
vars == <<clocks, scope, cache, client, gateway>>

Call == {"Get", "Create", "Put", "Delete", "Restore"}
KindOf == [c \in Call |->
    CASE c = "Get" -> "Read" [] c = "Create" -> "NonIdempotentMutation"
      [] c = "Restore" -> "Restore" [] OTHER -> "Mutation"]

-----------------------------------------------------------------------------
(* Tokens.                                                                 *)

Token == [iat : 0..MaxTime, minted : 0..MaxTime, scope : Scope]

(* A token is reused only while both clocks allow it.                      *)
Reusable_WallOnly(t) ==   \* mutant: trusts the wall clock alone
    t.iat <= wall /\ wall < t.iat + Life - Margin
Reusable(t) ==
    /\ t.iat <= wall /\ wall < t.iat + Life - Margin
    /\ mono < t.minted + Life - Margin
TokenNow ==
    IF cache # NoToken /\ Reusable(cache)
      THEN cache ELSE [iat |-> wall, minted |-> mono, scope |-> scope]

-----------------------------------------------------------------------------
(* Answers: a status and the markers of the error envelope.                *)

Marker == {"malformed", "empty", "notLive", "connectivity", "incomplete",
           "rolledBack", "atRisk", "association", "readOnly", "notFound",
           "cached", "untagged"}
Reply(s, ms) == [status |-> s, marks |-> ms, version |-> 0]
NoAnswer == Reply(0, {})
Shown(s, ms, v) == [Reply(s, ms) EXCEPT !.version = v]
Unsure(s) == s \in {408, 429} \/ s \in 500..599
Success(s) == s \in 200..299

ClassifyRetry_AnyKind(r, kind) ==   \* mutant: creates are replayed
    /\ r.status # 501 /\ "notLive" \notin r.marks /\ Unsure(r.status)
    /\ kind # "Restore"
ClassifyRetry(r, kind) ==
    /\ r.status # 501 /\ "notLive" \notin r.marks
    /\ kind # "NonIdempotentMutation"
    /\ IF kind = "Restore"
         THEN r.status = 503 /\ r.marks = {"connectivity"}
         ELSE Unsure(r.status)
(* An envelope that cannot be parsed may hide any marker.                  *)
Retryable(r, kind) ==
    IF "malformed" \in r.marks
      THEN kind = "Read" /\ ClassifyRetry(Reply(r.status, {}), kind)
      ELSE ClassifyRetry(r, kind)

MapApiError(r, kind) ==
    LET m == r.marks IN
    IF r.status \in 300..399 THEN "Refused"
    ELSE IF r.status = 403 /\ "readOnly" \in m THEN "ReadOnly"
    ELSE IF kind # "Read" /\ "malformed" \in m /\ r.status # 403 THEN "Ambiguous"
    ELSE IF r.status = 409 /\ "atRisk" \in m THEN "AtRisk"
    ELSE IF kind = "Restore" /\ r.status = 500 /\ "incomplete" \in m THEN "ManualRecovery"
    ELSE IF "notLive" \in m THEN "NotLive"
    ELSE IF kind = "Restore" /\ Unsure(r.status)
            /\ ~(r.status = 503 /\ "connectivity" \in m)
            /\ "rolledBack" \notin m THEN "Ambiguous"
    ELSE IF Unsure(r.status) THEN "Unsure" ELSE "Refused"

(* `check`: a success that says the write is not live is no success, and   *)
(* one that cannot be read proves nothing.                                 *)
Check(r, kind) ==
    IF Success(r.status) /\ (kind = "Read" \/ r.marks \subseteq {"empty"})
      THEN "Done"
      ELSE IF Success(r.status) /\ "malformed" \in r.marks
        THEN "Ambiguous" ELSE MapApiError(r, kind)

(* A bare 403 is settled by GET /health, which may say read-only or fail.  *)
CheckMutation(r, kind) ==
    IF r.status = 403 /\ Check(r, kind) = "Refused"
      THEN {"Refused", "ReadOnly"} ELSE {Check(r, kind)}

(* get_tagged and get_consumer_verification: nothing is concluded from a   *)
(* cached answer, absence included.                                        *)
GetTagged(r) ==
    IF "cached" \in r.marks THEN "StaleView"
    ELSE IF r.status = 404 THEN
        IF RowKind # "Consumer" \/ r.marks = {"notFound"} THEN "Absent" ELSE "NoTag"
    ELSE IF RowKind = "Consumer" /\ r.status # 200 THEN "NoTag"
    ELSE IF ~Success(r.status) THEN MapApiError(r, "Read")
    ELSE IF r.marks = {} THEN "Row" ELSE "NoTag"

Refusal(r) ==
    IF RowKind = "PluginConfig" /\ "association" \in r.marks
      THEN "UnplannedReference"
      ELSE IF call = "Put" THEN "Precondition" ELSE "StalePlan"
DeleteOf404(r) ==
    IF RowKind = "Consumer"
      THEN IF r.marks = {"notFound"} THEN "Gone" ELSE "NoTag"
      ELSE IF "malformed" \in r.marks THEN "Ambiguous"
      ELSE IF "notLive" \in r.marks THEN "NotLive" ELSE "Gone"

PostRestore(r) ==
    IF r.status = 412 THEN {"StalePlan"}
    ELSE IF Success(r.status) /\ r.status # 200 /\ Check(r, "Restore") = "Done"
      THEN {"Ambiguous"} ELSE CheckMutation(r, "Restore")

Outcomes(r) ==
    CASE call = "Get" -> {GetTagged(r)}
      [] call = "Restore" -> PostRestore(r)
      [] call \in {"Put", "Delete"} /\ r.status = 412 -> {Refusal(r)}
      [] call = "Delete" /\ r.status = 404 -> {DeleteOf404(r)}
      [] OTHER -> CheckMutation(r, KindOf[call])

(* No HTTP answer: a restore may have replaced the namespace.              *)
TransportError == IF call = "Restore" THEN "Ambiguous" ELSE "Unsure"

-----------------------------------------------------------------------------
(* The client.                                                             *)

Init ==
    /\ mono = 0 /\ wall = 0 /\ clockSets = 0
    /\ scope \in Scope /\ cache = NoToken
    /\ call = "Get" /\ tag = 0 /\ phase = "idle" /\ attempt = 0
    /\ answeredBefore = FALSE /\ bearer = NoToken
    /\ answer = NoAnswer /\ outcome = "none"
    /\ row \in {0, 1} /\ last = 1 /\ inFlight = {} /\ commits = 0 /\ seen = {}

(* A call names the row and carries the tag read for it, a restore the     *)
(* namespace's revision.                                                   *)
Begin(c) ==
    /\ phase = "idle" /\ inFlight = {} /\ (c = "Get" \/ last < MaxVersion)
    /\ c \in {"Put", "Delete"} => row # 0
    /\ call' = c /\ tag' = (IF c = "Restore" THEN last ELSE row) /\ phase' = "send" /\ attempt' = 1
    /\ answeredBefore' = FALSE /\ outcome' = "none" /\ answer' = NoAnswer
    /\ commits' = 0 /\ seen' = {row}
    /\ UNCHANGED <<clocks, scope, cache, bearer, row, last, inFlight>>

SetNamespaceScope ==
    /\ phase = "idle"
    /\ scope' \in Scope \ {scope} /\ cache' = NoToken
    /\ UNCHANGED <<clocks, client, gateway>>

Send ==
    /\ phase = "send"
    /\ bearer' = TokenNow /\ cache' = TokenNow /\ phase' = "sent"
    /\ UNCHANGED <<clocks, scope, call, tag, attempt, answeredBefore, answer,
                   outcome, gateway>>

Finish(o) == phase' = "idle" /\ outcome' = o /\ UNCHANGED <<attempt, answeredBefore>>
AttemptsLeft == attempt < MaxAttempts
Again == phase' = "send" /\ attempt' = attempt + 1 /\ UNCHANGED outcome
(* The gateway saw this attempt, and may have committed it.                *)
Retry_Unmarked ==   \* mutant: the answer is forgotten
    Again /\ UNCHANGED answeredBefore
Retry == Again /\ answeredBefore' = TRUE

Received ==
    /\ phase = "answered" /\ answer # NoAnswer
    /\ IF ~Success(answer.status) /\ Retryable(answer, KindOf[call])
          /\ AttemptsLeft
         THEN Retry
         ELSE \E o \in Outcomes(answer) : Finish(o)
    /\ UNCHANGED <<clocks, scope, cache, call, tag, bearer, answer, gateway>>

NotConnected ==
    /\ phase = "sent"
    /\ IF AttemptsLeft
         THEN Again /\ UNCHANGED answeredBefore ELSE Finish(TransportError)
    /\ UNCHANGED <<clocks, scope, cache, call, tag, bearer, answer, gateway>>

Unanswered ==
    /\ phase = "answered" /\ answer = NoAnswer
    /\ Finish(TransportError)
    /\ UNCHANGED <<clocks, scope, cache, call, tag, bearer, answer, gateway>>

-----------------------------------------------------------------------------
(* The gateway and what stands before it.                                  *)

Answer(r) == phase = "sent" /\ phase' = "answered" /\ answer' = r

Stores == CASE call = "Restore" -> last = tag
            [] call = "Create" -> row = 0
            [] OTHER -> row = tag
Execute ==
    /\ last' = last + 1
    /\ row' = IF call = "Delete" THEN 0 ELSE last'
    /\ commits' = commits + 1 /\ seen' = seen \cup {row'}

CommitReplies ==
    {Reply(200, {}), Reply(200, {"notLive"}), Reply(200, {"malformed"}),
     Reply(204, {"empty"}), Reply(503, {"notLive"}), Reply(503, {}),
     Reply(504, {"malformed"}), NoAnswer}
    \cup (IF call = "Restore" THEN {Reply(500, {"incomplete"}), Reply(202, {})} ELSE {})

(* Executed, and answered by the gateway, by something else or not at all. *)
Commit ==
    /\ call # "Get" /\ Stores /\ Execute
    /\ \E r \in CommitReplies : Answer(r)
    /\ UNCHANGED <<clocks, scope, cache, call, tag, attempt, answeredBefore,
                   bearer, outcome, inFlight>>

RefusalReplies ==
    {Reply(301, {}), Reply(403, {}), Reply(403, {"malformed"}),
     Reply(403, {"readOnly"}), Reply(413, {}), Reply(429, {}), Reply(501, {}),
     Reply(503, {})}
    \cup (IF Stores THEN {}
          ELSE IF call = "Create" THEN {Reply(409, {})}
          ELSE IF call # "Restore" /\ row = 0 THEN {Reply(404, {"notFound"})}
          ELSE {Reply(412, {}), Reply(412, {"malformed"})})
    \cup (IF call \in {"Put", "Delete"} /\ row # 0 THEN {Reply(412, {"association"})} ELSE {})
    \cup (IF RowKind = "Consumer" THEN {Reply(404, {}), Reply(404, {"malformed"})} ELSE {})
    \cup (IF call = "Restore"
            THEN {Reply(409, {"atRisk"}), Reply(503, {"connectivity"}),
                  Reply(500, {"rolledBack"})} ELSE {})
Refuse ==
    /\ call # "Get"
    /\ \E r \in RefusalReplies : Answer(r)
    /\ UNCHANGED <<clocks, scope, cache, call, tag, attempt, answeredBefore,
                   bearer, outcome, gateway>>

(* Answered or abandoned while the gateway still works on it.              *)
ParkReplies == {Reply(504, {}), Reply(408, {}), Reply(504, {"malformed"}), NoAnswer}
Park ==
    /\ call # "Get"
    /\ \E r \in ParkReplies : Answer(r)
    /\ inFlight' = inFlight \cup {attempt}
    /\ UNCHANGED <<clocks, scope, cache, call, tag, attempt, answeredBefore,
                   bearer, outcome, row, last, commits, seen>>
Late ==
    /\ inFlight # {}
    /\ \E n \in inFlight : inFlight' = inFlight \ {n}
    /\ (Stores /\ Execute) \/ UNCHANGED <<row, last, commits, seen>>
    /\ UNCHANGED <<clocks, scope, cache, client>>

(* A read is served from the database or, while it is away, from memory;   *)
(* a copy in memory may predate any number of writes.                      *)
ReadReplies ==
    LET of(v, ms) == IF v = 0 THEN Reply(404, {"notFound"} \cup ms) ELSE Shown(200, ms, v)
    IN  {of(row, {}), Reply(503, {}), Reply(502, {"malformed"}), NoAnswer}
        \cup {of(v, {"cached"}) : v \in 0..last}
        \cup (IF row = 0 THEN {} ELSE {of(row, {"untagged"})})
        \cup (IF RowKind = "Consumer" THEN {Reply(404, {}), Reply(404, {"malformed"})} ELSE {})
Read ==
    /\ call = "Get"
    /\ \E r \in ReadReplies : Answer(r)
    /\ UNCHANGED <<clocks, scope, cache, call, tag, attempt, answeredBefore,
                   bearer, outcome, gateway>>

Edit ==
    /\ last < MaxVersion
    /\ row' \in {last + 1} \cup (IF row = 0 THEN {} ELSE {0}) /\ last' = last + 1
    /\ seen' = seen \cup {row'}
    /\ UNCHANGED <<clocks, scope, cache, client, inFlight, commits>>

Tick ==
    /\ mono < MaxTime /\ wall < MaxTime
    /\ mono' = mono + 1 /\ wall' = wall + 1
    /\ UNCHANGED <<clockSets, scope, cache, client, gateway>>
SetClock ==
    /\ clockSets < MaxClockSets /\ clockSets' = clockSets + 1
    /\ wall' \in (0..MaxTime) \ {wall}
    /\ UNCHANGED <<mono, scope, cache, client, gateway>>

Next ==
    \/ \E c \in Call : Begin(c)
    \/ SetNamespaceScope \/ Send \/ Received \/ NotConnected \/ Unanswered
    \/ Commit \/ Refuse \/ Park \/ Late \/ Read
    \/ Edit \/ Tick \/ SetClock

Spec == Init /\ [][Next]_vars

-----------------------------------------------------------------------------
(* Properties.                                                             *)

Outcome == {"none", "Done", "Gone", "Row", "Absent", "NoTag", "StaleView",
            "Precondition", "StalePlan", "UnplannedReference", "ReadOnly",
            "Refused", "AtRisk", "NotLive", "ManualRecovery", "Ambiguous", "Unsure"}
TypeOK ==
    /\ mono \in 0..MaxTime /\ wall \in 0..MaxTime /\ clockSets \in 0..MaxClockSets
    /\ scope \in Scope /\ {cache, bearer} \subseteq Token \cup {NoToken}
    /\ call \in Call /\ tag \in 0..last /\ phase \in {"idle", "send", "sent", "answered"}
    /\ attempt \in 0..MaxAttempts /\ answeredBefore \in BOOLEAN
    /\ outcome \in Outcome /\ answer.marks \subseteq Marker
    /\ row \in 0..last /\ last \in Nat /\ inFlight \subseteq 1..MaxAttempts
    /\ commits \in Nat /\ seen \subseteq 0..last

(* No call, however often it is retried and whatever stays in flight,      *)
(* takes effect twice.                                                     *)
AtMostOnce == commits <= 1

(* When a create or a restore is reported as refused, nothing of it was    *)
(* stored and nothing of it can still arrive: the caller neither journals  *)
(* nor reads back after these.                                             *)
RefusalsAreClean ==
    /\ phase = "idle" /\ call \in {"Create", "Restore"}
    /\ outcome \in {"Refused", "ReadOnly", "AtRisk", "StalePlan"}
    => commits = 0 /\ inFlight = {}

(* A 412 on a PUT that was not retried proves that this call wrote         *)
(* nothing (update_if_match): only one marked after_retry may have met its *)
(* own commit.                                                             *)
FirstRefusalIsForeign ==
    phase = "idle" /\ outcome = "Precondition" /\ ~answeredBefore
    => commits = 0 /\ inFlight = {}

(* A successful write is committed and not reported as waiting for a       *)
(* reload; a delete answered as gone leaves no row with the tag it held.   *)
SuccessIsReal ==
    /\ phase = "idle" /\ outcome = "Done" =>
         /\ call # "Get" => commits = 1
         /\ "notLive" \notin answer.marks
    /\ phase = "idle" /\ outcome = "Gone" => row # tag

(* A read that concludes something, absence included, concludes what the   *)
(* configuration database held at some moment of the call.                 *)
EvidenceIsStored ==
    /\ phase = "idle" /\ outcome = "Absent" => 0 \in seen
    /\ phase = "idle" /\ outcome = "Row" => answer.version \in seen

(* What a call reports is so: a refusal wrote nothing and nothing of it is *)
(* on its way, a success is stored, and what a read concludes was in the   *)
(* database at some moment of the call.                                    *)
ReportsAreTrue ==
    RefusalsAreClean /\ FirstRefusalIsForeign /\ SuccessIsReal /\ EvidenceIsStored

(* Every attempt carries a token with more than the margin of its life     *)
(* left, counted in elapsed time: neither a retry's delay nor a clock set  *)
(* back in between keeps an old one in use.                                *)
TokensAreFresh ==
    [][Send => mono - bearer'.minted < Life - Margin /\ bearer'.iat <= wall]_vars

(* And one minted for the namespaces the client is scoped to now.          *)
ScopeIsCurrent == [][Send => bearer'.scope = scope]_vars

(* Every attempt carries a token of the namespaces the client is scoped to *)
(* now, with more than the margin of its life left in elapsed time.        *)
TokensAreCurrent == TokensAreFresh /\ ScopeIsCurrent

=============================================================================
