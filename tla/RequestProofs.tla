---------------------------- MODULE RequestProofs ----------------------------
(***************************************************************************)
(* Proofs about the requests the tool sends.  Of an admin call: none takes *)
(* effect twice, what a call reports is so, and every attempt carries a    *)
(* current token (send_with_retry, classify_retry and token_at,            *)
(* src/http_client.rs).  Of the smoke checks: what they spend, repeat and  *)
(* prove (src/verify).  Of a listing: it is whole, though its pages move   *)
(* (list_namespaces).  Of bulk creates: how they are cut into bodies, and  *)
(* that each row is accounted for (split_batch, src/http_client.rs;        *)
(* try_batch_create, apply/api_target.rs).                                 *)
(***************************************************************************)
EXTENDS AdminRequest, Sequences, FiniteSetTheorems, NaturalsInduction, TLAPS

AnswerOf(n) == [status : Nat, marks : SUBSET Marker, version : 0..n]
RequestType ==
    TypeOK /\ answer \in AnswerOf(last) /\ (phase # "idle" => attempt # 0)

(* The call under way may have taken effect, or may still do so.           *)
Exposed == commits # 0 \/ inFlight # {}

(* What the client is told of an attempt the gateway executed or still     *)
(* holds: a success, or an answer that leaves it open.                     *)
OpenReplies ==
    {NoAnswer, Reply(200, {}), Reply(200, {"notLive"}), Reply(200, {"malformed"}),
     Reply(202, {}), Reply(204, {"empty"}), Reply(408, {}),
     Reply(500, {"incomplete"}), Reply(503, {}), Reply(503, {"notLive"}),
     Reply(504, {}), Reply(504, {"malformed"})}
CleanOutcomes == {"Refused", "ReadOnly", "AtRisk", "StalePlan", "Precondition"}

(* A create is not sent again once it was answered, a restore only after   *)
(* an answer that proves it was not executed: at most one attempt of       *)
(* either was ever the gateway's to execute.  So it is with a call that    *)
(* was not answered before.                                                *)
SentOnce == call \in {"Create", "Restore"} \/ ~answeredBefore
OneAttempt ==
    /\ phase \in {"send", "sent"} => ~Exposed
    /\ phase = "answered" /\ Exposed => answer \in OpenReplies
    /\ phase = "idle" /\ Exposed => outcome \notin CleanOutcomes
    /\ inFlight \subseteq {attempt} /\ commits \in {0, 1}
    /\ commits # 0 => inFlight = {}
SentOnceInv == SentOnce => OneAttempt

(* A conditional write is sent as often as the schedule allows, but the    *)
(* row loses the tag it carries with its first commit, for good.           *)
TagInv ==
    /\ call = "Get" => ~Exposed
    /\ call \in {"Put", "Delete"} =>
          tag # 0 /\ commits \in {0, 1} /\ (commits # 0 => row # tag)

(* A success answers a commit, a 404 that is believed a missing row.       *)
ReportInv ==
    /\ phase = "answered" /\ call # "Get" =>
         /\ Success(answer.status) => commits # 0
         /\ call = "Delete" /\ answer.status = 404 =>
              \/ RowKind = "Consumer" /\ answer.marks # {"notFound"}
              \/ answer.marks = {"notFound"} /\ row # tag
    /\ phase = "idle" /\ outcome = "Done" =>
          call # "Get" /\ commits # 0 /\ answer.marks \subseteq {"empty"}
    /\ phase = "idle" /\ outcome = "Gone" => call = "Delete" /\ row # tag

(* What a read may be concluded from was stored at some moment of it.      *)
Settles(o, r) == (o = "Absent" => 0 \in seen) /\ (o = "Row" => r.version \in seen)
ReadInv ==
    /\ phase # "idle" => row \in seen
    /\ phase = "answered" /\ call = "Get" => Settles(GetTagged(answer), answer)
    /\ phase = "idle" => Settles(outcome, answer)

CacheInv == cache # NoToken => cache.scope = scope

RequestInv ==
    RequestType /\ SentOnceInv /\ TagInv /\ ReportInv
    /\ ReadInv /\ CacheInv

-----------------------------------------------------------------------------
(* How answers are read.                                                   *)

(* The kinds of the calls (update_if_match and its siblings).              *)
LEMMA Kinds ==
    /\ KindOf["Get"] = "Read" /\ KindOf["Create"] = "NonIdempotentMutation"
    /\ KindOf["Restore"] = "Restore" /\ KindOf["Put"] = "Mutation"
    /\ KindOf["Delete"] = "Mutation"
BY DEF KindOf, Call

(* An answer to a call of any kind maps to a report of that kind.          *)
LEMMA ChecksTo ==
    ASSUME NEW r \in AnswerOf(last), NEW kind
    PROVE  /\ MapApiError(r, kind) \in Outcome \ {"Done", "Gone", "Row", "Absent",
                 "Precondition", "StalePlan", "none"}
           /\ Check(r, kind) \in Outcome \ {"Gone", "Row", "Absent",
                 "Precondition", "StalePlan", "none"}
           /\ CheckMutation(r, kind) \subseteq {Check(r, kind), "Refused", "ReadOnly"}
<1>1. MapApiError(r, kind) \in Outcome \ {"Done", "Gone", "Row", "Absent",
                 "Precondition", "StalePlan", "none"}
  BY DEF MapApiError, Outcome
<1>2. Check(r, kind) \in Outcome \ {"Gone", "Row", "Absent",
                 "Precondition", "StalePlan", "none"}
  BY <1>1 DEF Check, Outcome
<1> QED
  BY <1>1, <1>2 DEF CheckMutation

LEMMA OutcomesAreOutcomes ==
    ASSUME RequestType, NEW r \in AnswerOf(last)
    PROVE  Outcomes(r) \subseteq Outcome
<1>1. GetTagged(r) \in Outcome
  BY ChecksTo DEF GetTagged, Outcome
<1>2. PostRestore(r) \subseteq Outcome
  BY ChecksTo DEF PostRestore, Outcome
<1>3. Refusal(r) \in Outcome /\ DeleteOf404(r) \in Outcome
  BY DEF Refusal, DeleteOf404, Outcome
<1>4. CheckMutation(r, KindOf[call]) \subseteq Outcome
  BY ChecksTo DEF Outcome
<1> QED
  BY <1>1, <1>2, <1>3, <1>4 DEF Outcomes

(* An open answer never reads as a refusal, and neither a create nor a     *)
(* restore is sent again after it.                                         *)
LEMMA OpenStaysOpen ==
    ASSUME call \in Call \ {"Get"}, NEW r \in OpenReplies \ {NoAnswer}
    PROVE  /\ Outcomes(r) \cap CleanOutcomes = {}
           /\ call \in {"Create", "Restore"} => ~Retryable(r, KindOf[call])
<1>1. /\ r.status \in {200, 202, 204, 408, 500, 503, 504}
      /\ r.marks \in {{}, {"notLive"}, {"malformed"}, {"empty"}, {"incomplete"}}
      /\ r.status \in {202, 408} => r.marks = {}
      /\ r.status = 500 <=> r.marks = {"incomplete"}
  BY DEF OpenReplies, Reply, NoAnswer
<1>2. ASSUME NEW kind \in {"NonIdempotentMutation", "Mutation", "Restore"}
      PROVE  Check(r, kind) \notin CleanOutcomes
  <2>1. MapApiError(r, kind) \notin CleanOutcomes \/ Success(r.status)
    <3>1. ~(r.status \in 300..399) /\ r.status # 403 /\ r.status # 409
      BY <1>1
    <3>2. Success(r.status) \/ Unsure(r.status)
      BY <1>1 DEF Unsure, Success
    <3>3. Unsure(r.status) => MapApiError(r, kind) \in
              {"Ambiguous", "ManualRecovery", "NotLive", "Unsure"}
      BY <3>1 DEF MapApiError
    <3> QED
      BY <3>2, <3>3 DEF CleanOutcomes
  <2>2. Success(r.status) =>
           \/ r.marks \subseteq {"empty"} \/ "malformed" \in r.marks
           \/ MapApiError(r, kind) = "NotLive"
    BY <1>1 DEF MapApiError, Unsure, Success
  <2> QED
    BY <2>1, <2>2 DEF Check, CleanOutcomes
<1>3. KindOf[call] \in {"NonIdempotentMutation", "Mutation", "Restore"}
  BY Kinds DEF Call
<1>4. CheckMutation(r, KindOf[call]) = {Check(r, KindOf[call])}
  BY <1>1 DEF CheckMutation
<1>5. Outcomes(r) \cap CleanOutcomes = {}
  <2>1. PostRestore(r) \cap CleanOutcomes = {}
    BY <1>1, <1>2, Kinds DEF PostRestore, CheckMutation, CleanOutcomes
  <2> QED
    BY <1>1, <1>2, <1>3, <1>4, <2>1 DEF Outcomes, Call
<1>6. call = "Create" => ~Retryable(r, KindOf[call])
  BY Kinds DEF Retryable, ClassifyRetry
<1>7. call = "Restore" => ~Retryable(r, KindOf[call])
  <2>1. "connectivity" \notin r.marks
    BY <1>1
  <2>2. ~ClassifyRetry(r, "Restore")
    BY <2>1 DEF ClassifyRetry
  <2> QED
    BY <2>2, Kinds DEF Retryable
<1> QED
  BY <1>5, <1>6, <1>7

(* What the reports that conclude something are concluded from.            *)
LEMMA Concludes ==
    ASSUME call \in Call, NEW r \in AnswerOf(last), NEW o \in Outcomes(r)
    PROVE  /\ o = "Done" => call # "Get" /\ Success(r.status) /\ r.marks \subseteq {"empty"}
           /\ o = "Gone" => /\ call = "Delete" /\ r.status = 404
                            /\ RowKind = "Consumer" => r.marks = {"notFound"}
           /\ o \in {"Row", "Absent"} => call = "Get" /\ o = GetTagged(r)
           /\ o # "none"
<1>1. ASSUME NEW kind
      PROVE  Check(r, kind) = "Done" =>
                Success(r.status) /\ (kind = "Read" \/ r.marks \subseteq {"empty"})
  BY ChecksTo DEF Check
<1>2. CASE call = "Get"
  <2>1. o = GetTagged(r)
    BY <1>2 DEF Outcomes
  <2>2. GetTagged(r) \notin {"Done", "Gone", "none"}
    BY ChecksTo DEF GetTagged
  <2> QED
    BY <1>2, <2>1, <2>2
<1>3. CASE call = "Restore"
  <2>1. o \in PostRestore(r)
    BY <1>3 DEF Outcomes
  <2>2. o \in {"StalePlan", "Ambiguous", "Refused", "ReadOnly", Check(r, "Restore")}
    BY <2>1, ChecksTo DEF PostRestore
  <2> QED
    BY <1>1, <1>3, <2>2, ChecksTo
<1>4. CASE call \in {"Put", "Delete", "Create"}
  <2>1. \/ call = "Delete" /\ r.status = 404 /\ o = DeleteOf404(r)
        \/ o = Refusal(r)
        \/ o \in {"Refused", "ReadOnly", Check(r, KindOf[call])}
    BY <1>4, ChecksTo DEF Outcomes
  <2>2. KindOf[call] # "Read"
    BY <1>4, Kinds
  <2>3. Refusal(r) \notin {"Done", "Gone", "Row", "Absent", "none"}
    BY DEF Refusal
  <2>4. /\ DeleteOf404(r) \notin {"Done", "Row", "Absent", "none"}
        /\ DeleteOf404(r) = "Gone" => (RowKind = "Consumer" => r.marks = {"notFound"})
    BY DEF DeleteOf404
  <2> QED
    BY <1>1, <1>4, <2>1, <2>2, <2>3, <2>4, ChecksTo
<1> QED
  BY <1>2, <1>3, <1>4 DEF Call

(* Replies are answers.                                                    *)
LEMMA ReplyType ==
    ASSUME NEW s \in Nat, NEW ms \in SUBSET Marker, NEW n \in Nat
    PROVE  /\ Reply(s, ms) \in AnswerOf(n)
           /\ Reply(s, ms).status = s /\ Reply(s, ms).marks = ms
           /\ \A v \in 0..n : /\ Shown(s, ms, v) \in AnswerOf(n)
                              /\ Shown(s, ms, v) = [status |-> s, marks |-> ms, version |-> v]
BY DEF Reply, AnswerOf, Shown

LEMMA CommitRepliesAreOpen ==
    /\ CommitReplies \subseteq OpenReplies /\ ParkReplies \subseteq OpenReplies
    /\ \A r \in ParkReplies : ~Success(r.status) /\ r.status # 404
    /\ \A r \in OpenReplies : r.status # 404
    /\ \A n \in Nat : OpenReplies \subseteq AnswerOf(n)
<1>1. CommitReplies \subseteq OpenReplies /\ ParkReplies \subseteq OpenReplies
  BY DEF CommitReplies, ParkReplies, OpenReplies
<1>2. \A r \in ParkReplies : ~Success(r.status) /\ r.status # 404
  BY DEF ParkReplies, Success, Reply, NoAnswer
<1>3. \A r \in OpenReplies : r.status # 404
  BY DEF OpenReplies, Reply, NoAnswer
<1>4. ASSUME NEW n \in Nat PROVE OpenReplies \subseteq AnswerOf(n)
  <2>1. SUFFICES ASSUME NEW r \in OpenReplies PROVE r \in AnswerOf(n)
    OBVIOUS
  <2>2. PICK s \in {0, 200, 202, 204, 408, 500, 503, 504},
             ms \in {{}, {"notLive"}, {"malformed"}, {"empty"}, {"incomplete"}} :
           r = Reply(s, ms)
    BY DEF OpenReplies, NoAnswer
  <2>3. s \in Nat /\ ms \in SUBSET Marker
    BY DEF Marker
  <2> QED
    BY <2>2, <2>3, ReplyType
<1> QED
  BY <1>1, <1>2, <1>3, <1>4

(* A refusal is no success, and a 404 of one about a row that is gone      *)
(* comes from the gateway unless something before it answers for Consumers. *)
LEMMA Refusals ==
    ASSUME NEW r \in RefusalReplies, NEW n \in Nat
    PROVE  /\ r \in AnswerOf(n) /\ ~Success(r.status) /\ r # NoAnswer
           /\ r.status = 404 =>
                 \/ RowKind = "Consumer" /\ r.marks # {"notFound"}
                 \/ r.marks = {"notFound"} /\ row = 0
<1>1. PICK s \in {301, 403, 413, 429, 501, 503, 409, 404, 412, 500},
           ms \in {{}, {"malformed"}, {"readOnly"}, {"notFound"}, {"association"},
                   {"atRisk"}, {"connectivity"}, {"rolledBack"}} :
         /\ r = Reply(s, ms)
         /\ s = 404 => \/ RowKind = "Consumer" /\ ms \in {{}, {"malformed"}}
                       \/ ms = {"notFound"} /\ row = 0
  BY DEF RefusalReplies
<1>2. s \in Nat /\ ms \in SUBSET Marker /\ ~Success(s) /\ s # 0
  BY DEF Success, Marker
<1>3. Reply(s, ms).status = s /\ Reply(s, ms).marks = ms /\ Reply(s, ms) \in AnswerOf(n)
  BY <1>2, ReplyType
<1> QED
  BY <1>1, <1>2, <1>3 DEF NoAnswer, Reply

-----------------------------------------------------------------------------
(* The invariant.                                                          *)

LEMMA InitRequest == Init => RequestInv
<1> SUFFICES ASSUME Init PROVE RequestInv
  OBVIOUS
<1> USE RequestAssumption DEF Init
<1>1. answer \in AnswerOf(last)
  BY DEF NoAnswer, Reply, AnswerOf, Marker
<1>2. RequestType
  <2>1. answer.marks \subseteq Marker
    BY <1>1 DEF AnswerOf
  <2>2. /\ mono \in 0..MaxTime /\ wall \in 0..MaxTime /\ clockSets \in 0..MaxClockSets
        /\ attempt \in 0..MaxAttempts /\ tag \in 0..last /\ row \in 0..last
    OBVIOUS
  <2>3. call \in Call /\ outcome \in Outcome
    BY DEF Call, Outcome
  <2> QED
    BY <1>1, <2>1, <2>2, <2>3 DEF RequestType, TypeOK
<1>3. SentOnceInv
  BY DEF SentOnceInv, OneAttempt, Exposed, CleanOutcomes
<1>4. TagInv /\ ReportInv /\ ReadInv /\ CacheInv
  BY DEF TagInv, ReportInv, ReadInv, Settles, CacheInv, Exposed
<1> QED
  BY <1>2, <1>3, <1>4 DEF RequestInv

LEMMA BeginKeeps ==
    ASSUME RequestInv, NEW c \in Call, Begin(c)
    PROVE  RequestInv'
<1> USE DEF RequestInv, RequestType, Begin, clocks
<1>1. (answer \in AnswerOf(last))'
  BY DEF NoAnswer, Reply, AnswerOf, Marker, TypeOK
<1>2. RequestType'
  <2>1. (answer.marks \subseteq Marker)'
    BY <1>1 DEF AnswerOf
  <2>2. attempt' \in 0..MaxAttempts /\ attempt' # 0
    BY RequestAssumption
  <2>3. tag' \in 0..last' /\ seen' \subseteq 0..last' /\ outcome' \in Outcome
    BY DEF TypeOK, Outcome
  <2>4. inFlight' \subseteq 1..MaxAttempts /\ commits' \in Nat
    BY DEF TypeOK
  <2> QED
    <3>1. TypeOK'
      BY <2>1, <2>2, <2>3, <2>4 DEF TypeOK
    <3> QED
      BY <1>1, <2>2, <3>1
<1>3. SentOnceInv' /\ TagInv' /\ ReportInv'
  BY DEF SentOnceInv, OneAttempt, Exposed, TagInv, ReportInv
<1>4. ReadInv' /\ CacheInv'
  BY DEF ReadInv, CacheInv
<1> QED
  BY <1>2, <1>3, <1>4

(* A token is minted for the scope of the moment.                          *)
LEMMA TokenNowType ==
    ASSUME RequestInv
    PROVE  TokenNow \in Token \cup {NoToken} /\ TokenNow.scope = scope
<1>1. CASE cache # NoToken /\ Reusable(cache)
  BY <1>1 DEF RequestInv, RequestType, TypeOK, CacheInv, TokenNow
<1>2. CASE ~(cache # NoToken /\ Reusable(cache))
  BY <1>2 DEF RequestInv, RequestType, TypeOK, Token, TokenNow
<1> QED
  BY <1>1, <1>2

(* Nothing but clocks, scope and token changes.                            *)
LEMMA CallUntouched ==
    ASSUME RequestInv, UNCHANGED <<client, gateway>>
    PROVE  (SentOnceInv /\ TagInv /\ ReportInv /\ ReadInv)'
<1> USE DEF RequestInv, client, gateway
<1>1. SentOnceInv'
  BY DEF SentOnceInv, SentOnce, OneAttempt, Exposed
<1>2. TagInv' /\ ReportInv'
  BY DEF TagInv, ReportInv, Exposed
<1>3. ReadInv'
  <2>1. GetTagged(answer)' = GetTagged(answer)
    BY DEF GetTagged, MapApiError
  <2> QED
    BY <2>1 DEF ReadInv, Settles
<1> QED
  BY <1>1, <1>2, <1>3

LEMMA ClocksKeep ==
    ASSUME RequestInv, SetNamespaceScope \/ Tick \/ SetClock
    PROVE  RequestInv'
<1>1. UNCHANGED <<client, gateway>>
  BY DEF SetNamespaceScope, Tick, SetClock
<1>2. RequestType'
  <2> USE DEF client, gateway, RequestInv, RequestType, AnswerOf, TypeOK
  <2>1. CASE SetNamespaceScope
    BY <2>1 DEF SetNamespaceScope, clocks
  <2>2. CASE Tick
    BY <2>2, RequestAssumption DEF Tick
  <2>3. CASE SetClock
    BY <2>3, RequestAssumption DEF SetClock
  <2> QED
    BY <2>1, <2>2, <2>3
<1>3. CacheInv'
  BY DEF SetNamespaceScope, Tick, SetClock, CacheInv, RequestInv
<1> QED
  BY <1>1, <1>2, <1>3, CallUntouched DEF RequestInv

LEMMA SendKeeps ==
    ASSUME RequestInv, Send
    PROVE  RequestInv'
<1> USE DEF RequestInv, Send, clocks, gateway
<1>1. RequestType'
  BY TokenNowType DEF RequestType, TypeOK, AnswerOf
<1>2. SentOnceInv' /\ TagInv'
  BY DEF SentOnceInv, SentOnce, OneAttempt, Exposed, TagInv
<1>3. ReportInv' /\ ReadInv' /\ CacheInv'
  BY TokenNowType DEF ReportInv, ReadInv, CacheInv
<1> QED
  BY <1>1, <1>2, <1>3

(* send_with_retry reads an answer: the call is sent again or is over.     *)
LEMMA ReceivedKeeps ==
    ASSUME RequestInv, Received
    PROVE  RequestInv'
<1> USE DEF RequestInv, Received, clocks, gateway
<1>r. answer \in AnswerOf(last) /\ call \in Call /\ attempt \in 0..MaxAttempts
  BY DEF RequestType, TypeOK
<1>1. CASE Retryable(answer, KindOf[call]) /\ AttemptsLeft /\ Retry
  <2> USE <1>1 DEF Retry, Again
  <2>1. RequestType'
    <3>1. attempt' \in 0..MaxAttempts
      BY RequestAssumption, <1>r DEF AttemptsLeft
    <3> QED
      BY <3>1 DEF RequestType, TypeOK, AnswerOf
  <2>2. SentOnceInv'
    <3>1. SUFFICES ASSUME call \in {"Create", "Restore"}
                   PROVE  OneAttempt'
      BY DEF SentOnceInv, SentOnce
    <3>2. OneAttempt
      BY <3>1 DEF SentOnceInv, SentOnce
    <3>3. ~Exposed
      BY <1>r, <3>1, <3>2, OpenStaysOpen DEF OneAttempt
    <3> QED
      BY <3>2, <3>3 DEF OneAttempt, Exposed
  <2>3. TagInv' /\ ReportInv' /\ ReadInv' /\ CacheInv'
    BY DEF TagInv, Exposed, ReportInv, ReadInv, CacheInv
  <2> QED
    BY <2>1, <2>2, <2>3
<1>2. ASSUME NEW o \in Outcomes(answer), Finish(o)
      PROVE  RequestInv'
  <2> USE <1>2 DEF Finish
  <2>1. RequestType'
    <3>1. outcome' \in Outcome
      BY <1>r, OutcomesAreOutcomes
    <3> QED
      BY <3>1 DEF RequestType, TypeOK, AnswerOf
  <2>2. SentOnceInv'
    <3>1. SUFFICES ASSUME SentOnce PROVE OneAttempt'
      BY DEF SentOnceInv, SentOnce
    <3>2. OneAttempt
      BY <3>1 DEF SentOnceInv
    <3>3. Exposed => o \notin CleanOutcomes
      BY <1>r, <3>2, OpenStaysOpen DEF OneAttempt, TagInv
    <3> QED
      BY <3>2, <3>3 DEF OneAttempt, Exposed
  <2>3. TagInv' /\ CacheInv'
    BY DEF TagInv, Exposed, CacheInv
  <2>4. ReportInv'
    BY <1>r, Concludes DEF ReportInv
  <2>5. ReadInv'
    BY <1>r, Concludes DEF ReadInv, Settles
  <2> QED
    BY <2>1, <2>2, <2>3, <2>4, <2>5
<1> QED
  BY <1>1, <1>2

(* No connection: the attempt never reached the gateway.                   *)
LEMMA NotConnectedKeeps ==
    ASSUME RequestInv, NotConnected
    PROVE  RequestInv'
<1> USE DEF RequestInv, NotConnected, clocks, gateway
<1>r. attempt \in 0..MaxAttempts
  BY DEF RequestType, TypeOK
<1>1. CASE AttemptsLeft /\ Again /\ UNCHANGED answeredBefore
  <2> USE <1>1 DEF Again
  <2>1. RequestType'
    <3>1. attempt' \in 0..MaxAttempts
      BY RequestAssumption, <1>r DEF AttemptsLeft
    <3> QED
      BY <3>1 DEF RequestType, TypeOK, AnswerOf
  <2>2. SentOnceInv'
    BY DEF SentOnceInv, SentOnce, OneAttempt, Exposed
  <2>3. TagInv' /\ ReportInv' /\ ReadInv' /\ CacheInv'
    BY DEF TagInv, Exposed, ReportInv, ReadInv, CacheInv
  <2> QED
    BY <2>1, <2>2, <2>3
<1>2. CASE Finish(TransportError)
  <2> USE <1>2 DEF Finish
  <2>o. TransportError \in {"Ambiguous", "Unsure"}
    BY DEF TransportError
  <2>1. RequestType'
    BY <2>o DEF RequestType, TypeOK, AnswerOf, Outcome
  <2>2. SentOnceInv'
    BY DEF SentOnceInv, SentOnce, OneAttempt, Exposed
  <2>3. TagInv' /\ CacheInv'
    BY DEF TagInv, Exposed, CacheInv
  <2>4. ReportInv' /\ ReadInv'
    BY <2>o DEF ReportInv, ReadInv, Settles
  <2> QED
    BY <2>1, <2>2, <2>3, <2>4
<1> QED
  BY <1>1, <1>2

(* No answer: nothing is concluded.                                        *)
LEMMA UnansweredKeeps ==
    ASSUME RequestInv, Unanswered
    PROVE  RequestInv'
<1> USE DEF RequestInv, Unanswered, Finish, clocks, gateway
<1>o. TransportError \in {"Ambiguous", "Unsure"}
  BY DEF TransportError
<1>1. RequestType'
  BY <1>o DEF RequestType, TypeOK, AnswerOf, Outcome
<1>2. SentOnceInv'
  BY <1>o DEF SentOnceInv, SentOnce, OneAttempt, Exposed, CleanOutcomes
<1>3. TagInv' /\ CacheInv'
  BY DEF TagInv, Exposed, CacheInv
<1>4. ReportInv' /\ ReadInv'
  BY <1>o DEF ReportInv, ReadInv, Settles
<1> QED
  BY <1>1, <1>2, <1>3, <1>4

(* A write the gateway commits: it takes the row's tag with it.            *)
LEMMA ExecuteTakesTag ==
    ASSUME RequestInv, call # "Get", Stores, Execute
    PROVE  /\ last' = last + 1 /\ row' \in {0, last'} /\ (row' # tag \/ tag = 0)
           /\ call \in {"Put", "Delete"} => commits = 0
           /\ commits' = commits + 1 /\ seen' = seen \cup {row'}
<1>1. last \in Nat /\ tag \in 0..last
  BY DEF RequestInv, RequestType, TypeOK
<1>2. last' = last + 1 /\ row' \in {0, last'}
  BY DEF Execute
<1>3. call \in {"Put", "Delete"} => commits = 0
  BY DEF RequestInv, TagInv, Stores
<1> QED
  BY <1>1, <1>2, <1>3 DEF Execute

LEMMA CommitKeeps ==
    ASSUME RequestInv, Commit
    PROVE  RequestInv'
<1>r. PICK r \in CommitReplies : Answer(r)
  BY DEF Commit
<1>o. r \in OpenReplies /\ r.status # 404
  BY CommitRepliesAreOpen
<1>e. /\ last' = last + 1 /\ row' \in {0, last'} /\ (row' # tag \/ tag = 0)
      /\ call \in {"Put", "Delete"} => commits = 0
      /\ commits' = commits + 1 /\ seen' = seen \cup {row'}
  BY ExecuteTakesTag DEF Commit
<1>t. last \in Nat /\ tag \in 0..last /\ commits \in Nat
  BY DEF RequestInv, RequestType, TypeOK
<1> USE <1>r DEF RequestInv, Commit, Answer, clocks
<1>1. RequestType'
  <2>1. r \in AnswerOf(last') /\ r.marks \subseteq Marker
    BY <1>o, <1>e, <1>t, CommitRepliesAreOpen DEF AnswerOf
  <2>2. seen' \subseteq 0..last' /\ tag' \in 0..last' /\ row' \in 0..last'
    BY <1>e, <1>t DEF RequestType, TypeOK
  <2> QED
    BY <2>1, <2>2, <1>e, <1>t DEF RequestType, TypeOK
<1>2. SentOnceInv'
  BY <1>o, <1>e DEF SentOnceInv, SentOnce, OneAttempt, Exposed
<1>3. TagInv'
  BY <1>e, <1>t DEF TagInv, Exposed
<1>4. ReportInv' /\ ReadInv' /\ CacheInv'
  BY <1>o, <1>e, <1>t DEF ReportInv, ReadInv, CacheInv
<1> QED
  BY <1>1, <1>2, <1>3, <1>4

LEMMA RefuseKeeps ==
    ASSUME RequestInv, Refuse
    PROVE  RequestInv'
<1>r. PICK r \in RefusalReplies : Answer(r)
  BY DEF Refuse
<1>t. last \in Nat
  BY DEF RequestInv, RequestType, TypeOK
<1>o. /\ r \in AnswerOf(last) /\ ~Success(r.status)
      /\ r.status = 404 =>
            \/ RowKind = "Consumer" /\ r.marks # {"notFound"}
            \/ r.marks = {"notFound"} /\ row = 0
  BY <1>t, Refusals
<1> USE <1>r DEF RequestInv, Refuse, Answer, clocks, gateway
<1>1. RequestType'
  BY <1>o DEF RequestType, TypeOK, AnswerOf
<1>2. SentOnceInv'
  BY DEF SentOnceInv, SentOnce, OneAttempt, Exposed
<1>3. TagInv' /\ ReadInv' /\ CacheInv'
  BY DEF TagInv, Exposed, ReadInv, CacheInv
<1>4. ReportInv'
  BY <1>o DEF ReportInv, TagInv
<1> QED
  BY <1>1, <1>2, <1>3, <1>4

LEMMA ParkKeeps ==
    ASSUME RequestInv, Park
    PROVE  RequestInv'
<1>r. PICK r \in ParkReplies : Answer(r)
  BY DEF Park
<1>o. r \in OpenReplies /\ r.status # 404 /\ ~Success(r.status)
  BY CommitRepliesAreOpen
<1>t. last \in Nat /\ attempt \in 1..MaxAttempts
  BY DEF RequestInv, RequestType, TypeOK, Park, Answer
<1> USE <1>r DEF RequestInv, Park, Answer, clocks
<1>1. RequestType'
  <2>1. r \in AnswerOf(last') /\ r.marks \subseteq Marker
    BY <1>o, <1>t, CommitRepliesAreOpen DEF AnswerOf
  <2>2. inFlight' \subseteq 1..MaxAttempts
    BY <1>t DEF RequestType, TypeOK
  <2> QED
    BY <2>1, <2>2 DEF RequestType, TypeOK
<1>2. SentOnceInv'
  BY <1>o DEF SentOnceInv, SentOnce, OneAttempt, Exposed
<1>3. TagInv' /\ ReadInv' /\ CacheInv'
  BY DEF TagInv, Exposed, ReadInv, CacheInv
<1>4. ReportInv'
  BY <1>o DEF ReportInv
<1> QED
  BY <1>1, <1>2, <1>3, <1>4

(* What stayed in flight arrives, or comes to nothing.                     *)
LEMMA LateKeeps ==
    ASSUME RequestInv, Late
    PROVE  RequestInv'
<1>t. /\ last \in Nat /\ tag \in 0..last /\ commits \in Nat
      /\ call # "Get" /\ UNCHANGED <<clocks, scope, cache, client>>
      /\ inFlight # {} /\ inFlight' \subseteq inFlight
  BY DEF RequestInv, RequestType, TypeOK, Late, TagInv, Exposed
<1> USE DEF RequestInv, clocks, client
<1>1. CASE UNCHANGED <<row, last, commits, seen>>
  <2> USE <1>t, <1>1
  <2>1. RequestType' /\ TagInv' /\ CacheInv'
    BY DEF RequestType, TypeOK, AnswerOf, TagInv, Exposed, CacheInv
  <2>2. SentOnceInv'
    BY DEF SentOnceInv, SentOnce, OneAttempt, Exposed
  <2>3. ReportInv' /\ ReadInv'
    BY DEF ReportInv, ReadInv, Settles
  <2> QED
    BY <2>1, <2>2, <2>3
<1>2. CASE Stores /\ Execute
  <2> USE <1>t
  <2>e. /\ last' = last + 1 /\ row' \in {0, last'} /\ (row' # tag \/ tag = 0)
        /\ call \in {"Put", "Delete"} => commits = 0
        /\ commits' = commits + 1 /\ seen' = seen \cup {row'}
    BY <1>2, ExecuteTakesTag
  <2>1. RequestType'
    <3>1. seen' \subseteq 0..last' /\ tag' \in 0..last' /\ row' \in 0..last'
      <4>1. seen \subseteq 0..last /\ tag' = tag
        BY DEF RequestType, TypeOK
      <4>2. 0..last \subseteq 0..last' /\ row' \in 0..last'
        BY <2>e
      <4> QED
        BY <4>1, <4>2, <2>e
    <3>2. answer' \in AnswerOf(last')
      <4>1. answer \in AnswerOf(last) /\ answer' = answer
        BY DEF RequestType
      <4>2. 0..last \subseteq 0..last'
        BY <2>e
      <4> QED
        BY <4>1, <4>2 DEF AnswerOf
    <3> QED
      BY <3>1, <3>2, <2>e DEF RequestType, TypeOK
  <2>2. SentOnceInv'
    <3>1. SUFFICES ASSUME SentOnce PROVE OneAttempt'
      BY DEF SentOnceInv, SentOnce
    <3>2. OneAttempt
      BY <3>1 DEF SentOnceInv
    <3>3. commits = 0 /\ inFlight' = {}
      BY <3>2 DEF OneAttempt, Late
    <3> QED
      BY <3>2, <3>3, <2>e DEF OneAttempt, Exposed
  <2>3. TagInv' /\ CacheInv'
    BY <2>e DEF TagInv, Exposed, CacheInv
  <2>4. ReportInv'
    BY <2>e DEF ReportInv, TagInv
  <2>5. ReadInv'
    BY <2>e DEF ReadInv, Settles
  <2> QED
    BY <2>1, <2>2, <2>3, <2>4, <2>5
<1> QED
  BY <1>1, <1>2 DEF Late

(* A read is answered from the database, or marked as not.                 *)
LEMMA ReadIsMarked ==
    ASSUME RequestInv, row \in seen, NEW r \in ReadReplies
    PROVE  r \in AnswerOf(last) /\ Settles(GetTagged(r), r)
<1>t. last \in Nat /\ row \in 0..last
  BY DEF RequestInv, RequestType, TypeOK
<1>1. PICK s \in {0, 200, 404, 502, 503}, ms \in SUBSET Marker, v \in 0..last :
         /\ r = Shown(s, ms, v)
         /\ \/ "cached" \in ms \/ s \in {0, 502, 503}
            \/ s = 404 /\ RowKind = "Consumer" /\ ms # {"notFound"}
            \/ s = 404 /\ row = 0
            \/ s = 200 /\ v = row
  <2> DEFINE of(v, ms) == IF v = 0 THEN Reply(404, {"notFound"} \cup ms) ELSE Shown(200, ms, v)
  <2>1. \/ r \in {Reply(503, {}), NoAnswer}
        \/ r = Reply(502, {"malformed"})
        \/ r = of(row, {})
        \/ \E v \in 0..last : r = of(v, {"cached"})
        \/ row # 0 /\ r = of(row, {"untagged"})
        \/ RowKind = "Consumer" /\ r \in {Reply(404, {}), Reply(404, {"malformed"})}
    BY DEF ReadReplies
  <2>2. \A s \in Nat, ms \in SUBSET Marker : Reply(s, ms) = Shown(s, ms, 0)
    BY DEF Reply, Shown
  <2>3. {} \in SUBSET Marker /\ {"malformed"} \in SUBSET Marker
        /\ {"untagged"} \in SUBSET Marker /\ {"cached"} \in SUBSET Marker
        /\ {"notFound"} \in SUBSET Marker /\ {"notFound", "cached"} \in SUBSET Marker
    BY DEF Marker
  <2>4. 0 \in 0..last
    BY <1>t
  <2>5. CASE r \in {Reply(503, {}), NoAnswer} \/ r = Reply(502, {"malformed"})
    BY <2>2, <2>3, <2>4, <2>5 DEF NoAnswer
  <2>6. CASE RowKind = "Consumer" /\ r \in {Reply(404, {}), Reply(404, {"malformed"})}
    BY <2>2, <2>3, <2>4, <2>6
  <2>7. CASE r = of(row, {})
    <3>1. {"notFound"} \cup {} = {"notFound"}
      OBVIOUS
    <3> QED
      BY <1>t, <2>2, <2>3, <2>4, <2>7, <3>1
  <2>8. CASE \E v \in 0..last : r = of(v, {"cached"})
    <3>1. {"notFound"} \cup {"cached"} = {"notFound", "cached"}
      OBVIOUS
    <3>2. PICK v \in 0..last : r = of(v, {"cached"})
      BY <2>8
    <3>3. r = Shown(404, {"notFound", "cached"}, 0) \/ r = Shown(200, {"cached"}, v)
      BY <2>2, <2>3, <3>1, <3>2
    <3> QED
      BY <2>3, <2>4, <3>3
  <2>9. CASE row # 0 /\ r = of(row, {"untagged"})
    BY <1>t, <2>3, <2>9
  <2> HIDE DEF of
  <2> QED
    BY <2>1, <2>5, <2>6, <2>7, <2>8, <2>9
<1>2. /\ r = [status |-> s, marks |-> ms, version |-> v] /\ r \in AnswerOf(last)
      /\ r.status = s /\ r.marks = ms /\ r.version = v
  <2>1. s \in Nat /\ ms \in SUBSET Marker /\ v \in 0..last
    BY <1>1
  <2>2. r = [status |-> s, marks |-> ms, version |-> v]
    BY <1>1, <2>1 DEF Shown, Reply
  <2> QED
    BY <2>1, <2>2 DEF AnswerOf
<1>3. GetTagged(r) = "Absent" => 0 \in seen
  <2>1. ASSUME GetTagged(r) = "Absent"
        PROVE  /\ "cached" \notin ms /\ s = 404
               /\ RowKind = "Consumer" => ms = {"notFound"}
    BY <1>2, <2>1, ChecksTo DEF GetTagged
  <2> QED
    BY <1>1, <2>1
<1>4. GetTagged(r) = "Row" => r.version \in seen
  <2>1. ASSUME GetTagged(r) = "Row"
        PROVE  "cached" \notin ms /\ s # 404 /\ Success(s)
    BY <1>2, <2>1, ChecksTo DEF GetTagged
  <2> QED
    BY <1>1, <1>2, <2>1 DEF Success
<1> QED
  BY <1>2, <1>3, <1>4 DEF Settles

LEMMA ReadKeeps ==
    ASSUME RequestInv, Read
    PROVE  RequestInv'
<1>1. PICK r \in ReadReplies : Answer(r)
  BY DEF Read
<1>2. r \in AnswerOf(last) /\ Settles(GetTagged(r), r)
  BY <1>1, ReadIsMarked DEF RequestInv, ReadInv, Answer
<1> USE <1>1, <1>2 DEF RequestInv, Read, Answer, clocks, gateway
<1>3. RequestType'
  BY DEF RequestType, TypeOK, AnswerOf
<1>4. SentOnceInv'
  BY DEF SentOnceInv, SentOnce, OneAttempt, Exposed
<1>5. TagInv' /\ ReportInv' /\ CacheInv'
  BY DEF TagInv, Exposed, ReportInv, CacheInv
<1>6. ReadInv'
  <2>1. (GetTagged(answer))' = GetTagged(r)
    BY DEF GetTagged, MapApiError
  <2> QED
    BY <2>1 DEF ReadInv, Settles
<1> QED
  BY <1>3, <1>4, <1>5, <1>6

(* Another writer gives the row a tag no call holds, or takes it away.     *)
LEMMA EditKeeps ==
    ASSUME RequestInv, Edit
    PROVE  RequestInv'
<1>t. last \in Nat /\ tag \in 0..last
  BY DEF RequestInv, RequestType, TypeOK
<1>e. /\ last' = last + 1 /\ row' \in {0, last'} /\ (row' # tag \/ tag = 0)
      /\ seen' = seen \cup {row'}
  BY <1>t DEF Edit
<1> USE DEF RequestInv, Edit, clocks, client
<1>1. RequestType'
  <2>1. 0..last \subseteq 0..last' /\ row' \in 0..last' /\ last' \in Nat
    BY <1>e, <1>t
  <2>2. seen' \subseteq 0..last'
    <3>1. seen \subseteq 0..last
      BY DEF RequestType, TypeOK
    <3> QED
      BY <3>1, <2>1, <1>e
  <2>3. answer' \in AnswerOf(last')
    BY <2>1 DEF RequestType, AnswerOf
  <2>4. tag' \in 0..last'
    BY <1>t, <2>1
  <2> QED
    BY <2>1, <2>2, <2>3, <2>4 DEF RequestType, TypeOK
<1>2. SentOnceInv'
  BY DEF SentOnceInv, SentOnce, OneAttempt, Exposed
<1>3. TagInv' /\ CacheInv'
  BY <1>e DEF TagInv, Exposed, CacheInv
<1>4. ReportInv'
  BY <1>e DEF ReportInv, TagInv
<1>5. ReadInv'
  <2>1. (GetTagged(answer))' = GetTagged(answer)
    BY DEF GetTagged, MapApiError
  <2> QED
    BY <2>1, <1>e DEF ReadInv, Settles
<1> QED
  BY <1>1, <1>2, <1>3, <1>4, <1>5

LEMMA NextKeeps == RequestInv /\ [Next]_vars => RequestInv'
<1> SUFFICES ASSUME RequestInv, [Next]_vars PROVE RequestInv'
  OBVIOUS
<1>1. CASE \E c \in Call : Begin(c)
  BY <1>1, BeginKeeps
<1>2. CASE SetNamespaceScope \/ Tick \/ SetClock
  BY <1>2, ClocksKeep
<1>3. CASE Send \/ Received \/ NotConnected \/ Unanswered
  BY <1>3, SendKeeps, ReceivedKeeps, NotConnectedKeeps, UnansweredKeeps
<1>4. CASE Commit \/ Refuse \/ Park \/ Late \/ Read \/ Edit
  BY <1>4, CommitKeeps, RefuseKeeps, ParkKeeps, LateKeeps, ReadKeeps, EditKeeps
<1>5. CASE UNCHANGED vars
  <2> USE <1>5 DEF vars
  <2>1. RequestType' /\ CacheInv'
    BY DEF RequestInv, RequestType, TypeOK, AnswerOf, CacheInv, clocks, client, gateway
  <2> QED
    BY <2>1, CallUntouched DEF RequestInv
<1> QED
  BY <1>1, <1>2, <1>3, <1>4, <1>5 DEF Next

(* The inductive invariant, for every number of attempts and of writes.    *)
LEMMA RequestInductive == Spec => []RequestInv
BY InitRequest, NextKeeps, PTL DEF Spec

-----------------------------------------------------------------------------
(* The promises.                                                           *)

(* Every state of the client and the gateway is of its type.               *)
THEOREM RequestTypeCorrect == Spec => []TypeOK
BY RequestInductive, PTL DEF RequestInv, RequestType

(* No call takes effect twice, however often send_with_retry repeats it,   *)
(* whatever stays in flight, and whoever writes in between.                *)
THEOREM NoCallTakesEffectTwice == Spec => []AtMostOnce
<1>1. RequestInv => AtMostOnce
  <2> SUFFICES ASSUME RequestInv PROVE AtMostOnce
    OBVIOUS
  <2>1. call \in {"Create", "Restore"} => commits \in {0, 1}
    BY DEF RequestInv, SentOnceInv, SentOnce, OneAttempt
  <2>2. call \in {"Put", "Delete"} => commits \in {0, 1}
    BY DEF RequestInv, TagInv
  <2>3. call = "Get" => commits = 0
    BY DEF RequestInv, TagInv, Exposed
  <2>4. call \in {"Get", "Create", "Put", "Delete", "Restore"}
    BY DEF RequestInv, RequestType, TypeOK, Call
  <2> QED
    BY <2>1, <2>2, <2>3, <2>4 DEF AtMostOnce
<1> QED
  BY <1>1, RequestInductive, PTL

(* What send_with_retry and its callers report is so: a refusal wrote      *)
(* nothing and nothing of it is on its way, a success is stored, and what  *)
(* a read concludes the database held at some moment of the call.          *)
THEOREM ReportsAreAlwaysTrue == Spec => []ReportsAreTrue
<1>1. RequestInv => ReportsAreTrue
  <2> SUFFICES ASSUME RequestInv PROVE ReportsAreTrue
    OBVIOUS
  <2>1. RefusalsAreClean /\ FirstRefusalIsForeign
    BY DEF RequestInv, SentOnceInv, SentOnce, OneAttempt, Exposed, CleanOutcomes,
           RefusalsAreClean, FirstRefusalIsForeign
  <2>2. phase = "idle" /\ outcome = "Done" /\ call # "Get" => commits = 1
    <3>1. call \in {"Create", "Restore", "Put", "Delete"} => commits \in {0, 1}
      BY DEF RequestInv, TagInv, SentOnceInv, SentOnce, OneAttempt
    <3>2. call \in Call
      BY DEF RequestInv, RequestType, TypeOK
    <3> QED
      BY <3>1, <3>2 DEF RequestInv, ReportInv, Call
  <2>3. SuccessIsReal
    BY <2>2 DEF RequestInv, ReportInv, SuccessIsReal
  <2>4. EvidenceIsStored
    BY DEF RequestInv, ReadInv, Settles, EvidenceIsStored
  <2> QED
    BY <2>1, <2>3, <2>4 DEF ReportsAreTrue
<1> QED
  BY <1>1, RequestInductive, PTL

(* Every attempt carries a token of the namespaces the client is scoped to *)
(* now, with more than the margin of its life left in elapsed time         *)
(* (token_at, CachedJwt), wherever the clocks are set.                     *)
THEOREM TokensAreAlwaysCurrent == Spec => TokensAreCurrent
<1>1. RequestInv /\ Send => mono - bearer'.minted < Life - Margin /\ bearer'.iat <= wall
  <2> SUFFICES ASSUME RequestInv, Send
               PROVE  mono - bearer'.minted < Life - Margin /\ bearer'.iat <= wall
    OBVIOUS
  <2>t. /\ mono \in Nat /\ wall \in Nat /\ Life \in Nat \ {0}
        /\ Margin \in Nat /\ Margin <= Life \div 2
    BY RequestAssumption DEF RequestInv, RequestType, TypeOK
  <2>1. CASE cache # NoToken /\ Reusable(cache)
    <3>1. bearer' = cache /\ cache.minted \in Nat
      BY <2>1 DEF Send, TokenNow, RequestInv, RequestType, TypeOK, Token
    <3> QED
      BY <2>t, <2>1, <3>1 DEF Reusable
  <2>2. CASE ~(cache # NoToken /\ Reusable(cache))
    <3>1. bearer'.minted = mono /\ bearer'.iat = wall
      BY <2>2 DEF Send, TokenNow
    <3>2. Margin < Life
      BY <2>t
    <3> QED
      BY <2>t, <3>1, <3>2
  <2> QED
    BY <2>1, <2>2
<1>2. RequestInv /\ Send => bearer'.scope = scope
  BY TokenNowType DEF Send
<1>3. RequestInv /\ [Next]_vars =>
         /\ [Send => mono - bearer'.minted < Life - Margin /\ bearer'.iat <= wall]_vars
         /\ [Send => bearer'.scope = scope]_vars
  BY <1>1, <1>2
<1> QED
  BY <1>3, RequestInductive, PTL DEF Spec, TokensAreCurrent, TokensAreFresh, ScopeIsCurrent

-----------------------------------------------------------------------------
(* The verification of a deployment, for every smoke file, selection, list *)
(* and budget.                                                             *)
CONSTANTS Slot, Elsewhere, CheckLists, BudgetCap, Grace, MaxOverhead
VARIABLES checks, adhoc, bound, brokered, labelled, secret, allow, edited, handoff, served,
          pc, applied, granted, next, tries, clock, results, overhead, sent, effects,
          answered, record
W == INSTANCE Verify

Value == {"old", "held", "fresh"}
Before == {"start", "apply", "deployed", "job"}
UnsafeToReplay(c) == ~(c.replay_safe \/ c.method = "GET")

(* What the job is given.                                                  *)
GivenInv ==
    /\ checks \in CheckLists /\ W!SmokeConfigLoads(checks)
    /\ adhoc \in BOOLEAN /\ bound \in BOOLEAN
    /\ labelled \subseteq brokered /\ brokered \subseteq W!Slots(checks)

(* The file is this apply's own, or none; and what verify would refuse was *)
(* refused before.                                                         *)
HandoffInv ==
    /\ pc \in {"apply", "deployed"} => handoff = W!NoBundle
    /\ pc # "start" /\ handoff # W!NoBundle => handoff = W!Finalized
    /\ \/ pc \in {"apply", "deployed"} \/ (pc = "job" /\ handoff # W!NoBundle)
       => edited \/ ~W!PreflightRefuses

(* Nothing is granted before the verification, nothing unapproved then,    *)
(* and nothing but a granted slot is sent.                                 *)
GrantInv ==
    /\ pc \in Before => granted = W!Empty
    /\ DOMAIN granted \subseteq allow \cap labelled \cap brokered
    /\ W!HandoffIsCurrent
    /\ sent \subseteq DOMAIN granted

(* A passed check was answered as declared, with its own credential; one   *)
(* that is not safe to replay has not acted yet while it is retried.       *)
ChecksInv ==
    /\ pc \in Before =>
          next = 1 /\ results = <<>> /\ tries = 0 /\ clock = 0 /\ overhead = 0 /\ sent = {}
    /\ next \in 1 .. Len(checks) + 1
    /\ tries # 0 => next <= Len(checks) /\ tries < checks[next].attempts
    /\ answered \in [DOMAIN checks -> {"none", "200", "401", "502"}]
    /\ effects \in [DOMAIN checks -> Nat]
    /\ \A i \in DOMAIN results :
          results[i] = "passed" =>
              /\ answered[i] = checks[i].expect
              /\ checks[i].slot # W!NoSlot => checks[i].slot \in DOMAIN granted
    /\ \A i \in DOMAIN checks :
          UnsafeToReplay(checks[i]) => effects[i] <= 1 /\ (i >= next => effects[i] = 0)

RecordInv ==
    /\ pc \in Before \cup {"checking"} => record = "none"
    /\ pc = "checking" => checks # <<>>
    /\ record = "refused" => edited \/ ~bound \/ adhoc
    /\ record \in {"passed", "authorizes"} =>
          checks # <<>> /\ next = Len(checks) + 1 /\ W!AllPassed
    /\ record = "authorizes" => applied = "success"

(* What k attempts of a check can take, and the checks so far.             *)
Attempts(c, k) == k * c.timeout + c.backoff * (((k - 1) * k) \div 2)
Spent ==
    W!WorstCases(checks)[next - 1]
      + (IF next <= Len(checks) THEN Attempts(checks[next], tries) ELSE 0)
BudgetInv == clock - overhead <= Spent /\ W!BudgetCoversChecks

VerifyInv ==
    W!TypeOK /\ GivenInv /\ HandoffInv /\ GrantInv /\ ChecksInv /\ RecordInv /\ BudgetInv
-----------------------------------------------------------------------------
(* The budget.                                                             *)

(* A set of naturals has a least element.                                  *)
LEMMA Least == ASSUME NEW S \in SUBSET Nat, S # {} PROVE \E x \in S : \A y \in S : x <= y
  <1>. DEFINE R == {p \in Nat \X Nat : p[1] < p[2]}
  <1>1. PICK x \in S : \A y \in S : <<y, x>> \notin R
    BY NatLessThanWellFounded, WFMin, Zenon DEF OpToRel
  <1>2. ASSUME NEW y \in S PROVE x <= y
    <2>1. ~(<<y, x>>[1] < <<y, x>>[2])
      BY <1>1, Zenon
    <2>. QED
      BY <2>1, y \in Nat, x \in Nat
  <1>. QED
    BY <1>2

Triangle(k) == ((k - 1) * k) \div 2

LEMMA Triangles ==
    ASSUME NEW k \in Nat
    PROVE  /\ Triangle(k) \in Nat /\ Triangle(0) = 0
           /\ Triangle(k + 1) = Triangle(k) + k
  <1>1. (k - 1) * k \in Nat
    <2>1. CASE k = 0
      BY <2>1
    <2>2. CASE k # 0
      <3>1. k - 1 \in Nat
        BY <2>2
      <3>. QED
        BY <3>1
    <2>. QED
      BY <2>1, <2>2
  <1>2. ((k + 1) - 1) * (k + 1) = (k - 1) * k + 2 * k
    OBVIOUS
  <1>3. ASSUME NEW x \in Nat PROVE (x + 2 * k) \div 2 = x \div 2 + k
    OBVIOUS
  <1>4. Triangle(k + 1) = Triangle(k) + k
    BY <1>1, <1>2, <1>3 DEF Triangle
  <1>5. Triangle(k) \in Nat
    BY <1>1 DEF Triangle
  <1>6. Triangle(0) = 0
    BY DEF Triangle
  <1>. QED
    BY <1>4, <1>5, <1>6

(* One attempt more is one pause and one timeout more.                     *)
LEMMA AttemptsStep ==
    ASSUME NEW c \in W!SmokeCheck, NEW k \in Nat
    PROVE  /\ Attempts(c, k) \in Nat /\ Attempts(c, 0) = 0
           /\ Attempts(c, k + 1) = Attempts(c, k) + c.timeout + W!Backoff(c, k)
           /\ W!Backoff(c, k) \in Nat
  <1>1. c.timeout \in Nat /\ c.backoff \in Nat
    BY DEF W!SmokeCheck
  <1>2. \A j \in Nat : Attempts(c, j) = j * c.timeout + c.backoff * Triangle(j)
    BY DEF Attempts, Triangle
  <1>3. Triangle(k) \in Nat /\ Triangle(k + 1) = Triangle(k) + k /\ Triangle(0) = 0
    BY Triangles
  <1>4. Attempts(c, 0) = 0
    <2>1. 0 * c.timeout = 0 /\ c.backoff * 0 = 0
      BY <1>1
    <2>. QED
      BY <1>2, <1>3, <2>1
  <1>5. /\ (k + 1) * c.timeout = k * c.timeout + c.timeout
        /\ c.backoff * (Triangle(k) + k) = c.backoff * Triangle(k) + c.backoff * k
        /\ k * c.timeout \in Nat /\ c.backoff * Triangle(k) \in Nat /\ c.backoff * k \in Nat
    BY <1>1, <1>3
  <1>6. Attempts(c, k) = k * c.timeout + c.backoff * Triangle(k)
    BY <1>2
  <1>7. Attempts(c, k + 1) = (k + 1) * c.timeout + c.backoff * (Triangle(k) + k)
    BY <1>2, <1>3
  <1>8. W!Backoff(c, k) = c.backoff * k
    BY DEF W!Backoff
  <1>. HIDE DEF Triangle, Attempts, W!Backoff
  <1>9. Attempts(c, k) \in Nat /\ W!Backoff(c, k) \in Nat
    BY <1>5, <1>6, <1>8
  <1>10. Attempts(c, k + 1) = Attempts(c, k) + c.timeout + W!Backoff(c, k)
    BY <1>1, <1>5, <1>6, <1>7, <1>8
  <1>. QED
    BY <1>4, <1>9, <1>10

LEMMA AttemptsGrow ==
    ASSUME NEW c \in W!SmokeCheck, NEW j \in Nat, NEW k \in Nat, j <= k
    PROVE  Attempts(c, j) <= Attempts(c, k)
  <1>. DEFINE Bad == {m \in Nat : j <= m /\ ~(Attempts(c, j) <= Attempts(c, m))}
  <1>1. SUFFICES ASSUME Bad # {} PROVE FALSE
    OBVIOUS
  <1>2. PICK m \in Bad : \A y \in Bad : m <= y
    BY <1>1, Least
  <1>3. m # j
    BY <1>2, AttemptsStep
  <1>4. m - 1 \in Nat /\ j <= m - 1 /\ (m - 1) + 1 = m
    BY <1>2, <1>3
  <1>5. Attempts(c, j) <= Attempts(c, m - 1)
    BY <1>2, <1>4
  <1>6. /\ Attempts(c, j) \in Nat /\ Attempts(c, m - 1) \in Nat /\ Attempts(c, m) \in Nat
        /\ Attempts(c, m) = Attempts(c, m - 1) + c.timeout + W!Backoff(c, m - 1)
        /\ W!Backoff(c, m - 1) \in Nat
    BY <1>2, <1>4, AttemptsStep
  <1>7. c.timeout \in Nat
    BY DEF W!SmokeCheck
  <1>. QED
    BY <1>2, <1>5, <1>6, <1>7

LEMMA WorstCaseIs ==
    ASSUME NEW c \in W!SmokeCheck
    PROVE  /\ W!WorstCase(c) = Attempts(c, c.attempts) /\ W!WorstCase(c) \in Nat
           /\ W!WorstCase(c) >= 1
  <1>1. c.attempts \in Nat \ {0} /\ c.timeout \in Nat \ {0}
    BY DEF W!SmokeCheck
  <1>2. W!WorstCase(c) = Attempts(c, c.attempts)
    BY DEF W!WorstCase, Attempts
  <1>3. /\ Attempts(c, 0) = 0 /\ Attempts(c, 0 + 1) = Attempts(c, 0) + c.timeout + W!Backoff(c, 0)
        /\ W!Backoff(c, 0) \in Nat
    BY AttemptsStep
  <1>4. Attempts(c, 1) <= Attempts(c, c.attempts) /\ Attempts(c, c.attempts) \in Nat
    <2>1. 1 \in Nat /\ c.attempts \in Nat /\ 1 <= c.attempts
      BY <1>1
    <2>. QED
      BY <2>1, AttemptsGrow, AttemptsStep
  <1>5. Attempts(c, 1) >= 1
    BY <1>1, <1>3
  <1>. QED
    BY <1>1, <1>2, <1>3, <1>4, <1>5

(* The recursive definition of the sums has a value.                       *)
LEMMA SumsExist ==
    ASSUME NEW cs \in Seq(W!SmokeCheck)
    PROVE  W!WorstCases(cs) = [n \in 0 .. Len(cs) |->
               IF n = 0 THEN 0 ELSE W!WorstCases(cs)[n - 1] + W!WorstCase(cs[n])]
  <1>. DEFINE Sum(n, g) == g = [i \in 0 .. n |-> IF i = 0 THEN 0
                                                 ELSE g[i - 1] + W!WorstCase(cs[i])]
              Bad == {n \in Nat : n <= Len(cs) /\ \A g : ~Sum(n, g)}
  <1>1. Len(cs) \in Nat
    OBVIOUS
  <1>0. Bad \in SUBSET Nat /\ \A n \in Bad : n <= Len(cs)
    OBVIOUS
  <1>2. Bad = {}
    <2>1. SUFFICES ASSUME Bad # {} PROVE FALSE
      OBVIOUS
    <2>2. PICK n \in Bad : \A y \in Bad : n <= y
      <3>. HIDE DEF Bad
      <3>. QED
        BY <1>0, <2>1, Least
    <2>3. n # 0
      <3>. DEFINE g == [i \in 0 .. 0 |-> 0]
      <3>1. Sum(0, g)
        OBVIOUS
      <3>. QED
        BY <3>1, <2>2
    <2>4. n - 1 \in Nat /\ n - 1 \notin Bad /\ n - 1 <= Len(cs)
      <3>. HIDE DEF Bad
      <3>1. n \in Nat /\ n <= Len(cs)
        BY <1>0
      <3>. QED
        BY <1>1, <2>2, <2>3, <3>1
    <2>5. PICK g : Sum(n - 1, g)
      <3>. HIDE DEF Sum
      <3>. QED
        BY <2>4
    <2>. DEFINE h == [i \in 0 .. n |-> IF i = n THEN g[n - 1] + W!WorstCase(cs[n]) ELSE g[i]]
    <2>6. ASSUME NEW i \in 0 .. n
          PROVE  h[i] = IF i = 0 THEN 0 ELSE h[i - 1] + W!WorstCase(cs[i])
      <3>1. CASE i = 0
        BY <2>3, <2>4, <2>5, <3>1
      <3>2. CASE i = n
        BY <2>3, <2>4, <3>2
      <3>3. CASE i # 0 /\ i # n
        BY <2>4, <2>5, <3>3
      <3>. QED
        BY <3>1, <3>2, <3>3
    <2>7. Sum(n, h)
      BY <2>6
    <2>. QED
      BY <2>2, <2>7
  <1>3. \E g : Sum(Len(cs), g)
    BY <1>1, <1>2
  <1>. QED
    BY <1>3, Zenon DEF W!WorstCases
LEMMA Sums ==
    ASSUME NEW cs \in Seq(W!SmokeCheck)
    PROVE  /\ W!WorstCases(cs)[0] = 0
           /\ \A n \in 1 .. Len(cs) :
                 W!WorstCases(cs)[n] = W!WorstCases(cs)[n - 1] + W!WorstCase(cs[n])
  <1>. DEFINE T == W!WorstCases(cs)
  <1>1. T = [n \in 0 .. Len(cs) |-> IF n = 0 THEN 0 ELSE T[n - 1] + W!WorstCase(cs[n])]
    BY SumsExist
  <1>2. Len(cs) \in Nat
    OBVIOUS
  <1>. HIDE DEF T
  <1>3. \A n \in 0 .. Len(cs) : T[n] = IF n = 0 THEN 0 ELSE T[n - 1] + W!WorstCase(cs[n])
    BY <1>1
  <1>4. T[0] = 0 /\ \A n \in 1 .. Len(cs) : T[n] = T[n - 1] + W!WorstCase(cs[n])
    BY <1>2, <1>3
  <1>. QED
    BY <1>4 DEF T

(* The sums are counts, and grow with every check.                         *)
LEMMA SumsGrow ==
    ASSUME NEW cs \in Seq(W!SmokeCheck), NEW n \in 0 .. Len(cs)
    PROVE  /\ W!WorstCases(cs)[n] \in Nat /\ W!WorstCases(cs)[n] <= W!WorstCaseOf(cs)
           /\ n < Len(cs) => W!WorstCases(cs)[n] < W!WorstCaseOf(cs)
  <1>. DEFINE T == W!WorstCases(cs)
  <1>1. T[0] = 0 /\ \A m \in 1 .. Len(cs) : T[m] = T[m - 1] + W!WorstCase(cs[m])
    BY Sums
  <1>2. \A m \in 1 .. Len(cs) : W!WorstCase(cs[m]) \in Nat /\ W!WorstCase(cs[m]) >= 1
    <2>1. \A m \in 1 .. Len(cs) : cs[m] \in W!SmokeCheck
      OBVIOUS
    <2>. QED
      BY <2>1, WorstCaseIs
  <1>3. Len(cs) \in Nat
    OBVIOUS
  <1>. HIDE DEF T
  <1>4. ASSUME NEW m \in 0 .. Len(cs) PROVE T[m] \in Nat
    <2>. DEFINE Bad == {k \in Nat : k <= Len(cs) /\ T[k] \notin Nat}
    <2>1. ASSUME Bad # {} PROVE FALSE
      <3>1. PICK k \in Bad : \A y \in Bad : k <= y
        BY <2>1, Least
      <3>2. k \in 1 .. Len(cs)
        BY <1>1, <1>3, <3>1
      <3>3. k - 1 \in Nat /\ T[k - 1] \in Nat
        BY <3>1, <3>2
      <3>. QED
        BY <1>1, <1>2, <3>1, <3>2, <3>3
    <2>. QED
      BY <1>3, <2>1
  <1>5. ASSUME NEW m \in n .. Len(cs) PROVE T[m] >= T[n] /\ (m > n => T[m] > T[n])
    <2>. DEFINE Bad == {k \in Nat : k >= n /\ k <= Len(cs) /\ ~(T[k] >= T[n] /\ (k > n => T[k] > T[n]))}
    <2>1. ASSUME Bad # {} PROVE FALSE
      <3>1. PICK k \in Bad : \A y \in Bad : k <= y
        BY <2>1, Least
      <3>2. T[n] \in Nat /\ T[k] \in Nat
        BY <1>4, <3>1
      <3>3. k > n
        BY <3>1, <3>2
      <3>4. k - 1 \in Nat /\ k - 1 >= n /\ k - 1 <= Len(cs) /\ k \in 1 .. Len(cs)
        BY <1>3, <3>1, <3>3
      <3>5. T[k - 1] >= T[n] /\ T[k - 1] \in Nat
        BY <1>4, <3>1, <3>4
      <3>. QED
        BY <1>1, <1>2, <3>1, <3>2, <3>4, <3>5
    <2>. QED
      BY <1>3, <2>1
  <1>6. T[n] \in Nat /\ T[Len(cs)] >= T[n] /\ (n < Len(cs) => T[Len(cs)] > T[n]) /\ T[Len(cs)] \in Nat
    BY <1>3, <1>4, <1>5
  <1>. QED
    BY <1>6 DEF T, W!WorstCaseOf

LEMMA DeadlineIs ==
    ASSUME W!VerifyAssumption, GivenInv
    PROVE  /\ checks \in Seq(W!SmokeCheck) /\ Len(checks) \in Nat
           /\ W!WorstCaseOf(checks) \in Nat /\ W!Deadline = W!WorstCaseOf(checks) + Grace
           /\ W!Deadline \in Nat /\ Grace \in Nat /\ MaxOverhead \in Nat
           /\ W!Slots(checks) \subseteq Slot /\ W!NoSlot \notin Slot
  <1>1. checks \in Seq(W!SmokeCheck) /\ Grace \in Nat /\ MaxOverhead \in Nat
    BY DEF GivenInv, W!VerifyAssumption
  <1>2. W!WorstCases(checks)[Len(checks)] \in Nat
    BY <1>1, SumsGrow
  <1>3. W!WorstCaseOf(checks) \in Nat
    BY <1>2 DEF W!WorstCaseOf
  <1>4. W!Deadline = W!WorstCaseOf(checks) + Grace
    BY DEF GivenInv, W!SmokeConfigLoads, W!Deadline
  <1>5. W!Slots(checks) \subseteq Slot /\ W!NoSlot \notin Slot
    <2>1. \A i \in DOMAIN checks : checks[i].slot \in Slot \cup {W!NoSlot}
      <3>1. \A i \in DOMAIN checks : checks[i] \in W!SmokeCheck
        BY <1>1
      <3>. QED
        BY <3>1 DEF W!SmokeCheck
    <2>. QED
      BY <2>1 DEF W!Slots, W!VerifyAssumption
  <1>. QED
    BY <1>1, <1>3, <1>4, <1>5

-----------------------------------------------------------------------------
(* The steps.                                                              *)

LEMMA VerifyInit == ASSUME W!VerifyAssumption, W!Init PROVE VerifyInv
  <1>1. GivenInv
    BY DEF W!Init, GivenInv
  <1>2. /\ checks \in Seq(W!SmokeCheck) /\ Len(checks) \in Nat /\ W!Deadline \in Nat
        /\ MaxOverhead \in Nat /\ W!Slots(checks) \subseteq Slot /\ Grace \in Nat
    BY <1>1, DeadlineIs
  <1>3. W!TypeOK
    <2>1. handoff = W!NoBundle \/ handoff \in UNION {[d -> Value] : d \in SUBSET Slot}
      BY DEF W!Init, Value
    <2>2. served \in [Slot -> Value]
      BY DEF W!Init, Value
    <2>3. granted \in UNION {[d -> Value] : d \in SUBSET Slot}
      <3>1. granted \in [{} -> Value] /\ {} \in SUBSET Slot
        BY DEF W!Init, W!Empty
      <3>. QED
        BY <3>1
    <2>4. next = Len(results) + 1 /\ results \in Seq(W!Outcome)
      BY DEF W!Init
    <2>5. clock \in 0 .. W!Deadline /\ overhead \in 0 .. MaxOverhead /\ tries \in Nat
      BY <1>2 DEF W!Init
    <2>. QED
      BY <2>1, <2>2, <2>3, <2>4, <2>5 DEF W!Init, W!TypeOK, Value
  <1>4. HandoffInv
    BY DEF W!Init, HandoffInv
  <1>5. GrantInv
    BY DEF W!Init, GrantInv, W!HandoffIsCurrent, W!Empty, Before
  <1>6. ChecksInv
    <2>1. DOMAIN checks = 1 .. Len(checks)
      BY <1>2
    <2>. QED
      BY <1>2, <2>1 DEF W!Init, ChecksInv
  <1>7. RecordInv
    BY DEF W!Init, RecordInv, Before
  <1>8. BudgetInv
    <2>1. W!BudgetCoversChecks
      BY DEF W!Init, W!BudgetCoversChecks
    <2>2. W!WorstCases(checks)[0] = 0
      BY <1>2, Sums
    <2>3. Len(checks) > 0 => Attempts(checks[1], 0) = 0
      <3>1. Len(checks) > 0 => checks[1] \in W!SmokeCheck
        BY <1>2
      <3>. QED
        BY <3>1, AttemptsStep
    <2>4. Spent = 0
      BY <1>2, <2>2, <2>3 DEF W!Init, Spent
    <2>. QED
      BY <2>1, <2>4 DEF W!Init, BudgetInv
  <1>. QED
    BY <1>1, <1>3, <1>4, <1>5, <1>6, <1>7, <1>8 DEF VerifyInv

(* A step that asks nothing: the checks are as they were.                  *)
LEMMA NothingAsked ==
    ASSUME W!VerifyAssumption, VerifyInv, UNCHANGED <<W!given, W!timing, W!wire>>,
           pc' \in Before => pc \in Before, granted' = granted \/ pc \in Before
    PROVE  GivenInv' /\ ChecksInv' /\ BudgetInv'
  <1>. USE DEF W!given, W!timing, W!wire
  <1>1. GivenInv'
    BY DEF VerifyInv, GivenInv
  <1>2. ChecksInv'
    <2>1. \A i \in DOMAIN results :
             results[i] = "passed" =>
                 /\ answered[i] = checks[i].expect
                 /\ checks[i].slot # W!NoSlot => checks[i].slot \in DOMAIN granted'
      <3>1. CASE pc \in Before
        BY <3>1 DEF VerifyInv, ChecksInv
      <3>2. CASE granted' = granted
        BY <3>2 DEF VerifyInv, ChecksInv
      <3>. QED
        BY <3>1, <3>2
    <2>. QED
      BY <2>1 DEF VerifyInv, ChecksInv, Before
  <1>3. BudgetInv'
    BY DEF VerifyInv, BudgetInv, W!BudgetCoversChecks, Spent
  <1>. QED
    BY <1>1, <1>2, <1>3
(* What is typed in a step that asks nothing.                              *)
LEMMA StaysTyped ==
    ASSUME W!VerifyAssumption, VerifyInv, UNCHANGED <<W!given, W!timing, W!wire>>,
           allow' \in SUBSET Slot, edited' \in BOOLEAN,
           handoff' = W!NoBundle \/ handoff' \in UNION {[d -> Value] : d \in SUBSET Slot},
           served' \in [Slot -> Value],
           granted' \in UNION {[d -> Value] : d \in SUBSET Slot},
           pc' \in Before \cup {"checking", "verified", "done"},
           applied' \in {"none", "success", "failure"},
           record' \in {"none", "error", "skipped", "refused", "passed", "failed", "authorizes"}
    PROVE  W!TypeOK'
  <1>1. W!Deadline' = W!Deadline
    BY DEF W!given, W!Deadline
  <1>. QED
    BY <1>1 DEF VerifyInv, W!TypeOK, W!timing, W!wire, Value, Before

LEMMA EditAllowlistStep == ASSUME W!VerifyAssumption, VerifyInv, W!EditAllowlist PROVE VerifyInv'
  <1>. USE DEF W!EditAllowlist
  <1>1. GivenInv' /\ ChecksInv' /\ BudgetInv'
    BY NothingAsked DEF Before
  <1>2. W!TypeOK'
    BY StaysTyped DEF VerifyInv, W!TypeOK, Value, Before
  <1>3. HandoffInv'
    BY DEF VerifyInv, HandoffInv, W!Finalized, W!given
  <1>4. GrantInv'
    BY DEF VerifyInv, GrantInv, W!HandoffIsCurrent, Before, W!Empty, W!given, W!wire
  <1>5. RecordInv'
    BY DEF VerifyInv, RecordInv, Before, W!AllPassed, W!given, W!timing
  <1>. QED
    BY <1>1, <1>2, <1>3, <1>4, <1>5 DEF VerifyInv

LEMMA StartApplyStep == ASSUME W!VerifyAssumption, VerifyInv, W!StartApply PROVE VerifyInv'
  <1>. USE DEF W!StartApply
  <1>1. GivenInv' /\ ChecksInv' /\ BudgetInv'
    BY NothingAsked DEF Before
  <1>2. W!TypeOK'
    BY StaysTyped DEF VerifyInv, W!TypeOK, Value, Before, W!ClearHandoff
  <1>3. HandoffInv'
    <2>1. W!PreflightRefuses' = W!PreflightRefuses
      BY DEF W!PreflightRefuses, W!Slots, W!Visible, W!Refused, W!Owned, W!given
    <2>. QED
      BY <2>1 DEF VerifyInv, HandoffInv, W!ClearHandoff
  <1>4. GrantInv'
    BY DEF VerifyInv, GrantInv, W!HandoffIsCurrent, Before, W!given, W!wire
  <1>5. RecordInv'
    BY DEF VerifyInv, RecordInv, Before, W!AllPassed, W!given, W!timing
  <1>. QED
    BY <1>1, <1>2, <1>3, <1>4, <1>5 DEF VerifyInv

LEMMA DeployStep == ASSUME W!VerifyAssumption, VerifyInv, W!Deploy PROVE VerifyInv'
  <1>. USE DEF W!Deploy
  <1>1. GivenInv' /\ ChecksInv' /\ BudgetInv'
    BY NothingAsked DEF Before
  <1>2. W!TypeOK'
    <2>1. served' \in [Slot -> Value]
      BY DEF Value
    <2>. QED
      BY <2>1, StaysTyped DEF VerifyInv, W!TypeOK, Value, Before
  <1>3. HandoffInv'
    <2>1. W!PreflightRefuses' = W!PreflightRefuses
      BY DEF W!PreflightRefuses, W!Slots, W!Visible, W!Refused, W!Owned, W!given
    <2>. QED
      BY <2>1 DEF VerifyInv, HandoffInv
  <1>4. GrantInv'
    BY DEF VerifyInv, GrantInv, W!HandoffIsCurrent, Before, W!Empty, W!given, W!wire
  <1>5. RecordInv'
    BY DEF VerifyInv, RecordInv, Before, W!AllPassed, W!given, W!timing
  <1>. QED
    BY <1>1, <1>2, <1>3, <1>4, <1>5 DEF VerifyInv

LEMMA FailApplyStep == ASSUME W!VerifyAssumption, VerifyInv, W!FailApply PROVE VerifyInv'
  <1>. USE DEF W!FailApply
  <1>1. GivenInv' /\ ChecksInv' /\ BudgetInv'
    BY NothingAsked DEF Before
  <1>2. W!TypeOK'
    BY StaysTyped DEF VerifyInv, W!TypeOK, Value, Before
  <1>3. HandoffInv'
    BY DEF VerifyInv, HandoffInv
  <1>4. GrantInv'
    BY DEF VerifyInv, GrantInv, W!HandoffIsCurrent, Before, W!given, W!wire
  <1>5. RecordInv'
    BY DEF VerifyInv, RecordInv, Before, W!AllPassed, W!given, W!timing
  <1>. QED
    BY <1>1, <1>2, <1>3, <1>4, <1>5 DEF VerifyInv

LEMMA FinishApplyStep == ASSUME W!VerifyAssumption, VerifyInv, W!FinishApply PROVE VerifyInv'
  <1>. USE DEF W!FinishApply
  <1>1. GivenInv' /\ ChecksInv' /\ BudgetInv'
    BY NothingAsked DEF Before
  <1>2. brokered \in SUBSET Slot
    BY DeadlineIs DEF VerifyInv, GivenInv
  <1>3. W!TypeOK'
    <2>1. handoff' \in [brokered -> Value]
      BY <1>2 DEF VerifyInv, W!TypeOK, W!Finalized, Value
    <2>. QED
      BY <1>2, <2>1, StaysTyped DEF VerifyInv, W!TypeOK, Value, Before
  <1>4. HandoffInv'
    <2>1. W!PreflightRefuses' = W!PreflightRefuses /\ W!Finalized' = W!Finalized
      BY DEF W!PreflightRefuses, W!Slots, W!Visible, W!Refused, W!Owned, W!Finalized, W!given
    <2>. QED
      BY <2>1 DEF VerifyInv, HandoffInv
  <1>5. GrantInv'
    BY DEF VerifyInv, GrantInv, W!HandoffIsCurrent, Before, W!given, W!wire
  <1>6. RecordInv'
    BY DEF VerifyInv, RecordInv, Before, W!AllPassed, W!given, W!timing
  <1>. QED
    BY <1>1, <1>3, <1>4, <1>5, <1>6 DEF VerifyInv

(* A verdict that is true of what was asked.                               *)
LEMMA VerdictStep ==
    ASSUME W!VerifyAssumption, VerifyInv, pc \in {"job", "checking"},
           NEW v \in {"error", "skipped", "refused", "passed", "failed"}, W!Verdict(v),
           v = "refused" => edited \/ ~bound \/ adhoc,
           v = "passed" => checks # <<>> /\ next = Len(checks) + 1 /\ W!AllPassed
    PROVE  VerifyInv'
  <1>. USE DEF W!Verdict
  <1>1. GivenInv' /\ ChecksInv' /\ BudgetInv'
    BY NothingAsked DEF Before
  <1>2. W!TypeOK'
    BY StaysTyped DEF VerifyInv, W!TypeOK, Value, Before
  <1>3. HandoffInv'
    BY DEF VerifyInv, HandoffInv, W!Finalized, W!given
  <1>4. GrantInv'
    BY DEF VerifyInv, GrantInv, W!HandoffIsCurrent, Before, W!given, W!wire
  <1>5. RecordInv'
    BY DEF VerifyInv, RecordInv, Before, W!AllPassed, W!given, W!timing
  <1>. QED
    BY <1>1, <1>2, <1>3, <1>4, <1>5 DEF VerifyInv

(* What the preflight let through, verify lets through.                    *)
LEMMA PreflightAnticipates ==
    ASSUME ~W!PreflightRefuses, bound, ~adhoc PROVE W!Authorizes
  <1>1. CASE W!Slots(checks) = {}
    BY <1>1 DEF W!Authorizes
  <1>2. CASE W!Slots(checks) # {}
    <2>1. W!Visible /\ \A s \in W!Slots(checks) : ~W!Refused(s, allow)
      BY <1>2 DEF W!PreflightRefuses
    <2>2. ASSUME NEW s \in W!Slots(checks) PROVE W!Approved(s, allow)
      BY <2>1 DEF W!Refused, W!Approved, W!Visible
    <2>. QED
      BY <2>1, <2>2 DEF W!Authorizes
  <1>. QED
    BY <1>1, <1>2

LEMMA UnaskedVerdicts ==
    ASSUME W!VerifyAssumption, VerifyInv, W!NoFinalizedBundle \/ W!Skip \/ W!RefuseSlots
    PROVE  VerifyInv'
  <1>1. CASE W!NoFinalizedBundle
    BY <1>1, VerdictStep DEF W!NoFinalizedBundle
  <1>2. CASE W!Skip
    BY <1>2, VerdictStep DEF W!Skip, W!NothingDeclared
  <1>3. CASE W!RefuseSlots
    <2>1. edited \/ ~bound \/ adhoc
      BY <1>3, PreflightAnticipates DEF W!RefuseSlots, VerifyInv, HandoffInv, GivenInv
    <2>. QED
      BY <1>3, <2>1, VerdictStep DEF W!RefuseSlots
  <1>. QED
    BY <1>1, <1>2, <1>3

LEMMA ReportStep == ASSUME W!VerifyAssumption, VerifyInv, W!Report PROVE VerifyInv'
  <1>1. next = Len(checks) + 1 /\ checks # <<>>
    BY DeadlineIs DEF W!Report, VerifyInv, ChecksInv, RecordInv
  <1>2. CASE W!AllPassed
    BY <1>1, <1>2, VerdictStep DEF W!Report
  <1>3. CASE ~W!AllPassed
    BY <1>1, <1>3, VerdictStep DEF W!Report
  <1>. QED
    BY <1>2, <1>3

LEMMA AuthorizeStep == ASSUME W!VerifyAssumption, VerifyInv, W!Authorize PROVE VerifyInv'
  <1>. USE DEF W!Authorize
  <1>1. GivenInv' /\ ChecksInv' /\ BudgetInv'
    BY NothingAsked DEF Before
  <1>. DEFINE D == W!Slots(checks) \cap DOMAIN handoff
  <1>2. handoff = W!Finalized /\ DOMAIN handoff = brokered /\ \A s \in brokered : handoff[s] = served[s]
    BY DEF VerifyInv, HandoffInv, W!Finalized
  <1>3. brokered \in SUBSET Slot /\ D \in SUBSET Slot
    BY <1>2, DeadlineIs DEF VerifyInv, GivenInv
  <1>4. granted' \in [D -> Value] /\ \A s \in D : granted'[s] = served[s]
    BY <1>2, <1>3 DEF VerifyInv, W!TypeOK, Value
  <1>5. D \subseteq allow \cap labelled \cap brokered
    BY <1>2 DEF W!Authorizes, W!Approved
  <1>. HIDE DEF D
  <1>6. W!TypeOK'
    <2>1. granted' \in UNION {[d -> Value] : d \in SUBSET Slot}
      BY <1>3, <1>4
    <2>. QED
      BY <2>1, StaysTyped DEF VerifyInv, W!TypeOK, Value, Before
  <1>7. HandoffInv'
    BY DEF VerifyInv, HandoffInv, W!Finalized, W!given
  <1>8. GrantInv'
    <2>1. DOMAIN granted' = D
      BY <1>4
    <2>2. sent = {} /\ sent' = sent
      BY DEF VerifyInv, ChecksInv, Before, W!wire
    <2>. QED
      BY <1>4, <1>5, <2>1, <2>2 DEF GrantInv, W!HandoffIsCurrent, Before, W!given
  <1>9. RecordInv'
    BY DEF VerifyInv, RecordInv, Before, W!AllPassed, W!NothingDeclared, W!given, W!timing
  <1>. QED
    BY <1>1, <1>6, <1>7, <1>8, <1>9 DEF VerifyInv

LEMMA RecordPromotionStep == ASSUME W!VerifyAssumption, VerifyInv, W!RecordPromotion PROVE VerifyInv'
  <1>. USE DEF W!RecordPromotion
  <1>1. GivenInv' /\ ChecksInv' /\ BudgetInv'
    BY NothingAsked DEF Before
  <1>2. W!TypeOK'
    BY StaysTyped DEF VerifyInv, W!TypeOK, Value, Before
  <1>3. HandoffInv'
    BY DEF VerifyInv, HandoffInv, W!Finalized, W!given
  <1>4. GrantInv'
    BY DEF VerifyInv, GrantInv, W!HandoffIsCurrent, Before, W!given, W!wire
  <1>5. RecordInv'
    BY DEF VerifyInv, RecordInv, Before, W!AllPassed, W!given, W!timing
  <1>. QED
    BY <1>1, <1>2, <1>3, <1>4, <1>5 DEF VerifyInv
-----------------------------------------------------------------------------
(* The checks.                                                             *)

LEMMA RunningCheck ==
    ASSUME W!VerifyAssumption, VerifyInv, W!Running
    PROVE  /\ next \in 1 .. Len(checks) /\ next \in DOMAIN checks /\ DOMAIN checks = 1 .. Len(checks)
           /\ Len(checks) \in Nat /\ W!Check \in W!SmokeCheck /\ tries \in Nat /\ tries < W!Check.attempts
           /\ pc = "checking" /\ results \in Seq(W!Outcome) /\ next = Len(results) + 1
           /\ clock \in Nat /\ overhead \in Nat /\ MaxOverhead \in Nat /\ Grace \in Nat
           /\ W!Check.timeout \in Nat /\ W!Check.attempts \in Nat \ {0}
  <1>1. /\ checks \in Seq(W!SmokeCheck) /\ Len(checks) \in Nat /\ W!Deadline \in Nat
        /\ Grace \in Nat /\ MaxOverhead \in Nat
    BY DeadlineIs DEF VerifyInv
  <1>2. next \in 1 .. Len(checks)
    BY <1>1 DEF W!Running, VerifyInv, ChecksInv
  <1>3. W!Check \in W!SmokeCheck
    BY <1>1, <1>2 DEF W!Check
  <1>4. W!Check.timeout \in Nat /\ W!Check.attempts \in Nat \ {0}
    BY <1>3 DEF W!SmokeCheck
  <1>5. tries \in Nat /\ tries < W!Check.attempts
    <2>1. tries \in Nat
      BY DEF VerifyInv, W!TypeOK
    <2>2. tries # 0 => tries < checks[next].attempts
      BY DEF VerifyInv, ChecksInv
    <2>. QED
      BY <1>4, <2>1, <2>2 DEF W!Check
  <1>6. clock \in Nat /\ overhead \in Nat
    BY <1>1 DEF VerifyInv, W!TypeOK
  <1>7. results \in Seq(W!Outcome) /\ next = Len(results) + 1
    BY DEF VerifyInv, W!TypeOK
  <1>. QED
    BY <1>1, <1>2, <1>3, <1>4, <1>5, <1>6, <1>7 DEF W!Running

(* The time an attempt leaves the budget with.                             *)
LEMMA TimeLeft ==
    ASSUME W!VerifyAssumption, VerifyInv, W!Running
    PROVE  /\ clock - overhead <= W!WorstCases(checks)[next - 1] + Attempts(W!Check, tries)
           /\ \A d \in 0 .. W!Check.timeout :
                 clock - overhead + W!Backoff(W!Check, tries) + d
                     <= W!WorstCases(checks)[next - 1] + Attempts(W!Check, tries + 1)
           /\ W!WorstCases(checks)[next - 1] + Attempts(W!Check, tries + 1) <= W!WorstCases(checks)[next]
           /\ W!WorstCases(checks)[next] <= W!WorstCaseOf(checks)
           /\ W!WorstCases(checks)[next - 1] \in Nat /\ W!WorstCases(checks)[next] \in Nat
           /\ W!WorstCases(checks)[next - 1] < W!WorstCaseOf(checks)
           /\ Attempts(W!Check, tries) \in Nat /\ Attempts(W!Check, tries + 1) \in Nat
           /\ Attempts(W!Check, tries) <= Attempts(W!Check, tries + 1)
           /\ W!Backoff(W!Check, tries) \in Nat
  <1>1. /\ next \in 1 .. Len(checks) /\ W!Check \in W!SmokeCheck /\ tries \in Nat /\ tries < W!Check.attempts
        /\ W!Check.timeout \in Nat /\ W!Check.attempts \in Nat /\ clock \in Nat /\ overhead \in Nat
        /\ Len(checks) \in Nat
    BY RunningCheck
  <1>2. checks \in Seq(W!SmokeCheck)
    BY DeadlineIs DEF VerifyInv
  <1>3. clock - overhead <= W!WorstCases(checks)[next - 1] + Attempts(W!Check, tries)
    BY <1>1 DEF VerifyInv, BudgetInv, Spent, W!Check
  <1>4. W!WorstCases(checks)[next] = W!WorstCases(checks)[next - 1] + W!WorstCase(W!Check)
    BY <1>1, <1>2, Sums DEF W!Check
  <1>5. /\ Attempts(W!Check, tries) \in Nat /\ Attempts(W!Check, tries + 1) \in Nat
        /\ Attempts(W!Check, tries + 1) = Attempts(W!Check, tries) + W!Check.timeout + W!Backoff(W!Check, tries)
        /\ W!Backoff(W!Check, tries) \in Nat
    <2>1. tries + 1 \in Nat
      BY <1>1
    <2>. QED
      BY <1>1, <2>1, AttemptsStep
  <1>6. Attempts(W!Check, tries + 1) <= W!WorstCase(W!Check) /\ W!WorstCase(W!Check) \in Nat
    <2>1. tries + 1 \in Nat /\ tries + 1 <= W!Check.attempts
      BY <1>1
    <2>. QED
      BY <1>1, <2>1, AttemptsGrow, WorstCaseIs
  <1>7. /\ W!WorstCases(checks)[next - 1] \in Nat /\ W!WorstCases(checks)[next] \in Nat
        /\ W!WorstCases(checks)[next - 1] < W!WorstCaseOf(checks)
        /\ W!WorstCases(checks)[next] <= W!WorstCaseOf(checks)
    <2>1. next - 1 \in 0 .. Len(checks) /\ next - 1 < Len(checks) /\ next \in 0 .. Len(checks)
      BY <1>1
    <2>. QED
      BY <1>2, <2>1, SumsGrow
  <1>. HIDE DEF Attempts, W!Backoff, W!Check
  <1>8. \A d \in 0 .. W!Check.timeout :
           clock - overhead + W!Backoff(W!Check, tries) + d
               <= W!WorstCases(checks)[next - 1] + Attempts(W!Check, tries + 1)
    <2>. TAKE d \in 0 .. W!Check.timeout
    <2>1. clock - overhead \in Int
      BY <1>1
    <2>2. ASSUME NEW x \in Int, NEW w \in Nat, NEW a \in Nat, NEW b \in Nat, x <= w + a
          PROVE  x + b + d <= w + (a + W!Check.timeout + b)
      BY <1>1, <2>2
    <2>. QED
      BY <1>3, <1>5, <1>7, <2>1, <2>2
  <1>9. W!WorstCases(checks)[next - 1] + Attempts(W!Check, tries + 1) <= W!WorstCases(checks)[next]
    <2>1. ASSUME NEW w \in Nat, NEW a \in Nat, NEW c \in Nat, a <= c PROVE w + a <= w + c
      BY <2>1
    <2>. QED
      BY <1>4, <1>5, <1>6, <1>7, <2>1
  <1>10. Attempts(W!Check, tries) <= Attempts(W!Check, tries + 1)
    <2>1. ASSUME NEW a \in Nat, NEW b \in Nat PROVE a <= a + W!Check.timeout + b
      BY <1>1
    <2>. QED
      BY <1>5, <2>1
  <1>. QED
    BY <1>3, <1>5, <1>7, <1>8, <1>9, <1>10

Untouched ==
    UNCHANGED <<W!given, allow, edited, handoff, served, pc, applied, granted, record>>

(* What a step of a check leaves alone.                                    *)
LEMMA OthersKept ==
    ASSUME W!VerifyAssumption, VerifyInv, W!Running, Untouched, sent' \subseteq DOMAIN granted
    PROVE  /\ GivenInv' /\ HandoffInv' /\ GrantInv'
           /\ W!Deadline' = W!Deadline /\ W!WorstCases(checks)' = W!WorstCases(checks)
  <1>. USE DEF Untouched, W!given
  <1>1. GivenInv'
    BY DEF VerifyInv, GivenInv
  <1>2. HandoffInv'
    BY DEF VerifyInv, HandoffInv, W!Finalized, W!Running
  <1>3. GrantInv'
    BY DEF VerifyInv, GrantInv, W!HandoffIsCurrent, W!Running, Before
  <1>4. W!Deadline' = W!Deadline /\ W!WorstCases(checks)' = W!WorstCases(checks)
    BY DEF W!Deadline
  <1>. QED
    BY <1>1, <1>2, <1>3, <1>4

(* The check ends: it passed only with the answer it declares, and it is   *)
(* late only when the scheduler took more than the grace.                  *)
LEMMA FinishStep ==
    ASSUME W!VerifyAssumption, VerifyInv, W!Running, Untouched,
           NEW o \in W!Outcome, W!Finish(o), NEW acted \in {0, 1},
           effects' = [effects EXCEPT ![next] = @ + acted],
           answered' = answered \/ \E a \in {"200", "401", "502"} :
                                      answered' = [answered EXCEPT ![next] = a],
           o = "passed" => answered'[next] = W!Check.expect /\ W!Resolves,
           sent' \subseteq DOMAIN granted,
           clock' \in 0 .. W!Deadline, overhead' \in overhead .. MaxOverhead,
           clock' - overhead' <= W!WorstCases(checks)[next],
           o = "late" => overhead' > Grace
    PROVE  VerifyInv'
  <1>0. /\ next \in 1 .. Len(checks) /\ next \in DOMAIN checks /\ DOMAIN checks = 1 .. Len(checks)
        /\ Len(checks) \in Nat /\ results \in Seq(W!Outcome) /\ next = Len(results) + 1
        /\ overhead \in Nat /\ MaxOverhead \in Nat /\ Grace \in Nat /\ pc = "checking"
    BY RunningCheck
  <1>1. /\ GivenInv' /\ HandoffInv' /\ GrantInv'
        /\ W!Deadline' = W!Deadline /\ W!WorstCases(checks)' = W!WorstCases(checks) /\ checks' = checks
    BY OthersKept DEF Untouched, W!given
  <1>2. /\ next' = next + 1 /\ tries' = 0 /\ results' = Append(results, o)
        /\ results' \in Seq(W!Outcome) /\ next' = Len(results') + 1
        /\ DOMAIN results' = 1 .. next /\ results'[next] = o
        /\ \A i \in 1 .. next : i # next => i \in DOMAIN results /\ results'[i] = results[i]
    BY <1>0 DEF W!Finish
  <1>3. W!TypeOK'
    <2>1. clock' \in 0 .. W!Deadline' /\ overhead' \in 0 .. MaxOverhead
      BY <1>0, <1>1
    <2>2. sent' \subseteq Slot
      BY DEF VerifyInv, W!TypeOK, GrantInv
    <2>. QED
      BY <1>1, <1>2, <2>1, <2>2 DEF VerifyInv, W!TypeOK, Untouched
  <1>4. ChecksInv'
    <2>1. answered' \in [DOMAIN checks -> {"none", "200", "401", "502"}]
      <3>1. answered \in [DOMAIN checks -> {"none", "200", "401", "502"}]
        BY DEF VerifyInv, ChecksInv
      <3>2. \A a \in {"200", "401", "502"} :
               [answered EXCEPT ![next] = a] \in [DOMAIN checks -> {"none", "200", "401", "502"}]
        BY <3>1
      <3>. QED
        BY <3>1, <3>2
    <2>2. \A i \in DOMAIN checks : i # next => answered'[i] = answered[i] /\ effects'[i] = effects[i]
      BY DEF VerifyInv, ChecksInv
    <2>3. effects' \in [DOMAIN checks -> Nat] /\ effects'[next] = effects[next] + acted
      <3>1. effects \in [DOMAIN checks -> Nat]
        BY DEF VerifyInv, ChecksInv
      <3>2. effects[next] + acted \in Nat
        BY <1>0, <3>1
      <3>. QED
        BY <1>0, <3>1, <3>2
    <2>4. \A i \in DOMAIN results' :
             results'[i] = "passed" =>
                 /\ answered'[i] = checks[i].expect
                 /\ checks[i].slot # W!NoSlot => checks[i].slot \in DOMAIN granted
      <3>1. o = "passed" =>
               /\ answered'[next] = checks[next].expect
               /\ checks[next].slot # W!NoSlot => checks[next].slot \in DOMAIN granted
        BY DEF W!Resolves, W!Check
      <3>2. ASSUME NEW i \in 1 .. next, i # next, results'[i] = "passed"
            PROVE  /\ answered'[i] = checks[i].expect
                   /\ checks[i].slot # W!NoSlot => checks[i].slot \in DOMAIN granted
        <4>1. i \in DOMAIN results /\ results[i] = "passed" /\ i \in DOMAIN checks
          BY <1>0, <1>2, <3>2
        <4>. QED
          BY <2>2, <3>2, <4>1 DEF VerifyInv, ChecksInv
      <3>. QED
        BY <1>2, <3>1, <3>2
    <2>5. \A i \in DOMAIN checks :
             UnsafeToReplay(checks[i]) => effects'[i] <= 1 /\ (i >= next + 1 => effects'[i] = 0)
      <3>1. \A i \in DOMAIN checks : UnsafeToReplay(checks[i]) =>
               effects[i] <= 1 /\ (i >= next => effects[i] = 0)
        BY DEF VerifyInv, ChecksInv
      <3>2. UnsafeToReplay(checks[next]) => effects'[next] = acted
        BY <1>0, <2>3, <3>1
      <3>3. ASSUME NEW i \in DOMAIN checks, UnsafeToReplay(checks[i])
            PROVE  effects'[i] <= 1 /\ (i >= next + 1 => effects'[i] = 0)
        <4>1. CASE i = next
          BY <1>0, <3>2, <3>3, <4>1
        <4>2. CASE i # next
          BY <1>0, <2>2, <3>1, <3>3, <4>2
        <4>. QED
          BY <4>1, <4>2
      <3>. QED
        BY <3>3
    <2>6. next' \in 1 .. Len(checks) + 1
      BY <1>0, <1>2
    <2>. QED
      BY <1>0, <1>1, <1>2, <2>1, <2>3, <2>4, <2>5, <2>6 DEF ChecksInv, Before, Untouched
  <1>5. RecordInv'
    BY <1>0 DEF VerifyInv, RecordInv, Before, Untouched, W!given
  <1>6. BudgetInv'
    <2>1. checks \in Seq(W!SmokeCheck)
      BY DeadlineIs DEF VerifyInv
    <2>2. next + 1 <= Len(checks) => Attempts(checks[next + 1], 0) = 0
      <3>1. next + 1 <= Len(checks) => checks[next + 1] \in W!SmokeCheck
        BY <1>0, <2>1
      <3>. QED
        BY <3>1, AttemptsStep
    <2>3. W!WorstCases(checks)[next] \in Nat
      BY <1>0, <2>1, SumsGrow
    <2>4. Spent' = W!WorstCases(checks)[next]
      <3>1. (next + 1) - 1 = next
        BY <1>0
      <3>2. Spent' = W!WorstCases(checks)[(next + 1) - 1]
                       + (IF next + 1 <= Len(checks) THEN Attempts(checks[next + 1], 0) ELSE 0)
        BY <1>1, <1>2 DEF Spent
      <3>. QED
        BY <2>2, <2>3, <3>1, <3>2
    <2>5. W!BudgetCoversChecks'
      BY <1>0, <1>2 DEF VerifyInv, BudgetInv, W!BudgetCoversChecks
    <2>. QED
      BY <2>4, <2>5 DEF BudgetInv
  <1>. QED
    BY <1>1, <1>3, <1>4, <1>5, <1>6 DEF VerifyInv

(* Another attempt, which cannot make an unsafe request act twice.         *)
LEMMA AgainStep ==
    ASSUME W!VerifyAssumption, VerifyInv, W!Running, Untouched, answered' = answered,
           tries' = tries + 1, tries + 1 < W!Check.attempts, UNCHANGED <<next, results>>,
           NEW acted \in {0, 1}, effects' = [effects EXCEPT ![next] = @ + acted],
           acted = 0 \/ W!ReplaysAmbiguous(W!Check),
           sent' \subseteq DOMAIN granted,
           clock' \in 0 .. W!Deadline, overhead' \in overhead .. MaxOverhead,
           clock' - overhead' <= W!WorstCases(checks)[next - 1] + Attempts(W!Check, tries + 1)
    PROVE  VerifyInv'
  <1>0. /\ next \in 1 .. Len(checks) /\ next \in DOMAIN checks /\ DOMAIN checks = 1 .. Len(checks)
        /\ Len(checks) \in Nat /\ tries \in Nat
        /\ overhead \in Nat /\ MaxOverhead \in Nat /\ Grace \in Nat /\ pc = "checking"
    BY RunningCheck
  <1>1. /\ GivenInv' /\ HandoffInv' /\ GrantInv'
        /\ W!Deadline' = W!Deadline /\ W!WorstCases(checks)' = W!WorstCases(checks) /\ checks' = checks
    BY OthersKept DEF Untouched, W!given
  <1>2. W!TypeOK'
    <2>1. clock' \in 0 .. W!Deadline' /\ overhead' \in 0 .. MaxOverhead /\ tries' \in Nat
      BY <1>0, <1>1
    <2>2. sent' \subseteq Slot
      BY DEF VerifyInv, W!TypeOK, GrantInv
    <2>. QED
      BY <1>1, <2>1, <2>2 DEF VerifyInv, W!TypeOK, Untouched
  <1>3. ChecksInv'
    <2>1. effects' \in [DOMAIN checks -> Nat] /\ effects'[next] = effects[next] + acted
      <3>1. effects \in [DOMAIN checks -> Nat]
        BY DEF VerifyInv, ChecksInv
      <3>2. effects[next] + acted \in Nat
        BY <1>0, <3>1
      <3>. QED
        BY <1>0, <3>1, <3>2
    <2>2. \A i \in DOMAIN checks : i # next => effects'[i] = effects[i]
      BY DEF VerifyInv, ChecksInv
    <2>3. UnsafeToReplay(checks[next]) => acted = 0
      BY DEF UnsafeToReplay, W!ReplaysAmbiguous, W!Idempotent, W!Check
    <2>4. \A i \in DOMAIN checks : UnsafeToReplay(checks[i]) => effects'[i] = effects[i]
      <3>1. UnsafeToReplay(checks[next]) => effects'[next] = effects[next]
        BY <1>0, <2>1, <2>3 DEF VerifyInv, ChecksInv
      <3>. QED
        BY <2>2, <3>1
    <2>5. tries' < checks[next].attempts
      BY DEF W!Check
    <2>6. \A i \in DOMAIN checks :
             UnsafeToReplay(checks[i]) => effects'[i] <= 1 /\ (i >= next => effects'[i] = 0)
      BY <2>4 DEF VerifyInv, ChecksInv
    <2>7. \A i \in DOMAIN results :
             results[i] = "passed" =>
                 /\ answered[i] = checks[i].expect
                 /\ checks[i].slot # W!NoSlot => checks[i].slot \in DOMAIN granted
      BY DEF VerifyInv, ChecksInv
    <2>8. answered \in [DOMAIN checks -> {"none", "200", "401", "502"}]
      BY DEF VerifyInv, ChecksInv
    <2>9. next \in 1 .. Len(checks) + 1 /\ next <= Len(checks)
      BY <1>0
    <2>. QED
      BY <1>0, <1>1, <2>1, <2>5, <2>6, <2>7, <2>8, <2>9 DEF ChecksInv, Before, Untouched
  <1>4. RecordInv'
    BY <1>0 DEF VerifyInv, RecordInv, Before, Untouched, W!given
  <1>5. BudgetInv'
    <2>1. Spent' = W!WorstCases(checks)[next - 1] + Attempts(W!Check, tries + 1)
      BY <1>0, <1>1 DEF Spent, W!Check
    <2>2. W!BudgetCoversChecks'
      BY <1>0 DEF VerifyInv, BudgetInv, W!BudgetCoversChecks
    <2>. QED
      BY <2>1, <2>2 DEF BudgetInv
  <1>. QED
    BY <1>1, <1>2, <1>3, <1>4, <1>5 DEF VerifyInv
LEMMA NotRunStep == ASSUME W!VerifyAssumption, VerifyInv, W!NotRun PROVE VerifyInv'
  <1>. USE DEF W!NotRun
  <1>. DEFINE o == IF W!Past THEN "late" ELSE "unreachable"
  <1>0. /\ W!Running /\ Untouched /\ W!Finish(o) /\ o \in W!Outcome /\ o # "passed"
        /\ clock' = clock /\ overhead' = overhead /\ tries = 0
        /\ sent' = sent /\ effects' = effects /\ answered' = answered
    BY DEF Untouched, W!wire, W!Outcome
  <1>1. /\ clock \in Nat /\ overhead \in Nat /\ MaxOverhead \in Nat /\ Grace \in Nat
        /\ next \in DOMAIN checks /\ W!Check \in W!SmokeCheck
    BY <1>0, RunningCheck
  <1>2. clock' \in 0 .. W!Deadline /\ overhead' \in overhead .. MaxOverhead
    BY <1>0, <1>1 DEF VerifyInv, W!TypeOK
  <1>3. effects' = [effects EXCEPT ![next] = @ + 0]
    <2>1. effects \in [DOMAIN checks -> Nat]
      BY DEF VerifyInv, ChecksInv
    <2>2. effects[next] + 0 = effects[next]
      BY <1>1, <2>1
    <2>. QED
      BY <1>0, <1>1, <2>1, <2>2
  <1>4. sent' \subseteq DOMAIN granted
    BY <1>0 DEF VerifyInv, GrantInv
  <1>5. /\ clock - overhead <= W!WorstCases(checks)[next - 1] + Attempts(W!Check, tries)
        /\ W!WorstCases(checks)[next - 1] + Attempts(W!Check, tries + 1) <= W!WorstCases(checks)[next]
        /\ Attempts(W!Check, tries) <= Attempts(W!Check, tries + 1)
        /\ W!WorstCases(checks)[next - 1] < W!WorstCaseOf(checks)
        /\ Attempts(W!Check, tries) \in Nat /\ Attempts(W!Check, tries + 1) \in Nat
        /\ W!WorstCases(checks)[next - 1] \in Nat /\ W!WorstCases(checks)[next] \in Nat
    BY <1>0, TimeLeft
  <1>6. clock' - overhead' <= W!WorstCases(checks)[next]
    <2>1. ASSUME NEW x \in Int, NEW w \in Nat, NEW a \in Nat, NEW b \in Nat, NEW v \in Nat,
                 x <= w + a, a <= b, w + b <= v
          PROVE  x <= v
      BY <2>1
    <2>2. clock - overhead \in Int
      BY <1>1
    <2>. QED
      BY <1>0, <1>5, <2>1, <2>2
  <1>7. ASSUME W!Past PROVE overhead' > Grace
    <2>1. Attempts(W!Check, 0) = 0
      BY <1>1, AttemptsStep
    <2>2. W!Deadline = W!WorstCaseOf(checks) + Grace /\ W!WorstCaseOf(checks) \in Nat
      BY DeadlineIs DEF VerifyInv
    <2>3. clock - overhead <= W!WorstCases(checks)[next - 1]
      BY <1>0, <1>5, <2>1
    <2>. QED
      BY <1>0, <1>1, <1>5, <1>7, <2>2, <2>3 DEF W!Past
  <1>8. o = "late" => overhead' > Grace
    BY <1>7
  <1>. HIDE DEF o
  <1>. QED
    BY <1>0, <1>2, <1>3, <1>4, <1>6, <1>8, FinishStep

(* An attempt within the deadline.                                         *)
LEMMA InTimeLeft ==
    ASSUME W!VerifyAssumption, VerifyInv, W!Running, NEW d \in 0 .. W!Check.timeout,
           NEW o \in 0 .. (MaxOverhead - overhead), W!InTime(d, o),
           clock' = W!Elapsed(d, o), overhead' = overhead + o
    PROVE  /\ clock' \in 0 .. W!Deadline /\ overhead' \in overhead .. MaxOverhead
           /\ clock' - overhead' <= W!WorstCases(checks)[next - 1] + Attempts(W!Check, tries + 1)
           /\ clock' - overhead' <= W!WorstCases(checks)[next]
  <1>1. /\ clock \in Nat /\ overhead \in Nat /\ MaxOverhead \in Nat /\ W!Check.timeout \in Nat
        /\ W!Deadline \in Nat
    BY RunningCheck, DeadlineIs DEF VerifyInv
  <1>2. /\ clock - overhead + W!Backoff(W!Check, tries) + d
               <= W!WorstCases(checks)[next - 1] + Attempts(W!Check, tries + 1)
        /\ W!WorstCases(checks)[next - 1] + Attempts(W!Check, tries + 1) <= W!WorstCases(checks)[next]
        /\ W!Backoff(W!Check, tries) \in Nat /\ Attempts(W!Check, tries + 1) \in Nat
        /\ W!WorstCases(checks)[next - 1] \in Nat /\ W!WorstCases(checks)[next] \in Nat
    BY TimeLeft
  <1>3. clock' = clock + W!Backoff(W!Check, tries) + d + o /\ clock' <= W!Deadline
    BY DEF W!Elapsed, W!InTime
  <1>. HIDE DEF W!Backoff, Attempts, W!WorstCases, W!Check
  <1>4. clock' \in 0 .. W!Deadline /\ overhead' \in overhead .. MaxOverhead
    BY <1>1, <1>2, <1>3
  <1>5. clock' - overhead' = clock - overhead + W!Backoff(W!Check, tries) + d
    BY <1>1, <1>2, <1>3
  <1>6. W!WorstCases(checks)[next - 1] + Attempts(W!Check, tries + 1) \in Nat /\ clock' - overhead' \in Int
    BY <1>1, <1>2, <1>4
  <1>. QED
    BY <1>2, <1>4, <1>5, <1>6

(* What the endpoint sees is nothing but a granted slot.                   *)
LEMMA Observed ==
    ASSUME VerifyInv, NEW acted \in {0, 1}, W!Observe(acted)
    PROVE  sent' \subseteq DOMAIN granted /\ effects' = [effects EXCEPT ![next] = @ + acted]
  BY DEF W!Observe, VerifyInv, GrantInv

LEMMA NoEffect ==
    ASSUME W!VerifyAssumption, VerifyInv, W!Running, UNCHANGED W!wire
    PROVE  /\ sent' \subseteq DOMAIN granted /\ effects' = [effects EXCEPT ![next] = @ + 0]
           /\ answered' = answered
  <1>1. effects \in [DOMAIN checks -> Nat] /\ next \in DOMAIN checks
    BY RunningCheck DEF VerifyInv, ChecksInv
  <1>2. effects[next] + 0 = effects[next]
    BY <1>1
  <1>. QED
    BY <1>1, <1>2 DEF W!wire, VerifyInv, GrantInv

LEMMA AnsweredStep ==
    ASSUME W!VerifyAssumption, VerifyInv, W!Running, NEW d \in 0 .. W!Check.timeout,
           NEW o \in 0 .. (MaxOverhead - overhead), W!Answered(d, o)
    PROVE  VerifyInv'
  <1>. USE DEF W!Answered
  <1>1. PICK status \in W!Answers(W!Check) :
          /\ W!Observe(IF status = "200" THEN 1 ELSE 0)
          /\ answered' = [answered EXCEPT ![next] = status]
          /\ W!Finish(IF status = W!Check.expect THEN "passed" ELSE "unexpected")
    OBVIOUS
  <1>. DEFINE r == IF status = W!Check.expect THEN "passed" ELSE "unexpected"
              acted == IF status = "200" THEN 1 ELSE 0
  <1>2. status \in {"200", "401", "502"} /\ r \in W!Outcome /\ acted \in {0, 1}
    BY DEF W!Answers, W!Outcome
  <1>3. /\ clock' \in 0 .. W!Deadline /\ overhead' \in overhead .. MaxOverhead
        /\ clock' - overhead' <= W!WorstCases(checks)[next]
    BY InTimeLeft
  <1>4. r = "passed" => answered'[next] = W!Check.expect /\ W!Resolves
    BY <1>1, RunningCheck DEF W!MayAttempt, VerifyInv, ChecksInv
  <1>5. Untouched /\ W!Finish(r) /\ W!Observe(acted) /\ r # "late"
    BY <1>1 DEF Untouched
  <1>6. \E a \in {"200", "401", "502"} : answered' = [answered EXCEPT ![next] = a]
    BY <1>1, <1>2
  <1>. HIDE DEF r, acted
  <1>7. sent' \subseteq DOMAIN granted /\ effects' = [effects EXCEPT ![next] = @ + acted]
    BY <1>2, <1>5, Observed
  <1>. QED
    BY <1>2, <1>3, <1>4, <1>5, <1>6, <1>7, FinishStep

(* Both ends of an attempt that failed.                                    *)
LEMMA FailedAttempt ==
    ASSUME W!VerifyAssumption, VerifyInv, W!MayAttempt, Untouched, answered' = answered,
           NEW d \in 0 .. W!Check.timeout, NEW o \in 0 .. (MaxOverhead - overhead),
           W!InTime(d, o), clock' = W!Elapsed(d, o), overhead' = overhead + o,
           NEW acted \in {0, 1}, effects' = [effects EXCEPT ![next] = @ + acted],
           sent' \subseteq DOMAIN granted,
           NEW retry \in BOOLEAN, retry => acted = 0 \/ W!ReplaysAmbiguous(W!Check),
           NEW r \in {"timedout", "unreachable"}, W!Again(retry, r)
    PROVE  VerifyInv'
  <1>0. W!Running
    BY DEF W!MayAttempt
  <1>1. /\ clock' \in 0 .. W!Deadline /\ overhead' \in overhead .. MaxOverhead
        /\ clock' - overhead' <= W!WorstCases(checks)[next - 1] + Attempts(W!Check, tries + 1)
        /\ clock' - overhead' <= W!WorstCases(checks)[next]
    BY <1>0, InTimeLeft
  <1>2. CASE retry /\ tries + 1 < W!Check.attempts
    <2>1. tries' = tries + 1 /\ UNCHANGED <<next, results>>
      BY <1>2 DEF W!Again
    <2>. QED
      BY <1>0, <1>1, <1>2, <2>1, AgainStep
  <1>3. CASE ~(retry /\ tries + 1 < W!Check.attempts)
    <2>1. W!Finish(r) /\ r \in W!Outcome /\ r # "passed" /\ r # "late"
      BY <1>3 DEF W!Again, W!Outcome
    <2>. QED
      BY <1>0, <1>1, <2>1, FinishStep
  <1>. QED
    BY <1>2, <1>3

LEMMA NotConnectedStep ==
    ASSUME W!VerifyAssumption, VerifyInv, NEW d \in 0 .. W!Check.timeout,
           NEW o \in 0 .. (MaxOverhead - overhead), W!NotConnected(d, o)
    PROVE  VerifyInv'
  <1>1. /\ W!MayAttempt /\ W!Running /\ Untouched /\ UNCHANGED W!wire /\ W!InTime(d, o)
        /\ clock' = W!Elapsed(d, o) /\ overhead' = overhead + o /\ W!Again(TRUE, "unreachable")
    BY DEF W!NotConnected, W!MayAttempt, Untouched
  <1>2. /\ sent' \subseteq DOMAIN granted /\ effects' = [effects EXCEPT ![next] = @ + 0]
        /\ answered' = answered
    BY <1>1, NoEffect
  <1>. QED
    BY <1>1, <1>2, FailedAttempt

LEMMA AmbiguousStep ==
    ASSUME W!VerifyAssumption, VerifyInv, NEW d \in 0 .. W!Check.timeout,
           NEW o \in 0 .. (MaxOverhead - overhead), W!Ambiguous(d, o)
    PROVE  VerifyInv'
  <1>. DEFINE retry == W!ReplaysAmbiguous(W!Check)
              r == IF d = W!Check.timeout THEN "timedout" ELSE "unreachable"
  <1>1. /\ W!MayAttempt /\ W!Running /\ Untouched /\ W!InTime(d, o) /\ answered' = answered
        /\ clock' = W!Elapsed(d, o) /\ overhead' = overhead + o /\ W!Again(retry, r)
        /\ \E acted \in 0..1 : W!Observe(acted)
    BY DEF W!Ambiguous, W!MayAttempt, Untouched
  <1>2. PICK acted \in {0, 1} : W!Observe(acted)
    BY <1>1
  <1>3. sent' \subseteq DOMAIN granted /\ effects' = [effects EXCEPT ![next] = @ + acted]
    BY <1>2, Observed
  <1>4. retry \in BOOLEAN /\ r \in {"timedout", "unreachable"}
    <2>1. W!Check.replay_safe \in BOOLEAN
      BY <1>1, RunningCheck DEF W!SmokeCheck
    <2>. QED
      BY <2>1 DEF W!ReplaysAmbiguous, W!Idempotent
  <1>. HIDE DEF r
  <1>. QED
    BY <1>1, <1>3, <1>4, FailedAttempt

LEMMA InterruptStep ==
    ASSUME W!VerifyAssumption, VerifyInv, NEW d \in 0 .. W!Check.timeout,
           NEW o \in 0 .. (MaxOverhead - overhead), W!Interrupt(d, o)
    PROVE  VerifyInv'
  <1>1. /\ W!Running /\ Untouched /\ ~W!InTime(d, o) /\ answered' = answered
        /\ clock' = W!Deadline /\ overhead' = overhead + o /\ W!Finish("late")
        /\ \E acted \in 0..1 : W!Observe(acted)
    BY DEF W!Interrupt, W!MayAttempt, Untouched, W!Interrupted
  <1>2. PICK acted \in {0, 1} : W!Observe(acted)
    BY <1>1
  <1>3. sent' \subseteq DOMAIN granted /\ effects' = [effects EXCEPT ![next] = @ + acted]
    BY <1>2, Observed
  <1>4. /\ clock \in Nat /\ overhead \in Nat /\ MaxOverhead \in Nat /\ W!Check.timeout \in Nat
        /\ W!Deadline \in Nat /\ W!Deadline = W!WorstCaseOf(checks) + Grace /\ Grace \in Nat
        /\ W!WorstCaseOf(checks) \in Nat
    BY <1>1, RunningCheck, DeadlineIs DEF VerifyInv
  <1>5. /\ clock - overhead + W!Backoff(W!Check, tries) + d
               <= W!WorstCases(checks)[next - 1] + Attempts(W!Check, tries + 1)
        /\ W!WorstCases(checks)[next - 1] + Attempts(W!Check, tries + 1) <= W!WorstCases(checks)[next]
        /\ W!WorstCases(checks)[next] <= W!WorstCaseOf(checks)
        /\ W!Backoff(W!Check, tries) \in Nat /\ Attempts(W!Check, tries + 1) \in Nat
        /\ W!WorstCases(checks)[next - 1] \in Nat /\ W!WorstCases(checks)[next] \in Nat
    BY <1>1, TimeLeft
  <1>6. clock + W!Backoff(W!Check, tries) + d + o > W!Deadline
    BY <1>1, <1>4, <1>5 DEF W!InTime, W!Elapsed
  <1>. HIDE DEF W!Backoff, Attempts, W!WorstCases, W!WorstCaseOf, W!Check, W!Deadline
  <1>7. clock - overhead + W!Backoff(W!Check, tries) + d <= W!WorstCases(checks)[next]
    <2>1. W!WorstCases(checks)[next - 1] + Attempts(W!Check, tries + 1) \in Nat
      BY <1>5
    <2>2. clock - overhead + W!Backoff(W!Check, tries) + d \in Int
      BY <1>4, <1>5
    <2>. QED
      BY <1>5, <2>1, <2>2
  <1>8. clock' \in 0 .. W!Deadline /\ overhead' \in overhead .. MaxOverhead
    BY <1>1, <1>4
  <1>9. clock' - overhead' <= W!WorstCases(checks)[next]
    BY <1>1, <1>4, <1>5, <1>6, <1>7
  <1>10. overhead' > Grace
    BY <1>1, <1>4, <1>5, <1>6, <1>7
  <1>11. "late" \in W!Outcome
    BY DEF W!Outcome
  <1>. QED
    BY <1>1, <1>3, <1>8, <1>9, <1>10, <1>11, FinishStep

LEMMA VerifyStep == ASSUME W!VerifyAssumption, VerifyInv, [W!Next]_W!vars PROVE VerifyInv'
  <1>1. CASE W!EditAllowlist \/ W!StartApply \/ W!Deploy \/ W!FailApply \/ W!FinishApply
    BY <1>1, EditAllowlistStep, StartApplyStep, DeployStep, FailApplyStep, FinishApplyStep
  <1>2. CASE W!NoFinalizedBundle \/ W!Skip \/ W!RefuseSlots \/ W!Authorize \/ W!RecordPromotion
    BY <1>2, UnaskedVerdicts, AuthorizeStep, RecordPromotionStep
  <1>3. CASE W!NotRun \/ W!Report
    BY <1>3, NotRunStep, ReportStep
  <1>4. CASE W!Running /\ W!Attempt
    <2>1. PICK d \in 0 .. W!Check.timeout, o \in 0 .. (MaxOverhead - overhead) :
             W!Answered(d, o) \/ W!NotConnected(d, o) \/ W!Ambiguous(d, o) \/ W!Interrupt(d, o)
      BY <1>4 DEF W!Attempt
    <2>. QED
      BY <1>4, <2>1, AnsweredStep, NotConnectedStep, AmbiguousStep, InterruptStep
  <1>5. CASE UNCHANGED W!vars
    <2>. USE <1>5 DEF W!vars, W!given, W!timing, W!wire
    <2>1. W!TypeOK' /\ GivenInv'
      BY DEF VerifyInv, W!TypeOK, GivenInv, W!Deadline
    <2>2. HandoffInv' /\ GrantInv'
      BY DEF VerifyInv, HandoffInv, GrantInv, W!HandoffIsCurrent, W!Finalized, W!PreflightRefuses,
             W!Slots, W!Visible, W!Refused, W!Owned
    <2>3. ChecksInv' /\ RecordInv'
      BY DEF VerifyInv, ChecksInv, RecordInv, W!AllPassed
    <2>4. BudgetInv'
      BY DEF VerifyInv, BudgetInv, W!BudgetCoversChecks, Spent
    <2>. QED
      BY <2>1, <2>2, <2>3, <2>4 DEF VerifyInv
  <1>. QED
    BY <1>1, <1>2, <1>3, <1>4, <1>5 DEF W!Next, W!Verifying, W!Done

LEMMA VerifyHonest ==
    ASSUME W!VerifyAssumption, VerifyInv
    PROVE  /\ W!TypeOK /\ W!PromotionIsEarned /\ W!HandoffIsCurrent /\ W!NeverReplayed
           /\ W!SpendsOnlyProbes /\ W!RefusedBeforeChange /\ W!BudgetCoversChecks
  <1>1. W!PromotionIsEarned
    <2>. SUFFICES ASSUME record = "authorizes" PROVE W!PromotionIsEarned
      BY DEF W!PromotionIsEarned
    <2>1. applied = "success" /\ checks # <<>> /\ next = Len(checks) + 1 /\ W!AllPassed
      BY DEF VerifyInv, RecordInv
    <2>2. checks \in Seq(W!SmokeCheck) /\ Len(checks) \in Nat
      BY DeadlineIs DEF VerifyInv
    <2>3. results \in Seq(W!Outcome) /\ Len(results) = Len(checks)
      BY <2>1, <2>2 DEF VerifyInv, W!TypeOK
    <2>4. ASSUME NEW i \in DOMAIN checks
          PROVE  /\ answered[i] = checks[i].expect
                 /\ checks[i].slot # W!NoSlot => checks[i].slot \in DOMAIN granted
      <3>1. i \in DOMAIN results /\ results[i] = "passed"
        BY <2>1, <2>2, <2>3 DEF W!AllPassed
      <3>. QED
        BY <3>1 DEF VerifyInv, ChecksInv
    <2>. QED
      BY <2>1, <2>4 DEF W!PromotionIsEarned, VerifyInv, GrantInv, W!HandoffIsCurrent
  <1>2. W!NeverReplayed
    BY DEF VerifyInv, ChecksInv, W!NeverReplayed, UnsafeToReplay
  <1>3. W!SpendsOnlyProbes
    BY DEF VerifyInv, GrantInv, W!SpendsOnlyProbes
  <1>4. W!RefusedBeforeChange
    BY DEF VerifyInv, RecordInv, W!RefusedBeforeChange
  <1>. QED
    BY <1>1, <1>2, <1>3, <1>4 DEF VerifyInv, GrantInv, BudgetInv

(* Verification.  For every smoke file, selection, list and budget: a      *)
(* record that authorises a promotion was earned by this deployment, asked *)
(* with the values it serves; only listed and labelled credentials were    *)
(* sent; what may act twice was sent once; the deadline covers the         *)
(* declared checks; and what verify refuses was refused before the change. *)
THEOREM VerificationIsAlwaysHonest == ASSUME W!VerifyAssumption PROVE W!Spec => []W!VerificationIsHonest
  <1>1. W!Init => VerifyInv
    BY VerifyInit
  <1>2. VerifyInv /\ [W!Next]_W!vars => VerifyInv'
    BY VerifyStep
  <1>3. VerifyInv => W!VerificationIsHonest
    BY VerifyHonest DEF W!VerificationIsHonest
  <1>. QED
    BY <1>1, <1>2, <1>3, PTL DEF W!Spec

-----------------------------------------------------------------------------
(* The listing of namespaces, for any page size and cap.                   *)
CONSTANTS Names, Limit, MaxRows
VARIABLES live, totals, honours, stage, offset, rows, listing, always, ever, removed
N == INSTANCE NamespaceListing WITH pc <- stage

(* A listing that a gateway answered.                                      *)
Completes == stage = "idle" /\ listing # N!NoListing
PagesInv ==
    /\ stage = "reading" =>
          /\ offset = Len(rows)
          /\ live \subseteq ever /\ (~removed => always \subseteq live)
    /\ always \subseteq Names /\ ever \subseteq Names /\ live \subseteq Names
    /\ rows \in Seq(Names) /\ Range(rows) \subseteq ever /\ Len(rows) \in Nat

(* What came in at a position already read was there before, or is new.    *)
ProgressInv ==
    honours /\ ~removed =>
        /\ stage = "reading" => \A n \in always : N!Rank(n, live) < offset => n \in Range(rows)
        /\ Completes => always \subseteq Range(rows)
MergeInv == Completes => Range(listing) = Range(rows) /\ IsInjective(listing)
ListInv == N!TypeOK /\ PagesInv /\ ProgressInv /\ MergeInv
-----------------------------------------------------------------------------
(* The order of a listing.                                                 *)

(* The library's operators are the same in the instance.                   *)
LEMMA Library ==
    /\ \A S : N!IsFiniteSet(S) <=> IsFiniteSet(S)
    /\ \A S : N!Cardinality(S) = Cardinality(S)
    /\ \A f : N!Range(f) = Range(f)
    /\ \A f : N!IsInjective(f) <=> IsInjective(f)
  <1>1. \A S : N!IsFiniteSet(S) <=> IsFiniteSet(S)
    BY DEF N!IsFiniteSet, IsFiniteSet
  <1>2. \A S : N!Cardinality(S) = Cardinality(S)
    BY <1>1 DEF N!Cardinality, Cardinality
  <1>. QED
    BY <1>1, <1>2 DEF N!Range, Range, N!IsInjective, IsInjective

LEMMA Ranks ==
    ASSUME N!ListingAssumption, NEW S \in SUBSET Names
    PROVE  /\ IsFiniteSet(S) /\ Cardinality(S) \in Nat
           /\ \A x \in S : N!Rank(x, S) \in 0 .. Cardinality(S) - 1
           /\ \A x, z \in S : x < z => N!Rank(x, S) < N!Rank(z, S)
  <1>1. IsFiniteSet(S) /\ Cardinality(S) \in Nat
    BY FS_Subset, FS_CardinalityType, Library DEF N!ListingAssumption
  <1>2. ASSUME NEW T \in SUBSET S PROVE IsFiniteSet(T) /\ Cardinality(T) \in Nat
    BY <1>1, FS_Subset, FS_CardinalityType
  <1>3. ASSUME NEW T \in SUBSET S, NEW R \in SUBSET T, T # R
        PROVE  Cardinality(R) < Cardinality(T)
    <2>1. IsFiniteSet(T) /\ Cardinality(T) \in Nat /\ Cardinality(R) \in Nat
      BY <1>2
    <2>. QED
      BY <1>3, <2>1, FS_Subset
  <1>4. S \subseteq Nat
    BY DEF N!ListingAssumption
  <1>5. ASSUME NEW x \in S PROVE N!Rank(x, S) \in 0 .. Cardinality(S) - 1
    <2>1. {y \in S : y < x} \in SUBSET S /\ S # {y \in S : y < x}
      BY <1>4
    <2>2. N!Rank(x, S) < Cardinality(S) /\ N!Rank(x, S) \in Nat
      BY <1>2, <1>3, <2>1, Library DEF N!Rank
    <2>. QED
      BY <1>1, <2>2
  <1>6. ASSUME NEW x \in S, NEW z \in S, x < z PROVE N!Rank(x, S) < N!Rank(z, S)
    <2>1. \A y \in S : y < x => y < z
      BY <1>4, <1>6
    <2>2. x \in {y \in S : y < z} /\ x \notin {y \in S : y < x}
      BY <1>4, <1>6
    <2>3. {y \in S : y < x} \in SUBSET {y \in S : y < z}
      BY <2>1
    <2>. QED
      BY <1>3, <2>2, <2>3, Library DEF N!Rank
  <1>. QED
    BY <1>1, <1>5, <1>6

LEMMA SortedIs ==
    ASSUME N!ListingAssumption, NEW S \in SUBSET Names
    PROVE  /\ N!Sorted(S) \in Seq(S) /\ Len(N!Sorted(S)) = Cardinality(S)
           /\ \A x \in S : N!Sorted(S)[N!Rank(x, S) + 1] = x
  <1>. DEFINE c == Cardinality(S)
              f == [x \in S |-> N!Rank(x, S)]
  <1>1. c \in Nat /\ IsFiniteSet(S) /\ \A x \in S : N!Rank(x, S) \in 0 .. c - 1
    BY Ranks
  <1>2. \A x, z \in S : N!Rank(x, S) = N!Rank(z, S) => x = z
    <2>1. S \subseteq Nat
      BY DEF N!ListingAssumption
    <2>2. ASSUME NEW x \in S, NEW z \in S, N!Rank(x, S) = N!Rank(z, S) PROVE x = z
      <3>1. ~(x < z) /\ ~(z < x)
        <4>1. N!Rank(x, S) \in Nat
          BY <1>1
        <4>2. N!Rank(x, S) < N!Rank(z, S) <=> FALSE
          BY <2>2, <4>1
        <4>3. N!Rank(z, S) < N!Rank(x, S) <=> FALSE
          BY <2>2, <4>1
        <4>. QED
          BY <4>2, <4>3, Ranks
      <3>. QED
        BY <2>1, <3>1
    <2>. QED
      BY <2>2
  <1>3. f \in Injection(S, 0 .. c - 1)
    BY <1>1, <1>2 DEF Injection, IsInjective
  <1>4. IsFiniteSet(0 .. c - 1) /\ Cardinality(0 .. c - 1) = c
    <2>1. IsFiniteSet(0 .. c - 1) /\ Cardinality(0 .. c - 1) = IF 0 > c - 1 THEN 0 ELSE c - 1 - 0 + 1
      BY <1>1, FS_Interval
    <2>. HIDE DEF c
    <2>. QED
      BY <1>1, <2>1
  <1>5. f \in Surjection(S, 0 .. c - 1)
    BY <1>3, <1>4, FS_Injection
  <1>6. ASSUME NEW i \in 1 .. c PROVE \E x \in S : N!Rank(x, S) = i - 1
    <2>1. i - 1 \in 0 .. c - 1
      <3>. HIDE DEF c
      <3>. QED
        BY <1>1
    <2>. QED
      BY <1>5, <2>1 DEF Surjection
  <1>7. \A i \in 1 .. c : N!Sorted(S)[i] \in S /\ N!Rank(N!Sorted(S)[i], S) = i - 1
    BY <1>6, Library DEF N!Sorted
  <1>8. N!Sorted(S) \in [1 .. c -> S]
    BY <1>7, Library DEF N!Sorted
  <1>9. N!Sorted(S) \in Seq(S) /\ Len(N!Sorted(S)) = c
    <2>. HIDE DEF c
    <2>. QED
      BY <1>1, <1>8
  <1>10. ASSUME NEW x \in S PROVE N!Sorted(S)[N!Rank(x, S) + 1] = x
    <2>1. N!Rank(x, S) \in 0 .. c - 1
      BY <1>1
    <2>2. N!Rank(x, S) + 1 \in 1 .. c /\ (N!Rank(x, S) + 1) - 1 = N!Rank(x, S)
      <3>. HIDE DEF c
      <3>. QED
        BY <1>1, <2>1
    <2>. QED
      BY <1>2, <1>7, <2>2
  <1>. QED
    BY <1>9, <1>10

(* A namespace that comes moves the others up only.                        *)
LEMMA RanksGrow ==
    ASSUME N!ListingAssumption, NEW S \in SUBSET Names, NEW T \in SUBSET S, NEW x
    PROVE  N!Rank(x, T) <= N!Rank(x, S) /\ N!Rank(x, T) \in Nat /\ N!Rank(x, S) \in Nat
  <1>1. IsFiniteSet(S)
    BY Ranks
  <1>2. IsFiniteSet({y \in S : y < x})
    BY <1>1, FS_Subset
  <1>3. {y \in T : y < x} \in SUBSET {y \in S : y < x}
    OBVIOUS
  <1>. QED
    BY <1>2, <1>3, FS_Subset, FS_CardinalityType, Library DEF N!Rank

-----------------------------------------------------------------------------
(* The merge.                                                              *)

LEMMA MergeExists ==
    ASSUME NEW rs \in Seq(Names)
    PROVE  N!Merged(rs) = [n \in 0 .. Len(rs) |->
               IF n = 0 THEN <<>>
               ELSE IF rs[n] \in N!Range(N!Merged(rs)[n - 1]) THEN N!Merged(rs)[n - 1]
               ELSE Append(N!Merged(rs)[n - 1], rs[n])]
  <1>. DEFINE Step(m, i) == IF rs[i] \in N!Range(m) THEN m ELSE Append(m, rs[i])
              Merge(n, g) == g = [i \in 0 .. n |-> IF i = 0 THEN <<>> ELSE Step(g[i - 1], i)]
              Bad == {n \in Nat : n <= Len(rs) /\ \A g : ~Merge(n, g)}
  <1>1. Len(rs) \in Nat
    OBVIOUS
  <1>0. Bad \in SUBSET Nat /\ \A n \in Bad : n <= Len(rs)
    OBVIOUS
  <1>2. Bad = {}
    <2>1. SUFFICES ASSUME Bad # {} PROVE FALSE
      OBVIOUS
    <2>2. PICK n \in Bad : \A y \in Bad : n <= y
      <3>. HIDE DEF Bad
      <3>. QED
        BY <1>0, <2>1, Least
    <2>3. n # 0
      <3>. DEFINE g == [i \in 0 .. 0 |-> <<>>]
      <3>1. Merge(0, g)
        OBVIOUS
      <3>. QED
        BY <3>1, <2>2
    <2>4. n - 1 \in Nat /\ n - 1 \notin Bad /\ n - 1 <= Len(rs)
      <3>. HIDE DEF Bad
      <3>1. n \in Nat /\ n <= Len(rs)
        BY <1>0
      <3>. QED
        BY <1>1, <2>2, <2>3, <3>1
    <2>5. PICK g : Merge(n - 1, g)
      <3>. HIDE DEF Merge
      <3>. QED
        BY <2>4
    <2>. HIDE DEF Step
    <2>. DEFINE h == [i \in 0 .. n |-> IF i = n THEN Step(g[n - 1], n) ELSE g[i]]
    <2>6. ASSUME NEW i \in 0 .. n PROVE h[i] = IF i = 0 THEN <<>> ELSE Step(h[i - 1], i)
      <3>1. CASE i = 0
        BY <2>3, <2>4, <2>5, <3>1
      <3>2. CASE i = n
        BY <2>3, <2>4, <3>2
      <3>3. CASE i # 0 /\ i # n
        BY <2>4, <2>5, <3>3
      <3>. QED
        BY <3>1, <3>2, <3>3
    <2>7. Merge(n, h)
      BY <2>6
    <2>. QED
      BY <2>2, <2>7
  <1>3. \E g : Merge(Len(rs), g)
    <2>. HIDE DEF Merge
    <2>. QED
      BY <1>1, <1>2
  <1>. QED
    BY <1>3, Zenon DEF N!Merged

(* The merge names what the pages name, each once.                         *)
LEMMA MergeIs ==
    ASSUME NEW rs \in Seq(Names)
    PROVE  Range(N!MergePages(rs)) = Range(rs) /\ IsInjective(N!MergePages(rs))
  <1>. DEFINE T == N!Merged(rs)
              First(n) == {rs[i] : i \in 1 .. n}
              Good(m, n) == m \in Seq(Names) /\ Range(m) = First(n) /\ IsInjective(m)
              Bad == {n \in Nat : n <= Len(rs) /\ ~Good(T[n], n)}
  <1>1. /\ Len(rs) \in Nat /\ DOMAIN rs = 1 .. Len(rs)
        /\ \A i \in 1 .. Len(rs) : rs[i] \in Names
    OBVIOUS
  <1>2. T = [n \in 0 .. Len(rs) |->
               IF n = 0 THEN <<>>
               ELSE IF rs[n] \in N!Range(T[n - 1]) THEN T[n - 1] ELSE Append(T[n - 1], rs[n])]
    BY MergeExists
  <1>. HIDE DEF T
  <1>3. T[0] = <<>>
    BY <1>1, <1>2
  <1>4. ASSUME NEW n \in Nat, n # 0, n <= Len(rs)
        PROVE  T[n] = IF rs[n] \in N!Range(T[n - 1]) THEN T[n - 1] ELSE Append(T[n - 1], rs[n])
    <2>1. n \in 0 .. Len(rs)
      BY <1>1, <1>4
    <2>2. \A i \in 0 .. Len(rs) :
             T[i] = IF i = 0 THEN <<>>
                    ELSE IF rs[i] \in N!Range(T[i - 1]) THEN T[i - 1] ELSE Append(T[i - 1], rs[i])
      BY <1>2, Zenon
    <2>. QED
      BY <1>4, <2>1, <2>2, Zenon
  <1>5. Good(T[0], 0)
    BY <1>3 DEF Range, IsInjective
  <1>6. ASSUME NEW n \in Nat, n # 0, n <= Len(rs), Good(T[n - 1], n - 1)
        PROVE  Good(T[n], n)
    <2>1. n - 1 \in Nat /\ n \in 1 .. Len(rs) /\ rs[n] \in Names
      BY <1>1, <1>6
    <2>2. First(n) = First(n - 1) \cup {rs[n]}
      BY <1>1, <2>1
    <2>3. CASE rs[n] \in Range(T[n - 1])
      BY <1>4, <1>6, <2>2, <2>3, Library
    <2>4. CASE rs[n] \notin Range(T[n - 1])
      <3>. DEFINE m == T[n - 1]
                  a == Append(m, rs[n])
      <3>1. T[n] = a /\ m \in Seq(Names)
        BY <1>4, <1>6, <2>4, Library
      <3>2. /\ a \in Seq(Names) /\ DOMAIN a = 1 .. Len(m) + 1 /\ DOMAIN m = 1 .. Len(m)
            /\ Len(m) \in Nat /\ a[Len(m) + 1] = rs[n]
            /\ \A i \in 1 .. Len(m) : a[i] = m[i]
        BY <2>1, <3>1
      <3>. HIDE DEF a, m
      <3>3. Range(a) = Range(m) \cup {rs[n]}
        <4>1. \A i \in 1 .. Len(m) + 1 : i \in 1 .. Len(m) \/ i = Len(m) + 1
          BY <3>2
        <4>2. \A i \in 1 .. Len(m) : i \in 1 .. Len(m) + 1
          BY <3>2
        <4>3. Len(m) + 1 \in 1 .. Len(m) + 1
          BY <3>2
        <4>. QED
          BY <3>2, <4>1, <4>2, <4>3 DEF Range
      <3>4. IsInjective(a)
        <4>1. ASSUME NEW i \in 1 .. Len(m) + 1, NEW j \in 1 .. Len(m) + 1, a[i] = a[j]
              PROVE  i = j
          <5>1. rs[n] \notin Range(m) /\ IsInjective(m)
            BY <1>6, <2>4 DEF m
          <5>2. \A k \in 1 .. Len(m) : a[k] # rs[n]
            BY <3>2, <5>1 DEF Range
          <5>3. i \in 1 .. Len(m) \/ i = Len(m) + 1
            BY <3>2
          <5>4. j \in 1 .. Len(m) \/ j = Len(m) + 1
            BY <3>2
          <5>. QED
            BY <3>2, <4>1, <5>1, <5>2, <5>3, <5>4 DEF IsInjective
        <4>. QED
          BY <3>2, <4>1 DEF IsInjective
      <3>. QED
        BY <1>6, <2>2, <3>1, <3>2, <3>3, <3>4 DEF m
    <2>. QED
      BY <2>3, <2>4
  <1>7. Bad = {}
    <2>1. SUFFICES ASSUME Bad # {} PROVE FALSE
      OBVIOUS
    <2>0. Bad \in SUBSET Nat
      OBVIOUS
    <2>2. PICK n \in Bad : \A y \in Bad : n <= y
      <3>. HIDE DEF Bad
      <3>. QED
        BY <2>0, <2>1, Least
    <2>. HIDE DEF Good
    <2>3. n \in Nat /\ n # 0 /\ n <= Len(rs) /\ ~Good(T[n], n)
      BY <1>5, <2>2
    <2>4. n - 1 \in Nat /\ n - 1 <= Len(rs) /\ n - 1 \notin Bad
      <3>. HIDE DEF Bad
      <3>. QED
        BY <1>1, <2>2, <2>3
    <2>. QED
      BY <1>6, <2>3, <2>4
  <1>8. Good(T[Len(rs)], Len(rs))
    <2>. HIDE DEF Good
    <2>. QED
      BY <1>1, <1>7
  <1>9. First(Len(rs)) = Range(rs)
    BY <1>1 DEF Range
  <1>. QED
    BY <1>8, <1>9 DEF N!MergePages, T

-----------------------------------------------------------------------------
(* The pages.                                                              *)

LEMMA PageIs ==
    ASSUME N!ListingAssumption, N!TypeOK, PagesInv
    PROVE  /\ N!Page \in Seq(Names) /\ Range(N!Page) \subseteq live /\ Len(N!Page) \in Nat
           /\ honours =>
                /\ \A n \in live :
                      offset <= N!Rank(n, live) /\ N!Rank(n, live) < offset + Len(N!Page)
                         => n \in Range(N!Page)
                /\ Len(N!Page) < Limit => Cardinality(live) <= offset + Len(N!Page)
  <1>. DEFINE s == N!Sorted(live)
              from == IF honours THEN offset ELSE 0
              end == IF from + Limit < Len(s) THEN from + Limit ELSE Len(s)
  <1>1. /\ s \in Seq(live) /\ Len(s) = Cardinality(live)
        /\ \A x \in live : s[N!Rank(x, live) + 1] = x
    BY SortedIs DEF N!TypeOK
  <1>2. Len(s) \in Nat
    BY <1>1
  <1>3. N!Page = IF from >= end THEN <<>> ELSE SubSeq(s, from + 1, end)
    BY Zenon DEF N!Page
  <1>4. from \in Nat /\ offset \in Nat /\ Limit \in Nat \ {0} /\ (honours => from = offset)
    BY DEF N!TypeOK, N!ListingAssumption
  <1>. HIDE DEF s, from
  <1>5. end \in Nat /\ end <= Len(s) /\ (end < Len(s) => end = from + Limit)
    BY <1>2, <1>4
  <1>r. ASSUME NEW n \in live
        PROVE  N!Rank(n, live) \in Nat /\ N!Rank(n, live) < Cardinality(live)
    <2>1. Cardinality(live) \in Nat /\ N!Rank(n, live) \in 0 .. Cardinality(live) - 1
      BY Ranks DEF N!TypeOK
    <2>. QED
      BY <2>1
  <1>6. CASE from >= end
    <2>1. N!Page = <<>>
      BY <1>3, <1>6
    <2>2. Range(N!Page) = {} /\ Len(N!Page) = 0 /\ N!Page \in Seq(Names)
      BY <2>1 DEF Range
    <2>3. Len(s) <= from
      <3>. HIDE DEF end
      <3>. QED
        BY <1>2, <1>4, <1>5, <1>6
    <2>4. honours => Cardinality(live) <= offset + Len(N!Page)
      BY <1>1, <1>2, <1>4, <2>2, <2>3
    <2>5. ASSUME honours, NEW n \in live PROVE ~(offset <= N!Rank(n, live))
      <3>1. N!Rank(n, live) < Len(s) /\ Len(s) <= offset /\ N!Rank(n, live) \in Nat
        BY <1>1, <1>4, <1>r, <2>3, <2>5
      <3>. QED
        BY <1>2, <1>4, <3>1
    <2>. QED
      BY <2>2, <2>4, <2>5
  <1>7. CASE from < end
    <2>. HIDE DEF end
    <2>1. N!Page = SubSeq(s, from + 1, end)
      BY <1>3, <1>4, <1>5, <1>7
    <2>2. /\ N!Page \in Seq(live) /\ Len(N!Page) = end - from
          /\ \A i \in 1 .. end - from : N!Page[i] = s[from + i]
      <3>1. /\ from + 1 \in Nat /\ from + 1 >= 1 /\ end <= Len(s) /\ from + 1 <= end
            /\ end - (from + 1) + 1 = end - from
            /\ \A i \in 1 .. end - from : (from + 1) + i - 1 = from + i
        BY <1>2, <1>4, <1>5, <1>7
      <3>. QED
        BY <1>1, <1>5, <2>1, <3>1
    <2>3. DOMAIN N!Page = 1 .. end - from /\ end - from \in Nat
      BY <1>4, <1>5, <1>7, <2>2
    <2>4. Range(N!Page) \subseteq live /\ N!Page \in Seq(Names) /\ Len(N!Page) \in Nat
      BY <2>2, <2>3 DEF Range, N!TypeOK
    <2>5. ASSUME honours, NEW n \in live, offset <= N!Rank(n, live),
                 N!Rank(n, live) < offset + Len(N!Page)
          PROVE  n \in Range(N!Page)
      <3>. DEFINE i == N!Rank(n, live) + 1 - from
      <3>1. i \in 1 .. end - from /\ from + i = N!Rank(n, live) + 1
        BY <1>4, <1>5, <1>r, <2>2, <2>5
      <3>. HIDE DEF i
      <3>2. N!Page[i] = n
        BY <1>1, <2>2, <3>1
      <3>. QED
        BY <2>3, <3>1, <3>2 DEF Range
    <2>6. ASSUME honours, Len(N!Page) < Limit PROVE Cardinality(live) <= offset + Len(N!Page)
      <3>1. Len(N!Page) = end - offset /\ end # from + Limit
        BY <1>4, <1>5, <2>2, <2>6
      <3>. QED
        BY <1>1, <1>2, <1>4, <1>5, <3>1
    <2>. QED
      BY <2>4, <2>5, <2>6
  <1>. QED
    BY <1>4, <1>5, <1>6, <1>7

LEMMA ListInit == ASSUME N!ListingAssumption, N!Init PROVE ListInv
  <1>1. Range(<<>>) = {} /\ <<>> \in Seq(Names) /\ Len(<<>>) = 0 /\ IsInjective(<<>>)
    BY DEF Range, IsInjective
  <1>2. MaxRows \in Nat
    BY DEF N!ListingAssumption
  <1>3. /\ stage = "idle" /\ offset = 0 /\ rows = <<>> /\ listing = <<>> /\ always = {} /\ ever = {}
        /\ removed = FALSE /\ live \subseteq Names /\ totals \in BOOLEAN /\ honours \in BOOLEAN
    BY DEF N!Init
  <1>4. N!TypeOK
    <2>1. 0 \in 0 .. MaxRows
      BY <1>2
    <2>. QED
      BY <1>1, <1>3, <2>1, Library DEF N!TypeOK
  <1>5. PagesInv
    BY <1>1, <1>3 DEF PagesInv
  <1>6. ProgressInv /\ MergeInv
    BY <1>1, <1>3 DEF ProgressInv, MergeInv
  <1>. QED
    BY <1>4, <1>5, <1>6 DEF ListInv

LEMMA StartStep == ASSUME N!ListingAssumption, ListInv, N!Start PROVE ListInv'
  <1>1. Range(<<>>) = {} /\ <<>> \in Seq(Names) /\ Len(<<>>) = 0
    BY DEF Range
  <1>2. MaxRows \in Nat
    BY DEF N!ListingAssumption
  <1>3. \A n \in live : N!Rank(n, live) \in Nat
    BY Ranks, Library DEF ListInv, N!TypeOK
  <1>4. /\ stage' = "reading" /\ offset' = 0 /\ rows' = <<>> /\ always' = live /\ ever' = live
        /\ removed' = FALSE /\ live' = live /\ totals' = totals /\ honours' = honours
    BY DEF N!Start
  <1>5. N!TypeOK'
    <2>1. 0 \in 0 .. MaxRows
      BY <1>2
    <2>2. live \subseteq Names /\ totals \in BOOLEAN /\ honours \in BOOLEAN
      BY DEF ListInv, N!TypeOK
    <2>. QED
      BY <1>1, <1>4, <2>1, <2>2, Library DEF N!TypeOK
  <1>6. PagesInv'
    BY <1>1, <1>4 DEF ListInv, PagesInv
  <1>7. \A n \in always' : ~(N!Rank(n, live) < 0)
    BY <1>3, <1>4
  <1>8. ProgressInv'
    BY <1>4, <1>7 DEF ProgressInv, Completes, N!Rank
  <1>9. MergeInv'
    BY <1>4 DEF MergeInv, Completes
  <1>. QED
    BY <1>5, <1>6, <1>8, <1>9 DEF ListInv

LEMMA ChangeStep == ASSUME N!ListingAssumption, ListInv, N!Change PROVE ListInv'
  <1>1. /\ stage = "reading" /\ always' = always \cap live' /\ ever' = ever \cup live'
        /\ UNCHANGED <<totals, honours, stage, offset, rows, listing>>
        /\ live' \subseteq Names /\ removed' \in BOOLEAN
        /\ ~removed' => ~removed /\ live \subseteq live'
    <2>1. live \subseteq Names /\ removed \in BOOLEAN
      BY DEF ListInv, N!TypeOK
    <2>2. /\ stage = "reading" /\ always' = always \cap live' /\ ever' = ever \cup live'
          /\ UNCHANGED <<totals, honours, stage, offset, rows, listing>>
      BY DEF N!Change
    <2>3. CASE \E n \in Names \ live : live' = live \cup {n} /\ UNCHANGED removed
      BY <2>1, <2>2, <2>3
    <2>4. CASE \E n \in live : live' = live \ {n} /\ removed' = TRUE
      BY <2>1, <2>2, <2>4
    <2>. QED
      BY <2>3, <2>4 DEF N!Change
  <1>2. N!TypeOK'
    BY <1>1 DEF ListInv, N!TypeOK
  <1>3. PagesInv'
    BY <1>1 DEF ListInv, PagesInv
  <1>4. ASSUME honours, ~removed', NEW n \in always', N!Rank(n, live') < offset
        PROVE  n \in Range(rows)
    <2>1. N!Rank(n, live) <= N!Rank(n, live') /\ N!Rank(n, live) \in Nat /\ N!Rank(n, live') \in Nat
      BY <1>1, <1>4, RanksGrow
    <2>2. offset \in Nat
      BY DEF ListInv, N!TypeOK
    <2>3. n \in always /\ N!Rank(n, live) < offset
      BY <1>1, <1>4, <2>1, <2>2
    <2>. QED
      BY <1>1, <1>4, <2>3 DEF ListInv, ProgressInv
  <1>5. ProgressInv'
    BY <1>1, <1>4 DEF ProgressInv, Completes, N!Rank
  <1>6. MergeInv'
    BY <1>1 DEF MergeInv, Completes
  <1>. QED
    BY <1>2, <1>3, <1>5, <1>6 DEF ListInv

LEMMA ReadPageStep == ASSUME N!ListingAssumption, ListInv, N!ReadPage PROVE ListInv'
  <1>. DEFINE page == N!Page
              total == IF totals THEN Cardinality(live) ELSE N!NoTotal
              verdict == N!NextPageOffset(Len(page), total, Len(rows) + Len(page))
  <1>1. /\ stage = "reading" /\ rows' = rows \o page
        /\ offset' = IF verdict = "next" THEN offset + Len(page) ELSE offset
        /\ stage' = IF verdict = "next" THEN "reading" ELSE "idle"
        /\ listing' = IF verdict = "next" THEN listing
                      ELSE IF verdict = "complete" THEN N!MergePages(rows \o page) ELSE N!NoListing
        /\ UNCHANGED <<live, totals, honours, always, ever, removed>>
    BY Library DEF N!ReadPage
  <1>2. /\ page \in Seq(Names) /\ Range(page) \subseteq live /\ Len(page) \in Nat
        /\ honours =>
             /\ \A n \in live :
                   offset <= N!Rank(n, live) /\ N!Rank(n, live) < offset + Len(page)
                      => n \in Range(page)
             /\ Len(page) < Limit => Cardinality(live) <= offset + Len(page)
    BY PageIs DEF ListInv
  <1>. HIDE DEF page
  <1>3. /\ offset = Len(rows) /\ offset \in Nat /\ rows \in Seq(Names) /\ live \subseteq Names
        /\ live \subseteq ever /\ (~removed => always \subseteq live)
        /\ MaxRows \in Nat /\ Limit \in Nat \ {0} /\ totals \in BOOLEAN
    BY <1>1 DEF ListInv, PagesInv, N!TypeOK, N!ListingAssumption
  <1>4. /\ rows' \in Seq(Names) /\ Len(rows') = offset + Len(page)
        /\ Range(rows') = Range(rows) \cup Range(page)
    <2>1. rows' \in Seq(Names) /\ Len(rows') = Len(rows) + Len(page)
      BY <1>1, <1>2, <1>3
    <2>2. ASSUME NEW x PROVE x \in Range(rows') <=> x \in Range(rows) \cup Range(page)
      <3>1. /\ \A i \in 1 .. Len(rows) : rows'[i] = rows[i] /\ i \in 1 .. Len(rows')
            /\ \A i \in 1 .. Len(page) :
                  rows'[i + Len(rows)] = page[i] /\ i + Len(rows) \in 1 .. Len(rows')
            /\ \A i \in 1 .. Len(rows') :
                  i \in 1 .. Len(rows) \/ (i - Len(rows) \in 1 .. Len(page)
                                             /\ rows'[i] = page[i - Len(rows)])
        BY <1>1, <1>2, <1>3, <2>1
      <3>2. DOMAIN rows = 1 .. Len(rows) /\ DOMAIN page = 1 .. Len(page)
            /\ DOMAIN rows' = 1 .. Len(rows')
        BY <1>2, <1>3, <2>1
      <3>3. ASSUME x \in Range(rows') PROVE x \in Range(rows) \cup Range(page)
        BY <3>1, <3>2, <3>3 DEF Range
      <3>4. ASSUME x \in Range(rows) PROVE x \in Range(rows')
        BY <3>1, <3>2, <3>4 DEF Range
      <3>5. ASSUME x \in Range(page) PROVE x \in Range(rows')
        BY <3>1, <3>2, <3>5 DEF Range
      <3>. QED
        BY <3>3, <3>4, <3>5
    <2>3. Range(rows') = Range(rows) \cup Range(page)
      BY <2>2
    <2>. QED
      BY <1>3, <2>1, <2>3
  <1>5. Cardinality(live) \in Nat /\ \A n \in live : N!Rank(n, live) \in Nat
                                       /\ N!Rank(n, live) < Cardinality(live)
    <2>1. Cardinality(live) \in Nat
          /\ \A n \in live : N!Rank(n, live) \in 0 .. Cardinality(live) - 1
      BY <1>3, Ranks
    <2>. QED
      BY <2>1
  <1>6. /\ verdict = "next" => offset + Len(page) < MaxRows
        /\ honours /\ verdict = "complete" => Cardinality(live) <= offset + Len(page)
    <2>. DEFINE received == Len(page)
                accumulated == Len(rows) + Len(page)
                complete == \/ received = 0
                            \/ IF total # N!NoTotal THEN accumulated >= total ELSE received < Limit
    <2>1. verdict = IF accumulated > MaxRows THEN N!Incomplete
                 ELSE IF complete THEN "complete"
                 ELSE IF accumulated = MaxRows THEN N!Incomplete ELSE "next"
      BY Zenon DEF N!NextPageOffset
    <2>2. accumulated = offset + Len(page) /\ accumulated \in Nat
      BY <1>2, <1>3
    <2>. HIDE DEF accumulated, verdict
    <2>3. verdict = "next" => accumulated < MaxRows
      BY <1>3, <2>1, <2>2 DEF N!Incomplete
    <2>4. ASSUME honours, complete PROVE Cardinality(live) <= accumulated
      <3>1. CASE received = 0
        BY <1>2, <1>3, <2>2, <2>4, <3>1
      <3>2. CASE received < Limit
        BY <1>2, <2>2, <2>4, <3>2
      <3>3. CASE accumulated >= total /\ totals
        BY <1>5, <2>2, <3>3
      <3>4. ~totals => total = N!NoTotal
        OBVIOUS
      <3>5. totals => total # N!NoTotal
        BY <1>5 DEF N!NoTotal
      <3>. QED
        BY <2>4, <3>1, <3>2, <3>3, <3>4, <3>5
    <2>5. verdict = "complete" => complete
      BY <2>1 DEF N!Incomplete
    <2>. QED
      BY <2>2, <2>3, <2>4, <2>5
  <1>. HIDE DEF verdict
  <1>7. N!TypeOK'
    <2>1. offset' \in 0 .. MaxRows
      BY <1>1, <1>2, <1>3, <1>6 DEF ListInv, N!TypeOK
    <2>2. Range(rows') \subseteq Names
      BY <1>2, <1>3, <1>4, Library DEF ListInv, N!TypeOK
    <2>. QED
      BY <1>1, <2>1, <2>2, Library DEF ListInv, N!TypeOK
  <1>8. PagesInv'
    <2>1. stage' = "reading" => offset' = Len(rows')
      BY <1>1, <1>4
    <2>2. Range(rows') \subseteq ever /\ Len(rows') \in Nat
      BY <1>2, <1>3, <1>4 DEF ListInv, PagesInv
    <2>. QED
      BY <1>1, <1>3, <1>4, <2>1, <2>2 DEF ListInv, PagesInv
  <1>9. ASSUME honours, ~removed, NEW n \in always, N!Rank(n, live) < offset + Len(page)
        PROVE  n \in Range(rows')
    <2>1. n \in live /\ N!Rank(n, live) \in Nat
      BY <1>3, <1>5, <1>9
    <2>2. CASE N!Rank(n, live) < offset
      BY <1>1, <1>4, <1>9, <2>2 DEF ListInv, ProgressInv
    <2>3. CASE offset <= N!Rank(n, live)
      BY <1>2, <1>4, <1>9, <2>1, <2>3
    <2>. QED
      BY <1>3, <2>1, <2>2, <2>3
  <1>10. ProgressInv'
    <2>1. ASSUME honours, ~removed, stage' = "reading", NEW n \in always, N!Rank(n, live) < offset'
          PROVE  n \in Range(rows')
      BY <1>1, <1>9, <2>1
    <2>2. ASSUME honours, ~removed, stage' = "idle", listing' # N!NoListing, NEW n \in always
          PROVE  n \in Range(rows')
      <3>1. verdict = "complete"
        BY <1>1, <2>2
      <3>2. N!Rank(n, live) < offset + Len(page)
        <4>1. n \in live
          BY <1>3, <2>2
        <4>2. Cardinality(live) <= offset + Len(page)
          BY <1>6, <2>2, <3>1
        <4>. QED
          BY <1>2, <1>3, <1>5, <4>1, <4>2
      <3>. QED
        BY <1>9, <2>2, <3>2
    <2>. QED
      BY <1>1, <2>1, <2>2 DEF ProgressInv, Completes, N!Rank
  <1>11. MergeInv'
    <2>1. ASSUME stage' = "idle", listing' # N!NoListing
          PROVE  listing' = N!MergePages(rows')
      BY <1>1, <2>1
    <2>. QED
      BY <1>4, <2>1, MergeIs DEF MergeInv, Completes
  <1>. QED
    BY <1>7, <1>8, <1>10, <1>11 DEF ListInv

LEMMA ListStep == ASSUME N!ListingAssumption, ListInv, [N!Next]_N!vars PROVE ListInv'
  <1>1. CASE UNCHANGED N!vars
    BY <1>1 DEF N!vars, ListInv, N!TypeOK, PagesInv, ProgressInv, MergeInv, Completes, N!Rank
  <1>. QED
    BY <1>1, StartStep, ReadPageStep, ChangeStep DEF N!Next

(* A listing, for any namespaces, page size and cap: one that is reported  *)
(* complete names every namespace that was there all along, when none was  *)
(* removed and the gateway honours offsets, and only such as were there,   *)
(* each once.                                                              *)
THEOREM ListingsAreAlwaysRight == ASSUME N!ListingAssumption PROVE N!Spec => []N!ListingIsRight
  <1>1. N!Init => ListInv
    BY ListInit
  <1>2. ListInv /\ [N!Next]_N!vars => ListInv'
    BY ListStep
  <1>3. ListInv => N!ListingIsRight
    BY Library DEF ListInv, PagesInv, ProgressInv, MergeInv, Completes, N!ListingIsRight,
       N!ListingIsComplete, N!ListingIsGenuine, N!Listed
  <1>. QED
    BY <1>1, <1>2, <1>3, PTL DEF N!Spec
-----------------------------------------------------------------------------
(* The bulk creates of an incremental apply, for any rows and budget.      *)
CONSTANTS Key, KindsOf, ScopedTo, Uses, Older, NoKey, Sizes, Budget, MaxOthers
VARIABLES flag, size, failedBefore, cyclic, chunks, pos, todo, turn, attach,
          failedPlugins, failedProxies, recorded, named, fatal, stale,
          stored, written, pending, others, posted
B == INSTANCE BatchCreate WITH
         KindOf <- KindsOf, pc <- turn, applied <- recorded,
         inFlight <- pending, rows <- stored, sent <- posted

LEMMA BatchLibrary ==
    /\ \A S : B!IsFiniteSet(S) <=> IsFiniteSet(S)
    /\ \A S : B!Cardinality(S) = Cardinality(S)
  <1>1. \A S : B!IsFiniteSet(S) <=> IsFiniteSet(S)
    BY DEF B!IsFiniteSet, IsFiniteSet
  <1>. QED
    BY <1>1 DEF B!Cardinality, Cardinality

(* A set that holds what its members are linked with.                      *)
Closed(C, K) == \A x \in K : (\E y \in C : B!Linked(x, y)) => x \in C

LEMMA LinkedBothWays == \A x, y : B!Linked(x, y) <=> B!Linked(y, x)
  BY DEF B!Linked

LEMMA GrownExists ==
    ASSUME NEW K, NEW k, IsFiniteSet(K)
    PROVE  B!Grown(K, k) = [n \in 0 .. B!Cardinality(K) |->
               IF n = 0 THEN {k}
               ELSE B!Grown(K, k)[n - 1]
                       \cup {x \in K : \E y \in B!Grown(K, k)[n - 1] : B!Linked(x, y)}]
  <1>. DEFINE c == B!Cardinality(K)
              Step(g) == g \cup {x \in K : \E y \in g : B!Linked(x, y)}
              Grow(n, g) == g = [i \in 0 .. n |-> IF i = 0 THEN {k} ELSE Step(g[i - 1])]
              Bad == {n \in Nat : n <= c /\ \A g : ~Grow(n, g)}
  <1>1. c \in Nat
    BY FS_CardinalityType, BatchLibrary
  <1>0. Bad \in SUBSET Nat /\ \A n \in Bad : n <= c
    OBVIOUS
  <1>. HIDE DEF c
  <1>2. Bad = {}
    <2>1. SUFFICES ASSUME Bad # {} PROVE FALSE
      OBVIOUS
    <2>2. PICK n \in Bad : \A y \in Bad : n <= y
      <3>. HIDE DEF Bad
      <3>. QED
        BY <1>0, <2>1, Least
    <2>3. n # 0
      <3>. DEFINE g == [i \in 0 .. 0 |-> {k}]
      <3>1. Grow(0, g)
        OBVIOUS
      <3>. QED
        BY <3>1, <2>2
    <2>4. n - 1 \in Nat /\ n - 1 \notin Bad /\ n - 1 <= c
      <3>. HIDE DEF Bad
      <3>1. n \in Nat /\ n <= c
        BY <1>0
      <3>. QED
        BY <1>1, <2>2, <2>3, <3>1
    <2>5. PICK g : Grow(n - 1, g)
      <3>. HIDE DEF Grow
      <3>. QED
        BY <2>4
    <2>. HIDE DEF Step
    <2>. DEFINE h == [i \in 0 .. n |-> IF i = n THEN Step(g[n - 1]) ELSE g[i]]
    <2>6. ASSUME NEW i \in 0 .. n PROVE h[i] = IF i = 0 THEN {k} ELSE Step(h[i - 1])
      <3>1. CASE i = 0
        BY <2>3, <2>4, <2>5, <3>1
      <3>2. CASE i = n
        BY <2>3, <2>4, <3>2
      <3>3. CASE i # 0 /\ i # n
        <4>1. i \in 0 .. n - 1 /\ i - 1 \in 0 .. n /\ i - 1 # n
          BY <2>4, <3>3
        <4>2. h[i] = g[i] /\ h[i - 1] = g[i - 1]
          BY <3>3, <4>1
        <4>3. g[i] = Step(g[i - 1])
          BY <2>5, <3>3, <4>1
        <4>. QED
          BY <3>3, <4>2, <4>3
      <3>. QED
        BY <3>1, <3>2, <3>3
    <2>7. Grow(n, h)
      BY <2>6
    <2>. QED
      BY <2>2, <2>7
  <1>3. \E g : Grow(c, g)
    <2>. HIDE DEF Grow
    <2>. QED
      BY <1>1, <1>2
  <1>. QED
    BY <1>3, Zenon DEF B!Grown, c

LEMMA GrownStep ==
    ASSUME NEW K, NEW k \in K, IsFiniteSet(K)
    PROVE  /\ B!Grown(K, k)[0] = {k}
           /\ \A n \in Nat : n # 0 /\ n <= Cardinality(K) =>
                 B!Grown(K, k)[n] = B!Grown(K, k)[n - 1]
                       \cup {x \in K : \E y \in B!Grown(K, k)[n - 1] : B!Linked(x, y)}
  <1>. DEFINE c == B!Cardinality(K)
              T == B!Grown(K, k)
              Step(g) == g \cup {x \in K : \E y \in g : B!Linked(x, y)}
  <1>0. c = Cardinality(K)
    BY BatchLibrary
  <1>1. c \in Nat
    BY <1>0, FS_CardinalityType
  <1>2. T = [n \in 0 .. c |-> IF n = 0 THEN {k} ELSE Step(T[n - 1])]
    BY GrownExists
  <1>. HIDE DEF T, c, Step
  <1>3. T[0] = {k}
    BY <1>1, <1>2
  <1>4. ASSUME NEW n \in Nat, n # 0, n <= c PROVE T[n] = Step(T[n - 1])
    <2>1. n \in 0 .. c
      BY <1>1, <1>4
    <2>2. \A i \in 0 .. c : T[i] = IF i = 0 THEN {k} ELSE Step(T[i - 1])
      BY <1>2, Zenon
    <2>. QED
      BY <1>4, <2>1, <2>2, Zenon
  <1>5. \A n \in Nat : n # 0 /\ n <= Cardinality(K) => T[n] = Step(T[n - 1])
    BY <1>0, <1>4
  <1>. QED
    BY <1>3, <1>5, Zenon DEF T, Step

(* A group is the least closed set its row is in.  It is closed because a  *)
(* set that grew at every step would have more rows than there are.        *)
LEMMA GroupIs ==
    ASSUME NEW K, IsFiniteSet(K), NEW k \in K
    PROVE  /\ k \in B!Group(K, k) /\ B!Group(K, k) \in SUBSET K /\ Closed(B!Group(K, k), K)
           /\ \A C : k \in C /\ Closed(C, K) => B!Group(K, k) \subseteq C
  <1>. DEFINE c == Cardinality(K)
              T == B!Grown(K, k)
              Good(g, n) ==
                 /\ k \in g /\ g \in SUBSET K /\ (Closed(g, K) \/ Cardinality(g) > n)
                 /\ \A C : k \in C /\ Closed(C, K) => g \subseteq C
              Bad == {n \in Nat : n <= c /\ ~Good(T[n], n)}
  <1>1. c \in Nat
    BY FS_CardinalityType
  <1>2. /\ T[0] = {k}
        /\ \A n \in Nat : n # 0 /\ n <= c =>
              T[n] = T[n - 1] \cup {x \in K : \E y \in T[n - 1] : B!Linked(x, y)}
    BY GrownStep
  <1>. HIDE DEF T, c
  <1>3. Good(T[0], 0)
    BY <1>2, FS_Singleton
  <1>4. ASSUME NEW n \in Nat, n # 0, n <= c, Good(T[n - 1], n - 1) PROVE Good(T[n], n)
    <2>. DEFINE g == T[n - 1]
                h == T[n]
    <2>1. h = g \cup {x \in K : \E y \in g : B!Linked(x, y)} /\ n - 1 \in Nat
      BY <1>2, <1>4
    <2>2. Good(g, n - 1)
      BY <1>4
    <2>. HIDE DEF g, h
    <2>3. k \in h /\ h \in SUBSET K
      BY <2>1, <2>2
    <2>4. Closed(h, K) \/ Cardinality(h) > n
      <3>1. CASE h = g
        <4>1. Closed(h, K)
          BY <2>1, <3>1 DEF Closed
        <4>. QED
          BY <4>1
      <3>2. CASE h # g
        <4>1. ~Closed(g, K)
          BY <2>1, <3>2 DEF Closed
        <4>2. Cardinality(g) > n - 1
          BY <2>2, <4>1
        <4>3. IsFiniteSet(h) /\ g \in SUBSET h
          BY <2>1, <2>3, FS_Subset
        <4>4. Cardinality(g) < Cardinality(h) /\ Cardinality(g) \in Nat /\ Cardinality(h) \in Nat
          BY <3>2, <4>3, FS_Subset, FS_CardinalityType
        <4>. QED
          BY <4>2, <4>4
      <3>. QED
        BY <3>1, <3>2
    <2>5. ASSUME NEW C, k \in C, Closed(C, K) PROVE h \subseteq C
      BY <2>1, <2>2, <2>5 DEF Closed
    <2>. QED
      BY <2>3, <2>4, <2>5 DEF h
  <1>5. Bad = {}
    <2>0. Bad \in SUBSET Nat /\ \A n \in Bad : n <= c /\ ~Good(T[n], n)
      OBVIOUS
    <2>1. SUFFICES ASSUME Bad # {} PROVE FALSE
      OBVIOUS
    <2>2. PICK n \in Bad : \A y \in Bad : n <= y
      <3>. HIDE DEF Bad
      <3>. QED
        BY <2>0, <2>1, Least
    <2>3. n \in Nat /\ n <= c /\ ~Good(T[n], n)
      BY <2>0
    <2>4. n # 0
      BY <1>3, <2>3
    <2>5. n - 1 \in Nat /\ n - 1 <= c /\ n - 1 \notin Bad
      <3>. HIDE DEF Bad
      <3>. QED
        BY <1>1, <2>2, <2>3, <2>4
    <2>6. Good(T[n - 1], n - 1)
      <3>. HIDE DEF Good
      <3>. QED
        BY <2>5
    <2>. HIDE DEF Good
    <2>. QED
      BY <1>4, <2>3, <2>4, <2>6
  <1>6. Good(T[c], c)
    <2>. HIDE DEF Good
    <2>. QED
      BY <1>1, <1>5
  <1>7. ~(Cardinality(T[c]) > c)
    <2>1. Cardinality(T[c]) <= c /\ Cardinality(T[c]) \in Nat
      BY <1>6, FS_Subset, FS_CardinalityType DEF c
    <2>. QED
      BY <1>1, <2>1
  <1>8. B!Group(K, k) = T[c]
    BY BatchLibrary DEF B!Group, T, c
  <1>. QED
    BY <1>6, <1>7, <1>8

(* Two groups that meet are one.                                           *)
LEMMA GroupsMeet ==
    ASSUME NEW K, IsFiniteSet(K), NEW k \in K, NEW x \in B!Group(K, k)
    PROVE  B!Group(K, x) = B!Group(K, k)
  <1>. DEFINE G == B!Group(K, k)
              H == B!Group(K, x)
  <1>1. k \in G /\ G \in SUBSET K /\ Closed(G, K) /\ x \in K
    BY GroupIs
  <1>2. /\ x \in H /\ H \in SUBSET K /\ Closed(H, K)
        /\ \A C : x \in C /\ Closed(C, K) => H \subseteq C
    BY <1>1, GroupIs
  <1>3. \A C : k \in C /\ Closed(C, K) => G \subseteq C
    BY GroupIs
  <1>4. x \in G
    OBVIOUS
  <1>. HIDE DEF G, H
  <1>5. H \subseteq G
    BY <1>1, <1>2, <1>4
  <1>6. k \in H
    <2>1. SUFFICES ASSUME k \notin H PROVE FALSE
      OBVIOUS
    <2>2. Closed(K \ H, K)
      <3>1. ASSUME NEW z \in K, NEW y \in K \ H, B!Linked(z, y) PROVE z \notin H
        BY <1>2, <3>1, LinkedBothWays DEF Closed
      <3>. QED
        BY <3>1 DEF Closed
    <2>3. G \subseteq K \ H
      BY <1>3, <2>1, <2>2
    <2>. QED
      BY <1>2, <1>4, <2>3
  <1>7. G \subseteq H
    BY <1>2, <1>3, <1>6
  <1>. QED
    BY <1>5, <1>7 DEF G, H

LEMMA LeadersIs ==
    ASSUME NEW K \in SUBSET Nat, IsFiniteSet(K)
    PROVE  /\ B!Leaders(K) \in SUBSET K
           /\ \A k \in K : \E l \in B!Leaders(K) : k \in B!Group(K, l)
           /\ \A l, m \in B!Leaders(K) : l # m => B!Group(K, l) \cap B!Group(K, m) = {}
  <1>1. B!Leaders(K) \in SUBSET K
    BY DEF B!Leaders
  <1>2. ASSUME NEW k \in K PROVE \E l \in B!Leaders(K) : k \in B!Group(K, l)
    <2>1. B!Group(K, k) \in SUBSET K /\ k \in B!Group(K, k)
      BY GroupIs
    <2>2. PICK l \in B!Group(K, k) : \A j \in B!Group(K, k) : l <= j
      BY <2>1, Least
    <2>3. B!Group(K, l) = B!Group(K, k) /\ l \in K
      BY <2>1, GroupsMeet
    <2>. QED
      BY <2>1, <2>2, <2>3 DEF B!Leaders
  <1>3. ASSUME NEW l \in B!Leaders(K), NEW m \in B!Leaders(K),
               NEW x \in B!Group(K, l) \cap B!Group(K, m)
        PROVE  l = m
    <2>1. l \in K /\ m \in K
      BY <1>1
    <2>2. l \in B!Group(K, l) /\ m \in B!Group(K, m)
      BY <2>1, GroupIs
    <2>3. B!Group(K, l) = B!Group(K, m)
      BY <2>1, GroupsMeet
    <2>4. l <= m /\ m <= l
      BY <2>2, <2>3 DEF B!Leaders
    <2>. QED
      BY <2>1, <2>4
  <1>. QED
    BY <1>1, <1>2, <1>3

(* As many ranks as numbers: each number has its own, and none is left.    *)
LEMMA RankIs ==
    ASSUME NEW S \in SUBSET Nat, IsFiniteSet(S)
    PROVE  /\ Cardinality(S) \in Nat
           /\ \A x \in S : B!Rank(x, S) \in 0 .. Cardinality(S) - 1
           /\ \A x, z \in S : x < z => B!Rank(x, S) < B!Rank(z, S)
           /\ \A i \in 0 .. Cardinality(S) - 1 : \E x \in S : B!Rank(x, S) = i
  <1>. DEFINE c == Cardinality(S)
              f == [x \in S |-> B!Rank(x, S)]
  <1>1. c \in Nat
    BY FS_CardinalityType
  <1>2. ASSUME NEW T \in SUBSET S PROVE IsFiniteSet(T) /\ Cardinality(T) \in Nat
    BY FS_Subset, FS_CardinalityType
  <1>3. ASSUME NEW T \in SUBSET S, NEW R \in SUBSET T, T # R
        PROVE  Cardinality(R) < Cardinality(T)
    <2>1. IsFiniteSet(T) /\ Cardinality(T) \in Nat /\ Cardinality(R) \in Nat
      BY <1>2
    <2>2. Cardinality(R) <= Cardinality(T) /\ (Cardinality(T) = Cardinality(R) => T = R)
      BY <2>1, FS_Subset
    <2>. QED
      BY <1>3, <2>1, <2>2
  <1>5. ASSUME NEW x \in S PROVE B!Rank(x, S) \in 0 .. c - 1
    <2>1. {y \in S : y < x} \in SUBSET S /\ S # {y \in S : y < x}
      OBVIOUS
    <2>2. B!Rank(x, S) < c /\ B!Rank(x, S) \in Nat
      BY <1>2, <1>3, <2>1, BatchLibrary DEF B!Rank
    <2>. HIDE DEF c
    <2>. QED
      BY <1>1, <2>2
  <1>6. ASSUME NEW x \in S, NEW z \in S, x < z PROVE B!Rank(x, S) < B!Rank(z, S)
    <2>1. \A y \in S : y < x => y < z
      BY <1>6
    <2>2. x \in {y \in S : y < z} /\ x \notin {y \in S : y < x}
      BY <1>6
    <2>3. {y \in S : y < x} \in SUBSET {y \in S : y < z}
      BY <2>1
    <2>. QED
      BY <1>3, <2>2, <2>3, BatchLibrary DEF B!Rank
  <1>7. ASSUME NEW x \in S, NEW z \in S, B!Rank(x, S) = B!Rank(z, S) PROVE x = z
    <2>1. ~(x < z) /\ ~(z < x)
      <3>1. B!Rank(x, S) \in Nat
        BY <1>5
      <3>. QED
        BY <1>6, <1>7, <3>1
    <2>. QED
      BY <2>1
  <1>. HIDE DEF c
  <1>8. f \in Injection(S, 0 .. c - 1)
    BY <1>5, <1>7 DEF Injection, IsInjective
  <1>9. IsFiniteSet(0 .. c - 1) /\ Cardinality(0 .. c - 1) = c
    <2>1. IsFiniteSet(0 .. c - 1) /\ Cardinality(0 .. c - 1) = IF 0 > c - 1 THEN 0 ELSE c - 1 - 0 + 1
      BY <1>1, FS_Interval
    <2>. QED
      BY <1>1, <2>1
  <1>10. f \in Surjection(S, 0 .. c - 1)
    BY <1>8, <1>9, FS_Injection DEF c
  <1>11. \A i \in 0 .. c - 1 : \E x \in S : B!Rank(x, S) = i
    BY <1>10 DEF Surjection
  <1>. QED
    BY <1>1, <1>5, <1>6, <1>11 DEF c

LEMMA InOrderIs ==
    ASSUME NEW K \in SUBSET Nat, IsFiniteSet(K)
    PROVE  LET gs == B!InOrder(K) IN
           /\ gs \in Seq(SUBSET K)
           /\ \A i \in 1 .. Len(gs) : \E l \in K : gs[i] = B!Group(K, l)
           /\ \A i, j \in 1 .. Len(gs) : i # j => gs[i] \cap gs[j] = {}
           /\ \A k \in K : \E i \in 1 .. Len(gs) : k \in gs[i]
  <1>. DEFINE S == B!Leaders(K)
              c == Cardinality(S)
              Lead(i) == CHOOSE k \in S : B!Rank(k, S) = i - 1
              gs == B!InOrder(K)
  <1>1. S \in SUBSET K /\ IsFiniteSet(S)
    BY LeadersIs, FS_Subset
  <1>2. c \in Nat /\ \A x \in S : B!Rank(x, S) \in 0 .. c - 1
    BY <1>1, RankIs
  <1>3. \A i \in 0 .. c - 1 : \E x \in S : B!Rank(x, S) = i
    BY <1>1, RankIs
  <1>4. \A x, z \in S : B!Rank(x, S) = B!Rank(z, S) => x = z
    <2>1. \A x, z \in S : x < z => B!Rank(x, S) < B!Rank(z, S)
      BY <1>1, RankIs
    <2>2. ASSUME NEW x \in S, NEW z \in S, B!Rank(x, S) = B!Rank(z, S) PROVE x = z
      <3>. HIDE DEF S, c
      <3>1. B!Rank(x, S) \in Nat /\ x \in Nat /\ z \in Nat
        BY <1>1, <1>2
      <3>2. ~(x < z) /\ ~(z < x)
        BY <2>1, <2>2, <3>1
      <3>. QED
        BY <3>1, <3>2
    <2>. QED
      BY <2>2
  <1>5. gs = [i \in 1 .. c |-> B!Group(K, Lead(i))]
    BY BatchLibrary DEF B!InOrder
  <1>6. \A l \in S : B!Group(K, l) \in SUBSET K
    BY <1>1, GroupIs
  <1>7. /\ \A k \in K : \E l \in S : k \in B!Group(K, l)
        /\ \A l, m \in S : l # m => B!Group(K, l) \cap B!Group(K, m) = {}
    BY LeadersIs
  <1>. HIDE DEF S, c, gs
  <1>8. ASSUME NEW i \in 1 .. c PROVE Lead(i) \in S /\ B!Rank(Lead(i), S) = i - 1
    <2>1. i - 1 \in 0 .. c - 1
      BY <1>2
    <2>. QED
      BY <1>3, <2>1
  <1>. HIDE DEF Lead
  <1>9. gs \in [1 .. c -> SUBSET K] /\ \A i \in 1 .. c : gs[i] = B!Group(K, Lead(i))
    BY <1>5, <1>6, <1>8
  <1>10. gs \in Seq(SUBSET K) /\ Len(gs) = c
    BY <1>2, <1>9
  <1>11. ASSUME NEW i \in 1 .. c, NEW j \in 1 .. c, i # j PROVE gs[i] \cap gs[j] = {}
    <2>1. Lead(i) # Lead(j)
      BY <1>8, <1>11
    <2>. QED
      BY <1>7, <1>8, <1>9, <2>1
  <1>12. ASSUME NEW k \in K PROVE \E i \in 1 .. c : k \in gs[i]
    <2>1. PICK l \in S : k \in B!Group(K, l)
      BY <1>7
    <2>2. B!Rank(l, S) \in 0 .. c - 1
      BY <1>2
    <2>3. B!Rank(l, S) + 1 \in 1 .. c /\ (B!Rank(l, S) + 1) - 1 = B!Rank(l, S)
      BY <1>2, <2>2
    <2>4. Lead(B!Rank(l, S) + 1) = l
      BY <1>4, <1>8, <2>3
    <2>. QED
      BY <1>9, <2>1, <2>3, <2>4
  <1>13. \A i \in 1 .. c : \E l \in K : gs[i] = B!Group(K, l)
    BY <1>1, <1>8, <1>9
  <1>. QED
    BY <1>10, <1>11, <1>12, <1>13, Zenon DEF gs

-----------------------------------------------------------------------------
(* The packing.  Bodies of whole groups, in which each row of U is once.   *)
Bodies(cs, K, U) ==
    /\ cs \in Seq(SUBSET K)
    /\ \A i \in 1 .. Len(cs) : cs[i] # {}
    /\ \A i, j \in 1 .. Len(cs) : i # j => cs[i] \cap cs[j] = {}
    /\ \A k \in K : (\E i \in 1 .. Len(cs) : k \in cs[i]) <=> k \in U
    /\ \A i \in 1 .. Len(cs) : \A k \in cs[i] : B!Group(K, k) \subseteq cs[i]
    /\ \A i \in 1 .. Len(cs) : B!Weigh(cs[i]) <= Budget \/ \E k \in K : B!Group(K, k) = cs[i]

LEMMA PackIs ==
    ASSUME NEW K, IsFiniteSet(K), NEW cs, NEW U, Bodies(cs, K, U),
           NEW l \in K, B!Group(K, l) \cap U = {}
    PROVE  Bodies(B!Pack(cs, B!Group(K, l)), K, U \cup B!Group(K, l))
  <1>. DEFINE g == B!Group(K, l)
              ds == B!Pack(cs, g)
              top == Len(cs)
  <1>1. /\ cs \in Seq(SUBSET K) /\ top \in Nat
        /\ \A i \in 1 .. top : cs[i] # {} /\ cs[i] \in SUBSET K
        /\ \A i, j \in 1 .. top : i # j => cs[i] \cap cs[j] = {}
        /\ \A k \in K : (\E i \in 1 .. top : k \in cs[i]) <=> k \in U
        /\ \A i \in 1 .. top : \A k \in cs[i] : B!Group(K, k) \subseteq cs[i]
        /\ \A i \in 1 .. top : B!Weigh(cs[i]) <= Budget \/ \E k \in K : B!Group(K, k) = cs[i]
    BY DEF Bodies
  <1>2. g \in SUBSET K /\ g # {} /\ g \cap U = {}
    BY GroupIs
  <1>3. \A k \in g : B!Group(K, k) = g
    BY GroupsMeet
  <1>4. \A i \in 1 .. top : cs[i] \cap g = {}
    BY <1>1, <1>2
  <1>5. CASE cs # <<>> /\ B!Weigh(cs[top] \cup g) <= Budget
    <2>1. ds = [cs EXCEPT ![top] = cs[top] \cup g]
      BY <1>5 DEF B!Pack
    <2>2. top \in 1 .. top
      BY <1>1, <1>5
    <2>3. /\ ds \in Seq(SUBSET K) /\ Len(ds) = top
          /\ \A i \in 1 .. top : ds[i] = IF i = top THEN cs[top] \cup g ELSE cs[i]
      BY <1>1, <1>2, <2>1, <2>2
    <2>. HIDE DEF g, ds, top
    <2>4. \A i \in 1 .. top : ds[i] # {}
      BY <1>1, <2>3
    <2>5. ASSUME NEW i \in 1 .. top, NEW j \in 1 .. top, i # j PROVE ds[i] \cap ds[j] = {}
      BY <1>1, <1>4, <2>2, <2>3, <2>5
    <2>6. ASSUME NEW k \in K PROVE (\E i \in 1 .. top : k \in ds[i]) <=> k \in U \cup g
      <3>1. ASSUME NEW i \in 1 .. top, k \in ds[i] PROVE k \in U \cup g
        BY <1>1, <2>2, <2>3, <3>1
      <3>2. ASSUME k \in U PROVE \E i \in 1 .. top : k \in ds[i]
        BY <1>1, <2>3, <3>2
      <3>3. ASSUME k \in g PROVE \E i \in 1 .. top : k \in ds[i]
        BY <2>2, <2>3, <3>3
      <3>. QED
        BY <3>1, <3>2, <3>3
    <2>7. ASSUME NEW i \in 1 .. top, NEW k \in ds[i] PROVE B!Group(K, k) \subseteq ds[i]
      <3>1. k \in cs[i] \/ (k \in g /\ i = top)
        BY <2>3
      <3>2. cs[i] \subseteq ds[i] /\ (i = top => g \subseteq ds[i])
        BY <2>3
      <3>. QED
        BY <1>1, <1>3, <3>1, <3>2
    <2>8. ASSUME NEW i \in 1 .. top
          PROVE  B!Weigh(ds[i]) <= Budget \/ \E k \in K : B!Group(K, k) = ds[i]
      <3>1. CASE i = top
        BY <1>5, <2>3, <3>1
      <3>2. CASE i # top
        BY <1>1, <2>3, <3>2
      <3>. QED
        BY <3>1, <3>2
    <2>9. Bodies(ds, K, U \cup g)
      BY <2>3, <2>4, <2>5, <2>6, <2>7, <2>8 DEF Bodies
    <2>. QED
      BY <2>9 DEF g, ds
  <1>6. CASE ~(cs # <<>> /\ B!Weigh(cs[top] \cup g) <= Budget)
    <2>1. ds = Append(cs, g)
      BY <1>6, Zenon DEF B!Pack
    <2>3. /\ ds \in Seq(SUBSET K) /\ Len(ds) = top + 1 /\ ds[top + 1] = g
          /\ \A i \in 1 .. top : ds[i] = cs[i]
      BY <1>1, <1>2, <2>1
    <2>. HIDE DEF g, ds, top
    <2>2. /\ \A i \in 1 .. top + 1 : i \in 1 .. top \/ i = top + 1
          /\ \A i \in 1 .. top : i \in 1 .. top + 1
          /\ top + 1 \in 1 .. top + 1
      BY <1>1
    <2>4. \A i \in 1 .. top + 1 : ds[i] # {}
      BY <1>1, <1>2, <2>2, <2>3
    <2>5. ASSUME NEW i \in 1 .. top + 1, NEW j \in 1 .. top + 1, i # j PROVE ds[i] \cap ds[j] = {}
      <3>1. CASE i \in 1 .. top /\ j \in 1 .. top
        BY <1>1, <2>3, <2>5, <3>1
      <3>2. CASE i = top + 1 \/ j = top + 1
        BY <1>4, <2>2, <2>3, <2>5, <3>2
      <3>. QED
        BY <2>2, <3>1, <3>2
    <2>6. ASSUME NEW k \in K PROVE (\E i \in 1 .. top + 1 : k \in ds[i]) <=> k \in U \cup g
      <3>1. ASSUME NEW i \in 1 .. top + 1, k \in ds[i] PROVE k \in U \cup g
        BY <1>1, <2>2, <2>3, <3>1
      <3>2. ASSUME k \in U PROVE \E i \in 1 .. top + 1 : k \in ds[i]
        BY <1>1, <2>2, <2>3, <3>2
      <3>3. ASSUME k \in g PROVE \E i \in 1 .. top + 1 : k \in ds[i]
        BY <2>2, <2>3, <3>3
      <3>. QED
        BY <3>1, <3>2, <3>3
    <2>7. ASSUME NEW i \in 1 .. top + 1, NEW k \in ds[i] PROVE B!Group(K, k) \subseteq ds[i]
      BY <1>1, <1>3, <2>2, <2>3, <2>7
    <2>8. ASSUME NEW i \in 1 .. top + 1
          PROVE  B!Weigh(ds[i]) <= Budget \/ \E k \in K : B!Group(K, k) = ds[i]
      <3>1. CASE i \in 1 .. top
        BY <1>1, <2>3, <3>1
      <3>2. CASE i = top + 1
        BY <2>3, <3>2 DEF g
      <3>. QED
        BY <2>2, <3>1, <3>2
    <2>9. Bodies(ds, K, U \cup g)
      BY <2>3, <2>4, <2>5, <2>6, <2>7, <2>8 DEF Bodies
    <2>. QED
      BY <2>9 DEF g, ds
  <1>. QED
    BY <1>5, <1>6

LEMMA PackedExists ==
    ASSUME NEW K, Len(B!InOrder(K)) \in Nat
    PROVE  B!Packed(K) = [n \in 0 .. Len(B!InOrder(K)) |->
               IF n = 0 THEN <<>> ELSE B!Pack(B!Packed(K)[n - 1], B!InOrder(K)[n])]
  <1>. DEFINE c == Len(B!InOrder(K))
              Step(m, i) == B!Pack(m, B!InOrder(K)[i])
              Filled(n, g) == g = [i \in 0 .. n |-> IF i = 0 THEN <<>> ELSE Step(g[i - 1], i)]
              Bad == {n \in Nat : n <= c /\ \A g : ~Filled(n, g)}
  <1>1. c \in Nat
    OBVIOUS
  <1>0. Bad \in SUBSET Nat /\ \A n \in Bad : n <= c
    OBVIOUS
  <1>. HIDE DEF c
  <1>2. Bad = {}
    <2>1. SUFFICES ASSUME Bad # {} PROVE FALSE
      OBVIOUS
    <2>2. PICK n \in Bad : \A y \in Bad : n <= y
      <3>. HIDE DEF Bad
      <3>. QED
        BY <1>0, <2>1, Least
    <2>3. n # 0
      <3>. DEFINE g == [i \in 0 .. 0 |-> <<>>]
      <3>1. Filled(0, g)
        OBVIOUS
      <3>. QED
        BY <3>1, <2>2
    <2>4. n - 1 \in Nat /\ n - 1 \notin Bad /\ n - 1 <= c
      <3>. HIDE DEF Bad
      <3>1. n \in Nat /\ n <= c
        BY <1>0
      <3>. QED
        BY <1>1, <2>2, <2>3, <3>1
    <2>5. PICK g : Filled(n - 1, g)
      <3>. HIDE DEF Filled
      <3>. QED
        BY <2>4
    <2>. HIDE DEF Step
    <2>. DEFINE h == [i \in 0 .. n |-> IF i = n THEN Step(g[n - 1], n) ELSE g[i]]
    <2>6. ASSUME NEW i \in 0 .. n PROVE h[i] = IF i = 0 THEN <<>> ELSE Step(h[i - 1], i)
      <3>1. CASE i = 0
        BY <2>3, <2>4, <2>5, <3>1
      <3>2. CASE i = n
        BY <2>3, <2>4, <3>2
      <3>3. CASE i # 0 /\ i # n
        <4>1. i \in 0 .. n - 1 /\ i - 1 \in 0 .. n /\ i - 1 # n
          BY <2>4, <3>3
        <4>2. h[i] = g[i] /\ h[i - 1] = g[i - 1]
          BY <3>3, <4>1
        <4>3. g[i] = Step(g[i - 1], i)
          BY <2>5, <3>3, <4>1
        <4>. QED
          BY <3>3, <4>2, <4>3
      <3>. QED
        BY <3>1, <3>2, <3>3
    <2>7. Filled(n, h)
      BY <2>6
    <2>. QED
      BY <2>2, <2>7
  <1>3. \E g : Filled(c, g)
    <2>1. c \notin Bad /\ c <= c
      BY <1>1, <1>2
    <2>. HIDE DEF Filled
    <2>. QED
      BY <1>1, <2>1
  <1>. QED
    BY <1>3, Zenon DEF B!Packed, c

(* The bodies of a set hold each of its rows once.                         *)
LEMMA SplitIs ==
    ASSUME NEW K \in SUBSET Nat, IsFiniteSet(K)
    PROVE  Bodies(B!Split(K), K, K)
  <1>. DEFINE gs == B!InOrder(K)
              c == Len(gs)
              T == B!Packed(K)
              First(n) == UNION {gs[j] : j \in 1 .. n}
              Bad == {n \in Nat : n <= c /\ ~Bodies(T[n], K, First(n))}
  <1>1. /\ gs \in Seq(SUBSET K) /\ c \in Nat
        /\ \A i \in 1 .. c : \E l \in K : gs[i] = B!Group(K, l)
        /\ \A i, j \in 1 .. c : i # j => gs[i] \cap gs[j] = {}
        /\ \A k \in K : \E i \in 1 .. c : k \in gs[i]
    <2>1. gs \in Seq(SUBSET K)
      BY InOrderIs
    <2>2. c \in Nat
      BY <2>1
    <2>3. \A i \in 1 .. c : \E l \in K : gs[i] = B!Group(K, l)
      BY InOrderIs
    <2>4. \A i, j \in 1 .. c : i # j => gs[i] \cap gs[j] = {}
      BY InOrderIs
    <2>5. \A k \in K : \E i \in 1 .. c : k \in gs[i]
      BY InOrderIs
    <2>. QED
      BY <2>1, <2>2, <2>3, <2>4, <2>5
  <1>0. c \in Nat
    BY <1>1
  <1>2. T = [n \in 0 .. c |-> IF n = 0 THEN <<>> ELSE B!Pack(T[n - 1], gs[n])]
    BY <1>1, PackedExists
  <1>. HIDE DEF gs, c, T
  <1>3. T[0] = <<>> /\ \A n \in Nat : n # 0 /\ n <= c => T[n] = B!Pack(T[n - 1], gs[n])
    <2>1. ASSUME NEW n \in Nat, n # 0, n <= c PROVE T[n] = B!Pack(T[n - 1], gs[n])
      <3>1. n \in 0 .. c
        BY <1>0, <2>1
      <3>2. \A i \in 0 .. c : T[i] = IF i = 0 THEN <<>> ELSE B!Pack(T[i - 1], gs[i])
        BY <1>2, Zenon
      <3>. QED
        BY <2>1, <3>1, <3>2, Zenon
    <2>2. T[0] = <<>>
      BY <1>0, <1>2
    <2>. QED
      BY <2>1, <2>2
  <1>4. Bodies(T[0], K, First(0))
    BY <1>3 DEF Bodies
  <1>5. ASSUME NEW n \in Nat, n # 0, n <= c, Bodies(T[n - 1], K, First(n - 1))
        PROVE  Bodies(T[n], K, First(n))
    <2>1. n \in 1 .. c /\ n - 1 \in Nat
      BY <1>0, <1>5
    <2>2. PICK l \in K : gs[n] = B!Group(K, l)
      BY <1>1, <2>1
    <2>3. First(n) = First(n - 1) \cup gs[n]
      BY <2>1
    <2>4. ASSUME NEW j \in 1 .. n - 1 PROVE gs[j] \cap gs[n] = {}
      <3>1. j \in 1 .. c /\ j # n
        BY <1>0, <2>1
      <3>. QED
        BY <1>1, <2>1, <3>1
    <2>5. gs[n] \cap First(n - 1) = {}
      BY <2>4
    <2>6. T[n] = B!Pack(T[n - 1], gs[n])
      BY <1>3, <1>5
    <2>. HIDE DEF First
    <2>. QED
      BY <1>5, <2>2, <2>3, <2>5, <2>6, PackIs
  <1>6. Bad = {}
    <2>0. Bad \in SUBSET Nat /\ \A n \in Bad : n <= c /\ ~Bodies(T[n], K, First(n))
      OBVIOUS
    <2>1. SUFFICES ASSUME Bad # {} PROVE FALSE
      OBVIOUS
    <2>2. PICK n \in Bad : \A y \in Bad : n <= y
      <3>. HIDE DEF Bad
      <3>. QED
        BY <2>0, <2>1, Least
    <2>3. n \in Nat /\ n <= c /\ ~Bodies(T[n], K, First(n))
      BY <2>0
    <2>. HIDE DEF First
    <2>4. n # 0
      BY <1>4, <2>3
    <2>5. n - 1 \in Nat /\ n - 1 <= c /\ n - 1 \notin Bad
      <3>. HIDE DEF Bad
      <3>. QED
        BY <1>1, <2>2, <2>3, <2>4
    <2>6. Bodies(T[n - 1], K, First(n - 1))
      BY <2>5
    <2>. QED
      BY <1>5, <2>3, <2>4, <2>6
  <1>7. Bodies(T[c], K, First(c))
    <2>. HIDE DEF First
    <2>. QED
      BY <1>1, <1>6
  <1>8. First(c) = K
    <2>1. \A i \in 1 .. c : gs[i] \in SUBSET K
      BY <1>1 DEF c
    <2>2. \A k \in K : \E i \in 1 .. c : k \in gs[i]
      BY <1>1
    <2>. QED
      BY <2>1, <2>2
  <1>. HIDE DEF First
  <1>9. B!Split(K) = T[c]
    BY DEF B!Split, T, c, gs
  <1>. QED
    BY <1>7, <1>8, <1>9

-----------------------------------------------------------------------------
(* The invariant.                                                          *)

Working == turn \in {"post", "verify", "assert", "replay"}
Noted == recorded \cup named
Busy == written \cup UNION pending
Withholds(S) == B!Cycles(S) \cup B!Deferred(S)

(* What a run sends was cut from what it attempts.                         *)
CutInv ==
    /\ Bodies(chunks, B!Attempted, B!Attempted)
    /\ B!Planned \ B!Attempted \subseteq named
    /\ \A S \in posted : S \subseteq B!Attempted

(* What is behind is noted, and of the present body what is not to do.     *)
NotedInv ==
    /\ Working => /\ pos \in 1 .. Len(chunks)
                  /\ \A i \in 1 .. Len(chunks) : i < pos => chunks[i] \subseteq Noted
    /\ turn \in {"post", "verify"} => todo = {}
    /\ turn \in {"assert", "replay"} => todo \subseteq B!Chunk /\ B!Chunk \subseteq Noted \cup todo
    /\ turn = "replay" /\ ~attach => Withholds(B!Chunk) \subseteq named
    /\ B!NothingIsSilent

(* What is still to be sent is neither stored by this run nor on its way.  *)
CleanInv ==
    /\ Working => \A i \in 1 .. Len(chunks) : i > pos => chunks[i] \cap Busy = {}
    /\ turn = "post" => B!Chunk \cap Busy = {}
    /\ turn = "replay" => todo \cap Busy = {}

(* A proxy of a cycle goes out alone only when that was accepted.          *)
Alone == \E p \in B!Cycles(B!Attempted) : {p} \in posted
AttachInv ==
    /\ attach => flag
    /\ Alone => turn \in {"replay", "done"} /\ attach

BatchInv == B!TypeOK /\ CutInv /\ NotedInv /\ CleanInv /\ AttachInv

-----------------------------------------------------------------------------
(* What the inputs decide.                                                 *)

LEMMA PlansAre ==
    ASSUME B!BatchAssumption
    PROVE  /\ B!Planned \in SUBSET Key /\ B!Attempted \in SUBSET B!Planned
           /\ B!Attempted \in SUBSET Nat /\ IsFiniteSet(B!Attempted)
  <1>1. B!Planned \in SUBSET Key
    BY DEF B!Planned, B!Cycles, B!Deferred, B!OfKind
  <1>2. B!Attempted \in SUBSET B!Planned
    BY DEF B!Attempted
  <1>3. B!Attempted \in SUBSET Key
    BY <1>1, <1>2
  <1>. QED
    BY <1>1, <1>2, <1>3, FS_Subset, BatchLibrary DEF B!BatchAssumption

LEMMA ChunksAre ==
    ASSUME B!BatchAssumption, Bodies(chunks, B!Attempted, B!Attempted)
    PROVE  /\ Len(chunks) \in Nat
           /\ \A i \in 1 .. Len(chunks) : chunks[i] \in SUBSET B!Attempted
           /\ \A i \in 1 .. Len(chunks) : chunks[i] \in SUBSET Key
           /\ \A i \in 1 .. Len(chunks) : chunks[i] # {}
           /\ \A i, j \in 1 .. Len(chunks) : i # j => chunks[i] \cap chunks[j] = {}
           /\ \A k \in B!Attempted : \E i \in 1 .. Len(chunks) : k \in chunks[i]
  <1>1. Len(chunks) \in Nat /\ \A i \in 1 .. Len(chunks) : chunks[i] \in SUBSET B!Attempted
    BY DEF Bodies
  <1>2. B!Attempted \in SUBSET Key
    BY PlansAre
  <1>3. \A k \in B!Attempted : \E i \in 1 .. Len(chunks) : k \in chunks[i]
    BY DEF Bodies
  <1>. QED
    BY <1>1, <1>2, <1>3 DEF Bodies

(* What is noted of every body, and of what was not attempted, is all.     *)
LEMMA AllNoted ==
    ASSUME B!BatchAssumption, Bodies(chunks, B!Attempted, B!Attempted), NEW A,
           B!Planned \ B!Attempted \subseteq A,
           \A i \in 1 .. Len(chunks) : chunks[i] \subseteq A
    PROVE  B!Planned \subseteq A
  BY ChunksAre

(* A proxy of a cycle is in one body with the plugin that waits for it.    *)
LEMMA CyclesAreWhole ==
    ASSUME B!BatchAssumption, Bodies(chunks, B!Attempted, B!Attempted),
           NEW i \in 1 .. Len(chunks), NEW p \in B!Cycles(B!Attempted), p \in chunks[i]
    PROVE  p \in B!Cycles(chunks[i]) /\ chunks[i] # {p}
  <1>1. PICK c \in B!Attempted : ScopedTo[c] = p
    BY DEF B!Cycles
  <1>2. p \in B!Attempted /\ p \in Key /\ KindsOf[p] = "Proxy" /\ p # NoKey
    BY PlansAre DEF B!Cycles, B!OfKind, B!BatchAssumption
  <1>3. c \in Key /\ KindsOf[c] = "PluginConfig" /\ c # p
    BY <1>1, <1>2, PlansAre DEF B!BatchAssumption
  <1>4. B!Group(B!Attempted, p) \subseteq chunks[i]
    BY DEF Bodies
  <1>5. p \in B!Group(B!Attempted, p) /\ Closed(B!Group(B!Attempted, p), B!Attempted)
    BY <1>2, PlansAre, GroupIs
  <1>6. c \in B!Group(B!Attempted, p)
    BY <1>1, <1>5 DEF Closed, B!Linked
  <1>. QED
    BY <1>1, <1>2, <1>3, <1>4, <1>6, ChunksAre DEF B!Cycles, B!OfKind

(* What is attempted uses nothing that failed.                             *)
LEMMA AttemptedIsSound ==
    ASSUME B!BatchAssumption, CutInv
    PROVE  B!NothingOverFailed
  <1>. SUFFICES ASSUME NEW S \in posted, NEW p \in B!OfKind(S, "Proxy")
                PROVE  Uses[p] \cap failedBefore = {}
    BY DEF B!NothingOverFailed
  <1>1. p \in B!Attempted /\ p \in B!Planned /\ p \notin B!Blocked(B!Planned, failedBefore)
    BY DEF CutInv, B!OfKind, B!Attempted
  <1>2. IsFiniteSet(B!Planned)
    BY PlansAre, FS_Subset, BatchLibrary DEF B!BatchAssumption
  <1>3. p \in B!Group(B!Planned, p) /\ B!Group(B!Planned, p) \in B!Groups(B!Planned)
    BY <1>1, <1>2, GroupIs DEF B!Groups
  <1>4. p \in B!OfKind(B!Group(B!Planned, p), "Proxy")
    BY <1>3 DEF B!OfKind
  <1>. QED
    BY <1>1, <1>3, <1>4 DEF B!Blocked

(* The cut follows from what does not change.                              *)
LEMMA CutStep ==
    ASSUME B!BatchAssumption, CutInv, UNCHANGED <<B!inputs, chunks>>,
           named \subseteq named', \A S \in posted' : S \in posted \/ S \subseteq B!Attempted
    PROVE  CutInv' /\ B!Planned' = B!Planned /\ B!Attempted' = B!Attempted
  <1>1. B!Planned' = B!Planned /\ B!Attempted' = B!Attempted
    BY DEF B!inputs, B!Planned, B!Attempted
  <1>2. Bodies(chunks, B!Attempted, B!Attempted)'
    BY <1>1 DEF CutInv, Bodies, B!Weigh, B!inputs
  <1>. QED
    BY <1>1, <1>2 DEF CutInv

LEMMA BatchInit == ASSUME B!BatchAssumption, B!Init PROVE BatchInv
  <1>1. Bodies(chunks, B!Attempted, B!Attempted)
    BY PlansAre, SplitIs DEF B!Init
  <1>2. Len(chunks) \in Nat /\ (B!Attempted # {} => 1 \in 1 .. Len(chunks))
    BY <1>1, ChunksAre
  <1>3. named = B!Planned \ B!Attempted /\ B!Planned \in SUBSET Key
    BY PlansAre DEF B!Init
  <1>4. B!TypeOK
    <2>1. failedBefore \subseteq Older /\ turn \in {"post", "done"} /\ named \subseteq Key
      BY <1>3 DEF B!Init
    <2>2. pos \in 1 .. Len(chunks) + 1
      BY <1>2 DEF B!Init
    <2>. QED
      BY <2>1, <2>2 DEF B!Init, B!TypeOK
  <1>5. CutInv
    BY <1>1, <1>3 DEF B!Init, CutInv
  <1>6. NotedInv
    <2>1. B!NothingIsSilent
      BY <1>3 DEF B!Init, B!NothingIsSilent
    <2>. QED
      BY <1>2, <2>1 DEF B!Init, NotedInv, Working
  <1>7. CleanInv
    BY DEF B!Init, CleanInv, Busy
  <1>8. AttachInv
    BY DEF B!Init, AttachInv, Alone
  <1>. QED
    BY <1>4, <1>5, <1>6, <1>7, <1>8 DEF BatchInv

-----------------------------------------------------------------------------
(* What steps have in common.                                              *)

LEMMA AtWork ==
    ASSUME B!BatchAssumption, BatchInv, Working
    PROVE  /\ pos \in 1 .. Len(chunks) /\ Len(chunks) \in Nat /\ pos \in Nat
           /\ pos + 1 \in 1 .. Len(chunks) + 1 /\ (pos < Len(chunks) => pos + 1 \in 1 .. Len(chunks))
           /\ B!Chunk \in SUBSET B!Attempted /\ B!Chunk \in SUBSET Key /\ B!Chunk # {}
           /\ \A i \in 1 .. Len(chunks) : i # pos => chunks[i] \cap B!Chunk = {}
           /\ \A i \in 1 .. Len(chunks) : i < pos => chunks[i] \subseteq Noted
           /\ \A i \in 1 .. Len(chunks) : i > pos => chunks[i] \cap Busy = {}
  <1>1. pos \in 1 .. Len(chunks) /\ Len(chunks) \in Nat
    BY ChunksAre DEF BatchInv, NotedInv, CutInv
  <1>2. /\ pos \in Nat /\ pos + 1 \in 1 .. Len(chunks) + 1
        /\ (pos < Len(chunks) => pos + 1 \in 1 .. Len(chunks))
    BY <1>1
  <1>3. /\ B!Chunk \in SUBSET B!Attempted /\ B!Chunk \in SUBSET Key /\ B!Chunk # {}
        /\ \A i \in 1 .. Len(chunks) : i # pos => chunks[i] \cap B!Chunk = {}
    BY <1>1, ChunksAre DEF BatchInv, CutInv, B!Chunk
  <1>. QED
    BY <1>1, <1>2, <1>3 DEF BatchInv, NotedInv, CleanInv

(* The rest of the bodies are what comes after this one.                   *)
LEMMA RestNoted ==
    ASSUME B!BatchAssumption, BatchInv, Working, NEW A,
           Noted \subseteq A, B!Chunk \subseteq A, B!NoteUnattempted(pos + 1) \subseteq A
    PROVE  B!Planned \subseteq A
  <1>1. ASSUME NEW i \in 1 .. Len(chunks) PROVE chunks[i] \subseteq A
    <2>1. CASE i < pos
      BY <2>1, AtWork
    <2>2. CASE i = pos
      BY <2>2 DEF B!Chunk
    <2>3. CASE i > pos
      <3>1. i \in pos + 1 .. Len(chunks)
        BY <2>3, AtWork
      <3>. QED
        BY <3>1 DEF B!NoteUnattempted, B!Rest
    <2>. QED
      BY <2>1, <2>2, <2>3, AtWork
  <1>. QED
    BY <1>1, AllNoted DEF BatchInv, CutInv, Noted

(* No body is a proxy of a cycle alone.                                    *)
LEMMA NotAlone ==
    ASSUME B!BatchAssumption, BatchInv, turn \in {"post", "verify", "assert"},
           B!Attempted' = B!Attempted, \A S \in posted' : S \in posted \/ S = B!Chunk
    PROVE  ~Alone'
  <1>1. ~Alone
    BY DEF BatchInv, AttachInv
  <1>2. pos \in 1 .. Len(chunks)
    BY AtWork DEF Working
  <1>3. \A p \in B!Cycles(B!Attempted) : B!Chunk # {p}
    BY <1>2, CyclesAreWhole DEF BatchInv, CutInv, B!Chunk
  <1>. QED
    BY <1>1, <1>3 DEF Alone

(* A step to the next body.                                                *)
LEMMA OnwardIs ==
    ASSUME B!BatchAssumption, BatchInv, turn \in {"post", "verify", "assert"}, B!Onward,
           UNCHANGED <<B!inputs, chunks, attach>>, Noted \subseteq Noted', B!Chunk \subseteq Noted',
           named \subseteq named', Busy' \subseteq Busy \cup B!Chunk,
           \A S \in posted' : S \in posted \/ S = B!Chunk
    PROVE  CutInv' /\ NotedInv' /\ CleanInv' /\ AttachInv'
  <1>1. Working
    BY DEF Working
  <1>2. /\ pos \in 1 .. Len(chunks) /\ Len(chunks) \in Nat /\ pos \in Nat
        /\ (pos < Len(chunks) => pos + 1 \in 1 .. Len(chunks))
        /\ B!Chunk \in SUBSET B!Attempted
        /\ \A i \in 1 .. Len(chunks) : i # pos => chunks[i] \cap B!Chunk = {}
        /\ \A i \in 1 .. Len(chunks) : i < pos => chunks[i] \subseteq Noted
        /\ \A i \in 1 .. Len(chunks) : i > pos => chunks[i] \cap Busy = {}
    BY <1>1, AtWork
  <1>3. CutInv' /\ B!Planned' = B!Planned /\ B!Attempted' = B!Attempted
    BY <1>2, CutStep DEF BatchInv
  <1>4. /\ pos' = pos + 1 /\ todo' = {} /\ chunks' = chunks
        /\ turn' = IF pos < Len(chunks) THEN "post" ELSE "done"
    BY DEF B!Onward
  <1>5. \A i \in 1 .. Len(chunks) : i <= pos => chunks[i] \subseteq Noted'
    BY <1>2 DEF B!Chunk
  <1>6. NotedInv'
    <2>1. CASE pos < Len(chunks)
      <3>1. \A i \in 1 .. Len(chunks) : i < pos + 1 => chunks[i] \subseteq Noted'
        BY <1>2, <1>5
      <3>2. (Working => /\ pos \in 1 .. Len(chunks)
                        /\ \A i \in 1 .. Len(chunks) : i < pos => chunks[i] \subseteq Noted)'
        BY <1>2, <1>4, <2>1, <3>1
      <3>. QED
        BY <1>4, <2>1, <3>2 DEF NotedInv, B!NothingIsSilent
    <2>2. CASE ~(pos < Len(chunks))
      <3>1. \A i \in 1 .. Len(chunks) : chunks[i] \subseteq Noted'
        BY <1>2, <1>5, <2>2
      <3>2. B!Planned \subseteq Noted'
        BY <3>1, AllNoted DEF BatchInv, CutInv, Noted
      <3>3. B!NothingIsSilent'
        BY <1>3, <3>2 DEF B!NothingIsSilent, Noted
      <3>. QED
        BY <1>4, <2>2, <3>3 DEF NotedInv, Working
    <2>. QED
      BY <2>1, <2>2
  <1>7. CleanInv'
    <2>1. \A i \in 1 .. Len(chunks) : i >= pos + 1 => chunks[i] \cap Busy' = {}
      <3>1. ASSUME NEW i \in 1 .. Len(chunks), i >= pos + 1 PROVE chunks[i] \cap Busy' = {}
        <4>1. i # pos /\ i > pos
          BY <1>2, <3>1
        <4>. QED
          BY <1>2, <4>1
      <3>. QED
        BY <3>1
    <2>2. CASE pos < Len(chunks)
      <3>1. pos + 1 \in 1 .. Len(chunks) /\ \A i \in 1 .. Len(chunks) : i > pos + 1 => i >= pos + 1
        BY <1>2, <2>2
      <3>. QED
        BY <1>4, <2>1, <2>2, <3>1 DEF CleanInv, B!Chunk
    <2>3. CASE ~(pos < Len(chunks))
      BY <1>4, <2>3 DEF CleanInv, Working
    <2>. QED
      BY <2>2, <2>3
  <1>8. AttachInv'
    <2>1. ~Alone'
      BY <1>3, NotAlone
    <2>. QED
      BY <2>1 DEF BatchInv, AttachInv, B!inputs
  <1>. QED
    BY <1>3, <1>6, <1>7, <1>8

(* A step that ends the run.                                               *)
LEMMA EndIs ==
    ASSUME B!BatchAssumption, BatchInv, turn' = "done",
           UNCHANGED <<B!inputs, chunks>>, named \subseteq named',
           B!Planned \subseteq Noted' \/ (todo' # {} /\ (fatal' \/ stale')),
           \A S \in posted' : S \in posted \/ S \subseteq B!Attempted,
           attach' => flag, B!Attempted' = B!Attempted => (Alone' => attach')
    PROVE  CutInv' /\ NotedInv' /\ CleanInv' /\ AttachInv'
  <1>1. CutInv' /\ B!Planned' = B!Planned /\ B!Attempted' = B!Attempted
    BY CutStep DEF BatchInv
  <1>2. NotedInv'
    BY <1>1 DEF NotedInv, B!NothingIsSilent, Noted, Working
  <1>3. CleanInv' /\ AttachInv'
    BY <1>1 DEF CleanInv, AttachInv, Working, B!inputs
  <1>. QED
    BY <1>1, <1>2, <1>3

-----------------------------------------------------------------------------
(* The steps of bodies.                                                    *)

LEMMA InsertIs ==
    ASSUME B!BatchAssumption, B!TypeOK, NEW S \in SUBSET Key, B!Insert(S)
    PROVE  /\ stored' \in [Key -> {"absent", "ours", "other"}] /\ written' \in SUBSET Key
           /\ pending' = pending /\ Busy' = Busy \cup S
           /\ \A k \in S : stored'[k] = "ours" /\ k \in written'
  BY DEF B!TypeOK, B!Insert, Busy

LEMMA PostIs ==
    ASSUME B!BatchAssumption, BatchInv, B!Post
    PROVE  /\ Working /\ turn = "post" /\ todo = {} /\ B!Chunk \cap Busy = {}
           /\ posted' = posted \cup {B!Chunk} /\ posted' \subseteq SUBSET Key
           /\ \A S \in posted' : S \in posted \/ S = B!Chunk
           /\ \A S \in posted' : S \in posted \/ S \subseteq B!Attempted
           /\ UNCHANGED <<B!inputs, chunks, failedPlugins, failedProxies>>
  <1>1. Working /\ turn = "post" /\ posted' = posted \cup {B!Chunk}
    BY DEF B!Post, Working
  <1>2. B!Chunk \in SUBSET B!Attempted /\ B!Chunk \in SUBSET Key
    BY <1>1, AtWork
  <1>. QED
    BY <1>1, <1>2 DEF B!Post, BatchInv, NotedInv, CleanInv, B!TypeOK

(* A refused body is left to the individual creates.                       *)
LEMMA ReplayIs ==
    ASSUME B!BatchAssumption, BatchInv, B!Post, NEW allowed \in BOOLEAN, allowed => flag,
           B!Replay(allowed), UNCHANGED B!gateway
    PROVE  CutInv' /\ NotedInv' /\ CleanInv' /\ AttachInv'
  <1>1. /\ Working /\ turn = "post" /\ B!Chunk \cap Busy = {}
        /\ \A S \in posted' : S \in posted \/ S = B!Chunk
        /\ \A S \in posted' : S \in posted \/ S \subseteq B!Attempted
        /\ UNCHANGED <<B!inputs, chunks>>
    BY PostIs
  <1>2. /\ turn' = "replay" /\ attach' = allowed /\ todo' = B!Chunk /\ pos' = pos
        /\ recorded' = recorded /\ fatal' = fatal /\ stale' = stale
        /\ named \subseteq named' /\ (~allowed => Withholds(B!Chunk) \subseteq named')
    BY DEF B!Replay, Withholds
  <1>3. CutInv' /\ B!Planned' = B!Planned /\ B!Attempted' = B!Attempted
    BY <1>1, <1>2, CutStep DEF BatchInv
  <1>4. B!Chunk' = B!Chunk /\ Busy' = Busy /\ Noted \subseteq Noted'
    BY <1>1, <1>2 DEF B!Chunk, Busy, Noted, B!gateway
  <1>5. NotedInv'
    <2>1. /\ pos \in 1 .. Len(chunks)
          /\ \A i \in 1 .. Len(chunks) : i < pos => chunks[i] \subseteq Noted'
      BY <1>1, <1>4, AtWork
    <2>2. (Working => /\ pos \in 1 .. Len(chunks)
                      /\ \A i \in 1 .. Len(chunks) : i < pos => chunks[i] \subseteq Noted)'
      BY <1>1, <1>2, <2>1
    <2>3. (~attach => Withholds(B!Chunk) \subseteq named)'
      BY <1>2, <1>4 DEF Withholds
    <2>. QED
      BY <1>2, <1>4, <2>2, <2>3 DEF NotedInv, B!NothingIsSilent
  <1>6. CleanInv'
    <2>1. \A i \in 1 .. Len(chunks) : i > pos => chunks[i] \cap Busy = {}
      BY <1>1, AtWork
    <2>. QED
      BY <1>1, <1>2, <1>4, <2>1 DEF CleanInv
  <1>7. AttachInv'
    <2>1. ~Alone'
      BY <1>1, <1>3, NotAlone
    <2>. QED
      BY <1>1, <1>2, <2>1 DEF AttachInv, B!inputs
  <1>. QED
    BY <1>3, <1>5, <1>6, <1>7

LEMMA ReplayTypes ==
    ASSUME B!BatchAssumption, BatchInv, B!Post, NEW allowed \in BOOLEAN, B!Replay(allowed),
           UNCHANGED B!gateway
    PROVE  B!TypeOK'
  <1>1. Working
    BY PostIs
  <1>2. B!Chunk \in SUBSET Key /\ pos \in 1 .. Len(chunks) + 1 /\ B!TypeOK /\ posted' \subseteq SUBSET Key
        /\ UNCHANGED <<B!inputs, chunks, failedPlugins, failedProxies>>
    BY <1>1, AtWork, PostIs DEF BatchInv, B!TypeOK
  <1>3. B!Cycles(B!Chunk) \cup B!Deferred(B!Chunk) \in SUBSET Key
    BY <1>2 DEF B!Cycles, B!Deferred, B!OfKind
  <1>4. turn' = "replay" /\ attach' \in BOOLEAN /\ todo' \in SUBSET Key /\ named' \in SUBSET Key
        /\ pos' \in 1 .. Len(chunks') + 1
    BY <1>2, <1>3 DEF B!Replay, B!TypeOK
  <1>. QED
    BY <1>2, <1>4 DEF B!Replay, B!TypeOK, B!inputs, B!gateway

LEMMA PostCreatedStep == ASSUME B!BatchAssumption, BatchInv, B!PostCreated PROVE BatchInv'
  <1>1. /\ Working /\ turn = "post"
        /\ \A S \in posted' : S \in posted \/ S = B!Chunk
        /\ posted' \subseteq SUBSET Key
        /\ UNCHANGED <<B!inputs, chunks, failedPlugins, failedProxies>>
    BY PostIs DEF B!PostCreated
  <1>2. B!Chunk \in SUBSET Key /\ pos + 1 \in 1 .. Len(chunks) + 1 /\ B!TypeOK
    BY <1>1, AtWork DEF BatchInv
  <1>3. /\ stored' \in [Key -> {"absent", "ours", "other"}] /\ written' \in SUBSET Key
        /\ pending' = pending /\ Busy' = Busy \cup B!Chunk
    BY <1>2, InsertIs DEF B!PostCreated
  <1>4. B!Onward /\ recorded' = recorded \cup B!Chunk /\ UNCHANGED <<attach, named, fatal, stale>>
    BY DEF B!PostCreated
  <1>5. B!TypeOK'
    BY <1>1, <1>2, <1>3, <1>4 DEF B!TypeOK, B!Onward, B!inputs
  <1>6. CutInv' /\ NotedInv' /\ CleanInv' /\ AttachInv'
    <2>1. Noted \subseteq Noted' /\ B!Chunk \subseteq Noted'
      BY <1>4 DEF Noted
    <2>. QED
      BY <1>1, <1>3, <1>4, <2>1, OnwardIs
  <1>. QED
    BY <1>5, <1>6 DEF BatchInv

LEMMA PostUnsupportedStep == ASSUME B!BatchAssumption, BatchInv, B!PostUnsupported PROVE BatchInv'
  <1>1. CASE B!Replay(flag)
    <2>1. flag \in BOOLEAN
      BY DEF BatchInv, B!TypeOK
    <2>. QED
      BY <1>1, <2>1, ReplayIs, ReplayTypes DEF BatchInv, B!PostUnsupported
  <1>2. CASE turn' = "fallback" /\ UNCHANGED <<pos, todo, attach, B!report>>
    <2>1. /\ Working /\ turn = "post"
          /\ \A S \in posted' : S \in posted \/ S = B!Chunk
          /\ \A S \in posted' : S \in posted \/ S \subseteq B!Attempted
          /\ posted' \subseteq SUBSET Key
          /\ UNCHANGED <<B!inputs, chunks, failedPlugins, failedProxies>>
      BY PostIs DEF B!PostUnsupported
    <2>2. B!TypeOK'
      BY <1>2, <2>1 DEF BatchInv, B!TypeOK, B!PostUnsupported, B!inputs, B!report, B!gateway
    <2>3. CutInv' /\ B!Attempted' = B!Attempted
      BY <1>2, <2>1, CutStep DEF BatchInv, B!report
    <2>4. NotedInv' /\ CleanInv'
      BY <1>2 DEF NotedInv, CleanInv, Working, B!NothingIsSilent
    <2>5. ~Alone'
      BY <2>1, <2>3, NotAlone
    <2>6. AttachInv'
      BY <1>2, <2>1, <2>5 DEF BatchInv, AttachInv, B!inputs
    <2>. QED
      BY <2>2, <2>3, <2>4, <2>6 DEF BatchInv
  <1>. QED
    BY <1>1, <1>2 DEF B!PostUnsupported

LEMMA PostRejectedStep == ASSUME B!BatchAssumption, BatchInv, B!PostRejected PROVE BatchInv'
  <1>1. PICK status \in {400, 409, 413, 422} : B!Replay(B!ReplayAllowed(status))
    BY DEF B!PostRejected
  <1>2. B!ReplayAllowed(status) \in BOOLEAN /\ (B!ReplayAllowed(status) => flag)
    BY DEF B!ReplayAllowed
  <1>. QED
    BY <1>1, <1>2, ReplayIs, ReplayTypes DEF BatchInv, B!PostRejected

(* A stop over the present body names it and what is behind it.            *)
LEMMA StopIs ==
    ASSUME B!BatchAssumption, BatchInv, turn \in {"post", "verify"}, B!Stop(B!Chunk),
           UNCHANGED <<B!inputs, chunks, attach>>, \A S \in posted' : S \in posted \/ S = B!Chunk
    PROVE  CutInv' /\ NotedInv' /\ CleanInv' /\ AttachInv'
  <1>1. Working
    BY DEF Working
  <1>2. /\ turn' = "done" /\ recorded' = recorded
        /\ named' = named \cup B!Chunk \cup B!NoteUnattempted(pos + 1)
    BY DEF B!Stop
  <1>3. B!Planned \subseteq Noted'
    BY <1>1, <1>2, RestNoted DEF Noted
  <1>4. B!Chunk \in SUBSET B!Attempted
    BY <1>1, AtWork
  <1>5. B!Attempted' = B!Attempted => ~Alone'
    BY NotAlone
  <1>6. attach' => flag
    BY DEF BatchInv, AttachInv
  <1>. QED
    BY <1>2, <1>3, <1>4, <1>5, <1>6, EndIs

LEMMA StopTypes ==
    ASSUME B!BatchAssumption, BatchInv, Working, NEW more \in SUBSET Key, B!Stop(more),
           UNCHANGED <<B!inputs, chunks, attach, failedPlugins, failedProxies>>,
           stored' \in [Key -> {"absent", "ours", "other"}], written' \in SUBSET Key,
           pending' = pending, posted' \subseteq SUBSET Key
    PROVE  B!TypeOK'
  <1>1. B!NoteUnattempted(pos + 1) \in SUBSET Key
    <2>1. \A i \in pos + 1 .. Len(chunks) : i \in 1 .. Len(chunks)
      BY AtWork
    <2>2. \A i \in 1 .. Len(chunks) : chunks[i] \in SUBSET Key
      BY ChunksAre DEF BatchInv, CutInv
    <2>. QED
      BY <2>1, <2>2 DEF B!NoteUnattempted, B!Rest
  <1>2. named' \in SUBSET Key /\ turn' = "done" /\ fatal' = TRUE
        /\ UNCHANGED <<pos, todo, recorded, stale>>
    BY <1>1 DEF B!Stop, BatchInv, B!TypeOK
  <1>. QED
    BY <1>2 DEF B!TypeOK, BatchInv, B!inputs

LEMMA PostRefusedStep == ASSUME B!BatchAssumption, BatchInv, B!PostRefused PROVE BatchInv'
  <1>1. /\ Working /\ turn = "post"
        /\ \A S \in posted' : S \in posted \/ S = B!Chunk
        /\ posted' \subseteq SUBSET Key
        /\ UNCHANGED <<B!inputs, chunks, failedPlugins, failedProxies>>
    BY PostIs DEF B!PostRefused
  <1>2. B!Chunk \in SUBSET Key
    BY <1>1, AtWork
  <1>3. /\ stored' \in [Key -> {"absent", "ours", "other"}] /\ written' \in SUBSET Key
        /\ pending' = pending
    BY <1>2, InsertIs DEF B!PostRefused, B!gateway, BatchInv, B!TypeOK
  <1>4. B!Stop(B!Chunk) /\ attach' = attach
    BY DEF B!PostRefused
  <1>. QED
    BY <1>1, <1>2, <1>3, <1>4, StopIs, StopTypes DEF BatchInv

LEMMA PostUnansweredStep == ASSUME B!BatchAssumption, BatchInv, B!PostUnanswered PROVE BatchInv'
  <1>1. /\ Working /\ turn = "post" /\ todo = {}
        /\ \A S \in posted' : S \in posted \/ S = B!Chunk
        /\ \A S \in posted' : S \in posted \/ S \subseteq B!Attempted
        /\ posted' \subseteq SUBSET Key
        /\ UNCHANGED <<B!inputs, chunks, failedPlugins, failedProxies>>
    BY PostIs DEF B!PostUnanswered
  <1>2. B!Chunk \in SUBSET Key /\ B!TypeOK
    BY <1>1, AtWork DEF BatchInv
  <1>3. turn' = "verify" /\ UNCHANGED <<pos, todo, attach, B!report>>
    BY DEF B!PostUnanswered
  <1>4. /\ stored' \in [Key -> {"absent", "ours", "other"}] /\ written' \in SUBSET Key
        /\ pending' \subseteq SUBSET Key /\ Busy' \subseteq Busy \cup B!Chunk
    <2>1. CASE B!Insert(B!Chunk)
      BY <1>2, <2>1, InsertIs DEF B!TypeOK
    <2>2. CASE pending' = pending \cup {B!Chunk} /\ UNCHANGED <<stored, written, others>>
      BY <1>2, <2>2 DEF B!TypeOK, Busy
    <2>3. CASE UNCHANGED B!gateway
      BY <1>2, <2>3 DEF B!TypeOK, Busy, B!gateway
    <2>. QED
      BY <2>1, <2>2, <2>3 DEF B!PostUnanswered
  <1>5. B!TypeOK'
    BY <1>1, <1>2, <1>3, <1>4 DEF B!TypeOK, B!inputs, B!report
  <1>6. CutInv' /\ B!Attempted' = B!Attempted
    BY <1>1, <1>3, CutStep DEF BatchInv, B!report
  <1>7. NotedInv'
    <2>1. /\ pos \in 1 .. Len(chunks) /\ Noted' = Noted
          /\ \A i \in 1 .. Len(chunks) : i < pos => chunks[i] \subseteq Noted
      BY <1>1, <1>3, AtWork DEF Noted, B!report
    <2>. QED
      BY <1>1, <1>3, <2>1 DEF NotedInv, B!NothingIsSilent
  <1>8. CleanInv'
    <2>1. /\ \A i \in 1 .. Len(chunks) : i > pos => chunks[i] \cap Busy = {}
          /\ \A i \in 1 .. Len(chunks) : i # pos => chunks[i] \cap B!Chunk = {}
          /\ pos \in Nat
      BY <1>1, AtWork
    <2>2. \A i \in 1 .. Len(chunks) : i > pos => chunks[i] \cap Busy' = {}
      BY <1>4, <2>1
    <2>. QED
      BY <1>1, <1>3, <2>2 DEF CleanInv
  <1>9. AttachInv'
    <2>1. ~Alone'
      BY <1>1, <1>6, NotAlone
    <2>. QED
      BY <1>1, <1>3, <2>1 DEF BatchInv, AttachInv, B!inputs
  <1>. QED
    BY <1>5, <1>6, <1>7, <1>8, <1>9 DEF BatchInv

-----------------------------------------------------------------------------
(* The readback, and the claims of a proven body.                          *)

LEMMA VerifyingStep == ASSUME B!BatchAssumption, BatchInv, B!Verify PROVE BatchInv'
  <1>1. /\ Working /\ turn = "verify" /\ UNCHANGED B!gateway
        /\ UNCHANGED <<B!inputs, chunks, attach, failedPlugins, failedProxies, posted>>
    BY DEF B!Verify, B!Uninvolved, Working
  <1>2. B!Chunk \in SUBSET Key /\ B!TypeOK /\ Noted = recorded \cup named /\ Busy' = Busy
        /\ pos \in 1 .. Len(chunks) /\ pos + 1 \in 1 .. Len(chunks) + 1
    BY <1>1, AtWork DEF BatchInv, Noted, Busy, B!gateway
  <1>3. /\ stored' \in [Key -> {"absent", "ours", "other"}] /\ written' \in SUBSET Key
        /\ pending' = pending /\ pending' \subseteq SUBSET Key /\ posted' \subseteq SUBSET Key
    BY <1>1, <1>2 DEF B!TypeOK, B!gateway
  <1>4. CASE turn' = "assert" /\ todo' = B!Chunk /\ UNCHANGED <<pos, B!report>>
    <2>1. B!TypeOK'
      BY <1>1, <1>2, <1>3, <1>4 DEF B!TypeOK, B!inputs, B!report
    <2>2. CutInv' /\ B!Attempted' = B!Attempted
      BY <1>1, <1>4, CutStep DEF BatchInv, B!report
    <2>3. B!Chunk' = B!Chunk /\ Noted' = Noted
      BY <1>1, <1>4 DEF B!Chunk, Noted, B!report
    <2>4. NotedInv'
      <3>1. \A i \in 1 .. Len(chunks) : i < pos => chunks[i] \subseteq Noted
        BY <1>1, AtWork
      <3>. QED
        BY <1>1, <1>2, <1>4, <2>3, <3>1 DEF NotedInv, B!NothingIsSilent
    <2>5. CleanInv'
      <3>1. \A i \in 1 .. Len(chunks) : i > pos => chunks[i] \cap Busy = {}
        BY <1>1, AtWork
      <3>. QED
        BY <1>1, <1>2, <1>4, <3>1 DEF CleanInv
    <2>6. AttachInv'
      <3>1. ~Alone'
        BY <1>1, <2>2, NotAlone
      <3>. QED
        BY <1>1, <3>1 DEF BatchInv, AttachInv, B!inputs
    <2>. QED
      BY <2>1, <2>2, <2>4, <2>5, <2>6 DEF BatchInv
  <1>5. CASE B!NotLive
    <2>1. B!Onward /\ named' = named \cup B!Chunk /\ UNCHANGED <<recorded, fatal, stale>>
      BY <1>5 DEF B!NotLive
    <2>2. B!TypeOK'
      BY <1>1, <1>2, <1>3, <2>1 DEF B!TypeOK, B!Onward, B!inputs
    <2>3. Noted \subseteq Noted' /\ B!Chunk \subseteq Noted'
      BY <2>1 DEF Noted
    <2>. QED
      BY <1>1, <1>2, <2>1, <2>2, <2>3, OnwardIs DEF BatchInv
  <1>6. CASE B!Stop(B!Chunk)
    BY <1>1, <1>2, <1>3, <1>6, StopIs, StopTypes DEF BatchInv
  <1>. QED
    BY <1>4, <1>5, <1>6 DEF B!Verify

LEMMA VerifyFailsStep == ASSUME B!BatchAssumption, BatchInv, B!VerifyFails PROVE BatchInv'
  <1>1. /\ Working /\ turn = "verify" /\ UNCHANGED B!gateway /\ B!Stop(B!Chunk)
        /\ UNCHANGED <<B!inputs, chunks, attach, failedPlugins, failedProxies, posted>>
    BY DEF B!VerifyFails, B!Uninvolved, Working
  <1>2. B!Chunk \in SUBSET Key
    BY <1>1, AtWork
  <1>3. /\ stored' \in [Key -> {"absent", "ours", "other"}] /\ written' \in SUBSET Key
        /\ pending' = pending /\ posted' \subseteq SUBSET Key
    BY <1>1 DEF BatchInv, B!TypeOK, B!gateway
  <1>. QED
    BY <1>1, <1>2, <1>3, StopIs, StopTypes DEF BatchInv

(* A row of the body was settled, and the run goes on with the next.       *)
LEMMA SettledIs ==
    ASSUME B!BatchAssumption, BatchInv, turn \in {"assert", "replay"}, NEW k \in todo,
           UNCHANGED <<B!inputs, chunks, attach, turn, pos>>, todo' = todo \ {k},
           k \in Noted' \/ k \in Noted, Noted \subseteq Noted', named \subseteq named',
           Busy' \subseteq Busy \cup {k},
           \A S \in posted' : S \in posted \/ (turn = "replay" /\ S = {k}),
           turn = "replay" /\ ~attach /\ k \in B!Cycles(B!Chunk) => posted' = posted
    PROVE  CutInv' /\ NotedInv' /\ CleanInv' /\ AttachInv'
  <1>1. /\ Working /\ pos \in 1 .. Len(chunks) /\ pos \in Nat
        /\ todo \subseteq B!Chunk /\ B!Chunk \subseteq Noted \cup todo /\ B!Chunk \in SUBSET B!Attempted
        /\ \A i \in 1 .. Len(chunks) : i # pos => chunks[i] \cap B!Chunk = {}
        /\ \A i \in 1 .. Len(chunks) : i < pos => chunks[i] \subseteq Noted
        /\ \A i \in 1 .. Len(chunks) : i > pos => chunks[i] \cap Busy = {}
    <2>1. Working
      BY DEF Working
    <2>. QED
      BY <2>1, AtWork DEF BatchInv, NotedInv
  <1>2. CutInv' /\ B!Attempted' = B!Attempted
    BY <1>1, CutStep DEF BatchInv
  <1>3. B!Chunk' = B!Chunk
    BY DEF B!Chunk
  <1>4. NotedInv'
    <2>1. (Working => /\ pos \in 1 .. Len(chunks)
                      /\ \A i \in 1 .. Len(chunks) : i < pos => chunks[i] \subseteq Noted)'
      BY <1>1
    <2>2. todo' \subseteq B!Chunk' /\ B!Chunk' \subseteq Noted' \cup todo'
      BY <1>1, <1>3
    <2>3. (turn = "replay" /\ ~attach => Withholds(B!Chunk) \subseteq named)'
      BY <1>3 DEF BatchInv, NotedInv, Withholds
    <2>. QED
      BY <2>1, <2>2, <2>3 DEF NotedInv, B!NothingIsSilent
  <1>5. CleanInv'
    <2>1. \A i \in 1 .. Len(chunks) : i > pos => chunks[i] \cap Busy' = {}
      BY <1>1
    <2>2. turn = "replay" => todo' \cap Busy' = {}
      BY DEF BatchInv, CleanInv
    <2>. QED
      BY <2>1, <2>2 DEF CleanInv, Working
  <1>6. AttachInv'
    <2>1. CASE Alone
      BY <2>1 DEF BatchInv, AttachInv, B!inputs
    <2>2. CASE ~Alone
      <3>1. ASSUME NEW p \in B!Cycles(B!Attempted), {p} \in posted' PROVE turn = "replay" /\ attach
        <4>1. turn = "replay" /\ p = k /\ {p} \notin posted
          BY <2>2, <3>1 DEF Alone
        <4>2. p \in B!Cycles(B!Chunk)
          BY <1>1, <3>1, <4>1, CyclesAreWhole DEF BatchInv, CutInv, B!Chunk
        <4>. QED
          BY <3>1, <4>1, <4>2
      <3>. QED
        BY <1>2, <3>1 DEF BatchInv, AttachInv, Alone, B!inputs
    <2>. QED
      BY <2>1, <2>2
  <1>. QED
    BY <1>2, <1>4, <1>5, <1>6

LEMMA AssertFacts ==
    ASSUME B!BatchAssumption, BatchInv, turn = "assert"
    PROVE  /\ Working /\ todo \subseteq B!Chunk /\ B!Chunk \subseteq Noted \cup todo /\ todo \in SUBSET Key
           /\ B!TypeOK /\ B!Foremost \in SUBSET todo /\ pos \in 1 .. Len(chunks) + 1
           /\ (attach => flag) /\ B!NoteUnattempted(pos + 1) \in SUBSET Key
  <1>1. Working
    BY DEF Working
  <1>2. B!NoteUnattempted(pos + 1) \in SUBSET Key
    <2>1. \A i \in pos + 1 .. Len(chunks) : i \in 1 .. Len(chunks)
      BY <1>1, AtWork
    <2>2. \A i \in 1 .. Len(chunks) : chunks[i] \in SUBSET Key
      BY ChunksAre DEF BatchInv, CutInv
    <2>. QED
      BY <2>1, <2>2 DEF B!NoteUnattempted, B!Rest
  <1>. QED
    BY <1>1, <1>2 DEF BatchInv, NotedInv, B!TypeOK, AttachInv, B!Foremost

LEMMA AssertRowStep == ASSUME B!BatchAssumption, BatchInv, B!AssertRow PROVE BatchInv'
  <1>1. /\ turn = "assert" /\ UNCHANGED <<stored, pending, others>>
        /\ UNCHANGED <<B!inputs, chunks, attach, failedPlugins, failedProxies, posted>>
    BY DEF B!AssertRow, B!Uninvolved
  <1>2. /\ Working /\ todo \in SUBSET Key /\ B!TypeOK /\ (attach => flag)
        /\ pos \in 1 .. Len(chunks) + 1 /\ B!NoteUnattempted(pos + 1) \in SUBSET Key
        /\ B!Foremost \in SUBSET todo
    BY <1>1, AssertFacts
  <1>3. PICK k \in B!Foremost :
             IF B!RowMatches(k)
               THEN /\ recorded' = recorded \cup {k} /\ written' = written \cup {k}
                    /\ todo' = todo \ {k} /\ UNCHANGED <<turn, pos, named, fatal, stale>>
               ELSE /\ stale' = TRUE /\ turn' = "done"
                    /\ named' = named \cup {k} \cup B!NoteUnattempted(pos + 1)
                    /\ UNCHANGED <<pos, todo, recorded, fatal, written>>
    BY DEF B!AssertRow
  <1>4. k \in todo /\ k \in Key
    BY <1>2, <1>3
  <1>5. CASE B!RowMatches(k)
    <2>1. /\ recorded' = recorded \cup {k} /\ written' = written \cup {k}
          /\ todo' = todo \ {k} /\ UNCHANGED <<turn, pos, named, fatal, stale>>
      BY <1>3, <1>5
    <2>2. B!TypeOK'
      BY <1>1, <1>2, <1>4, <2>1 DEF B!TypeOK, B!inputs
    <2>3. Noted' = Noted \cup {k} /\ Busy' = Busy \cup {k}
      BY <1>1, <2>1 DEF Noted, Busy
    <2>. QED
      BY <1>1, <1>4, <2>1, <2>2, <2>3, SettledIs DEF BatchInv
  <1>6. CASE ~B!RowMatches(k)
    <2>1. /\ stale' = TRUE /\ turn' = "done"
          /\ named' = named \cup {k} \cup B!NoteUnattempted(pos + 1)
          /\ UNCHANGED <<pos, todo, recorded, fatal, written>>
      BY <1>3, <1>6
    <2>2. B!TypeOK'
      BY <1>1, <1>2, <1>4, <2>1 DEF B!TypeOK, B!inputs
    <2>3. B!Attempted' = B!Attempted => ~Alone'
      BY <1>1, NotAlone
    <2>. QED
      BY <1>1, <1>2, <1>4, <2>1, <2>2, <2>3, EndIs DEF BatchInv
  <1>. QED
    BY <1>5, <1>6

LEMMA AssertFailsStep == ASSUME B!BatchAssumption, BatchInv, B!AssertFails PROVE BatchInv'
  <1>1. /\ turn = "assert" /\ UNCHANGED B!gateway
        /\ UNCHANGED <<B!inputs, chunks, attach, failedPlugins, failedProxies, posted>>
    BY DEF B!AssertFails, B!Uninvolved
  <1>2. /\ Working /\ todo \in SUBSET Key /\ B!TypeOK /\ (attach => flag)
        /\ B!Foremost \in SUBSET todo
    BY <1>1, AssertFacts
  <1>3. PICK k \in B!Foremost :
         \/ B!Stop({k})
         \/ named' = named \cup {k} /\ todo' = todo \ {k}
            /\ UNCHANGED <<turn, pos, recorded, fatal, stale>>
    BY DEF B!AssertFails
  <1>4. k \in todo /\ k \in Key
    BY <1>2, <1>3
  <1>5. CASE B!Stop({k})
    <2>1. /\ turn' = "done" /\ fatal' = TRUE /\ named \subseteq named'
          /\ UNCHANGED <<pos, todo, recorded, stale>>
      BY <1>5 DEF B!Stop
    <2>2. B!TypeOK'
      BY <1>1, <1>2, <1>4, <1>5, StopTypes DEF B!TypeOK, B!gateway
    <2>3. B!Attempted' = B!Attempted => ~Alone'
      BY <1>1, NotAlone
    <2>. QED
      BY <1>1, <1>2, <1>4, <2>1, <2>2, <2>3, EndIs DEF BatchInv
  <1>6. CASE /\ named' = named \cup {k} /\ todo' = todo \ {k}
             /\ UNCHANGED <<turn, pos, recorded, fatal, stale>>
    <2>1. B!TypeOK'
      BY <1>1, <1>2, <1>4, <1>6 DEF B!TypeOK, B!inputs, B!gateway
    <2>2. Noted' = Noted \cup {k} /\ Busy' = Busy
      BY <1>1, <1>6 DEF Noted, Busy, B!gateway
    <2>. QED
      BY <1>1, <1>4, <1>6, <2>1, <2>2, SettledIs DEF BatchInv
  <1>. QED
    BY <1>3, <1>5, <1>6

LEMMA AssertEndStep == ASSUME B!BatchAssumption, BatchInv, B!AssertEnd PROVE BatchInv'
  <1>1. /\ turn = "assert" /\ todo = {} /\ UNCHANGED B!gateway
        /\ UNCHANGED <<B!inputs, chunks, attach, failedPlugins, failedProxies, posted>>
    BY DEF B!AssertEnd, B!Uninvolved
  <1>2. /\ Working /\ B!TypeOK /\ (attach => flag) /\ B!Chunk \subseteq Noted
        /\ B!NoteUnattempted(pos + 1) \in SUBSET Key /\ pos \in 1 .. Len(chunks) + 1
    BY <1>1, AssertFacts
  <1>3. CASE /\ turn' = "done" /\ named' = named \cup B!NoteUnattempted(pos + 1)
             /\ UNCHANGED <<pos, todo, recorded, fatal, stale>>
    <2>1. B!TypeOK'
      BY <1>1, <1>2, <1>3 DEF B!TypeOK, B!inputs, B!gateway
    <2>2. B!Planned \subseteq Noted'
      BY <1>2, <1>3, RestNoted DEF Noted
    <2>3. B!Attempted' = B!Attempted => ~Alone'
      BY <1>1, NotAlone
    <2>. QED
      BY <1>1, <1>2, <1>3, <2>1, <2>2, <2>3, EndIs DEF BatchInv
  <1>4. CASE B!Onward /\ UNCHANGED B!report
    <2>1. pos + 1 \in 1 .. Len(chunks) + 1
      BY <1>2, AtWork
    <2>2. B!TypeOK'
      BY <1>1, <1>2, <1>4, <2>1 DEF B!TypeOK, B!Onward, B!inputs, B!report, B!gateway
    <2>3. Noted' = Noted /\ Busy' = Busy /\ named' = named
      BY <1>1, <1>4 DEF Noted, Busy, B!report, B!gateway
    <2>. QED
      BY <1>1, <1>2, <1>4, <2>2, <2>3, OnwardIs DEF BatchInv
  <1>. QED
    BY <1>3, <1>4 DEF B!AssertEnd

-----------------------------------------------------------------------------
(* The individual creates.                                                 *)

LEMMA ReplayFacts ==
    ASSUME B!BatchAssumption, BatchInv, turn = "replay", NEW k \in B!Current
    PROVE  /\ Working /\ k \in todo /\ k \in Key /\ k \in B!Attempted /\ B!TypeOK /\ (attach => flag)
           /\ (~attach => Withholds(B!Chunk) \subseteq named)
  <1>1. Working /\ k \in todo
    BY DEF Working, B!Current
  <1>2. todo \subseteq B!Chunk /\ B!Chunk \in SUBSET B!Attempted /\ B!Chunk \in SUBSET Key
    BY <1>1, AtWork DEF BatchInv, NotedInv
  <1>. QED
    BY <1>1, <1>2 DEF BatchInv, NotedInv, AttachInv

LEMMA FailedTypes ==
    ASSUME B!TypeOK, NEW k \in Key, B!Failed(k)
    PROVE  failedPlugins' \subseteq Key /\ failedProxies' \subseteq Key
  BY DEF B!TypeOK, B!Failed

LEMMA SkipCycleStep ==
    ASSUME B!BatchAssumption, BatchInv, turn = "replay", NEW k \in B!Current, B!SkipCycle(k)
    PROVE  BatchInv'
  <1>1. /\ k \in todo /\ k \in Key /\ B!TypeOK /\ (~attach => Withholds(B!Chunk) \subseteq named)
    BY ReplayFacts
  <1>2. /\ todo' = todo \ {k} /\ UNCHANGED <<turn, pos, attach, B!inputs, chunks>>
        /\ UNCHANGED <<failedProxies, B!report, B!gateway, posted>>
    BY DEF B!SkipCycle, B!Drop
  <1>3. failedPlugins' \subseteq Key
    BY <1>1 DEF B!SkipCycle, B!TypeOK
  <1>4. B!TypeOK'
    BY <1>1, <1>2, <1>3 DEF B!TypeOK, B!inputs, B!report, B!gateway
  <1>5. k \in Noted
    BY <1>1 DEF B!SkipCycle, B!Withheld, Withholds, Noted
  <1>6. Noted' = Noted /\ Busy' = Busy /\ named' = named
    BY <1>2 DEF Noted, Busy, B!report, B!gateway
  <1>. QED
    BY <1>1, <1>2, <1>4, <1>5, <1>6, SettledIs DEF BatchInv

LEMMA RefuseDependentStep ==
    ASSUME B!BatchAssumption, BatchInv, turn = "replay", NEW k \in B!Current, B!RefuseDependent(k)
    PROVE  BatchInv'
  <1>1. k \in todo /\ k \in Key /\ B!TypeOK
    BY ReplayFacts
  <1>2. /\ todo' = todo \ {k} /\ UNCHANGED <<turn, pos, attach, B!inputs, chunks>>
        /\ named' = named \cup {k} /\ UNCHANGED <<recorded, fatal, stale, B!gateway, posted>>
        /\ failedPlugins' \subseteq Key /\ failedProxies' \subseteq Key
    BY <1>1, FailedTypes DEF B!RefuseDependent, B!Drop
  <1>4. B!TypeOK'
    BY <1>1, <1>2 DEF B!TypeOK, B!inputs, B!gateway
  <1>6. Noted' = Noted \cup {k} /\ Busy' = Busy
    BY <1>2 DEF Noted, Busy, B!gateway
  <1>. QED
    BY <1>1, <1>2, <1>4, <1>6, SettledIs DEF BatchInv

(* A create that goes out is of no cycle that is withheld.                 *)
LEMMA SendableIs ==
    ASSUME NEW k, B!Sendable(k)
    PROVE  ~attach => k \notin B!Cycles(B!Chunk)
  BY DEF B!Sendable, B!Withheld

LEMMA CreateAcceptedStep ==
    ASSUME B!BatchAssumption, BatchInv, turn = "replay", NEW k \in B!Current, B!CreateAccepted(k)
    PROVE  BatchInv'
  <1>1. k \in todo /\ k \in Key /\ B!TypeOK
    BY ReplayFacts
  <1>2. /\ todo' = todo \ {k} /\ UNCHANGED <<turn, pos, attach, B!inputs, chunks>>
        /\ recorded' = recorded \cup {k} /\ posted' = posted \cup {{k}}
        /\ UNCHANGED <<failedPlugins, failedProxies, named, fatal, stale>>
        /\ (~attach => k \notin B!Cycles(B!Chunk))
    BY SendableIs DEF B!CreateAccepted, B!Drop
  <1>3. /\ stored' \in [Key -> {"absent", "ours", "other"}] /\ written' \in SUBSET Key
        /\ pending' = pending /\ Busy' = Busy \cup {k}
    BY <1>1, InsertIs DEF B!CreateAccepted
  <1>4. B!TypeOK'
    BY <1>1, <1>2, <1>3 DEF B!TypeOK, B!inputs
  <1>5. Noted' = Noted \cup {k}
    BY <1>2 DEF Noted
  <1>. QED
    BY <1>1, <1>2, <1>3, <1>4, <1>5, SettledIs DEF BatchInv

LEMMA CreateRefusedStep ==
    ASSUME B!BatchAssumption, BatchInv, turn = "replay", NEW k \in B!Current, B!CreateRefused(k)
    PROVE  BatchInv'
  <1>1. k \in todo /\ k \in Key /\ B!TypeOK
    BY ReplayFacts
  <1>2. /\ todo' = todo \ {k} /\ UNCHANGED <<turn, pos, attach, B!inputs, chunks>>
        /\ named' = named \cup {k} /\ posted' = posted \cup {{k}}
        /\ UNCHANGED <<recorded, fatal, stale, B!gateway>>
        /\ failedPlugins' \subseteq Key /\ failedProxies' \subseteq Key
        /\ (~attach => k \notin B!Cycles(B!Chunk))
    BY <1>1, SendableIs, FailedTypes DEF B!CreateRefused, B!Drop
  <1>4. B!TypeOK'
    BY <1>1, <1>2 DEF B!TypeOK, B!inputs, B!gateway
  <1>5. Noted' = Noted \cup {k} /\ Busy' = Busy
    BY <1>2 DEF Noted, Busy, B!gateway
  <1>. QED
    BY <1>1, <1>2, <1>4, <1>5, SettledIs DEF BatchInv

LEMMA CreateUnansweredStep ==
    ASSUME B!BatchAssumption, BatchInv, turn = "replay", NEW k \in B!Current, B!CreateUnanswered(k)
    PROVE  BatchInv'
  <1>1. k \in todo /\ k \in Key /\ k \in B!Attempted /\ B!TypeOK /\ (attach => flag) /\ Working
    BY ReplayFacts
  <1>2. posted' = posted \cup {{k}} /\ (~attach => k \notin B!Cycles(B!Chunk))
    BY SendableIs DEF B!CreateUnanswered
  <1>3. CASE /\ stored[k] = "absent" /\ B!Insert({k}) /\ B!Drop(k)
             /\ recorded' = recorded \cup {k}
             /\ UNCHANGED <<failedPlugins, failedProxies, named, fatal, stale>>
    <2>1. todo' = todo \ {k} /\ UNCHANGED <<turn, pos, attach, B!inputs, chunks>>
      BY <1>3 DEF B!Drop
    <2>2. /\ stored' \in [Key -> {"absent", "ours", "other"}] /\ written' \in SUBSET Key
          /\ pending' = pending /\ Busy' = Busy \cup {k}
      BY <1>1, <1>3, InsertIs
    <2>3. B!TypeOK'
      BY <1>1, <1>2, <1>3, <2>1, <2>2 DEF B!TypeOK, B!inputs
    <2>4. Noted' = Noted \cup {k}
      BY <1>3 DEF Noted
    <2>. QED
      BY <1>1, <1>2, <1>3, <2>1, <2>2, <2>3, <2>4, SettledIs DEF BatchInv
  <1>4. CASE /\ stored[k] = "absent" /\ B!Drop(k) /\ B!Failed(k)
             /\ named' = named \cup {k} /\ pending' \in {pending, pending \cup {{k}}}
             /\ UNCHANGED <<stored, written, others, recorded, fatal, stale>>
    <2>1. /\ todo' = todo \ {k} /\ UNCHANGED <<turn, pos, attach, B!inputs, chunks>>
          /\ failedPlugins' \subseteq Key /\ failedProxies' \subseteq Key
      BY <1>1, <1>4, FailedTypes DEF B!Drop
    <2>2. pending' \subseteq SUBSET Key /\ Busy' \subseteq Busy \cup {k}
      BY <1>1, <1>4 DEF B!TypeOK, Busy
    <2>3. B!TypeOK'
      BY <1>1, <1>2, <1>4, <2>1, <2>2 DEF B!TypeOK, B!inputs
    <2>4. Noted' = Noted \cup {k}
      BY <1>4 DEF Noted
    <2>. QED
      BY <1>1, <1>2, <1>4, <2>1, <2>2, <2>3, <2>4, SettledIs DEF BatchInv
  <1>5. CASE /\ turn' = "done" /\ fatal' = TRUE /\ named' = named \cup {k} /\ B!Failed(k)
             /\ (stored[k] = "absent" /\ B!Insert({k})) \/ UNCHANGED B!gateway
             /\ UNCHANGED <<pos, todo, attach, B!inputs, chunks, recorded, stale>>
    <2>1. failedPlugins' \subseteq Key /\ failedProxies' \subseteq Key
      BY <1>1, <1>5, FailedTypes
    <2>2. /\ stored' \in [Key -> {"absent", "ours", "other"}] /\ written' \in SUBSET Key
          /\ pending' = pending
      BY <1>1, <1>5, InsertIs DEF B!TypeOK, B!gateway
    <2>3. B!TypeOK'
      BY <1>1, <1>2, <1>5, <2>1, <2>2 DEF B!TypeOK, B!inputs
    <2>4. ASSUME B!Attempted' = B!Attempted, Alone' PROVE attach'
      <3>1. PICK p \in B!Cycles(B!Attempted) : {p} \in posted'
        BY <2>4 DEF Alone
      <3>2. CASE {p} \in posted
        BY <1>5, <3>2 DEF BatchInv, AttachInv, Alone
      <3>3. CASE p = k
        <4>1. k \in B!Chunk /\ pos \in 1 .. Len(chunks)
          BY <1>1, AtWork DEF BatchInv, NotedInv
        <4>2. k \in B!Cycles(B!Chunk)
          BY <3>1, <3>3, <4>1, CyclesAreWhole DEF BatchInv, CutInv, B!Chunk
        <4>. QED
          BY <1>2, <1>5, <4>2
      <3>. QED
        BY <1>2, <3>1, <3>2, <3>3
    <2>. QED
      BY <1>1, <1>2, <1>5, <2>3, <2>4, EndIs DEF BatchInv
  <1>. QED
    BY <1>3, <1>4, <1>5 DEF B!CreateUnanswered

LEMMA ReplayNextStep == ASSUME B!BatchAssumption, BatchInv, turn = "replay", B!ReplayNext PROVE BatchInv'
  <1>1. /\ todo = {} /\ UNCHANGED <<recorded, fatal, stale, B!gateway>>
        /\ UNCHANGED <<B!inputs, chunks, attach, failedPlugins, failedProxies, posted>>
    BY DEF B!ReplayNext, B!Uninvolved
  <1>2. /\ Working /\ B!TypeOK /\ B!Chunk \subseteq Noted /\ pos \in 1 .. Len(chunks) /\ pos \in Nat
        /\ Len(chunks) \in Nat /\ Busy' = Busy
        /\ (pos < Len(chunks) => pos + 1 \in 1 .. Len(chunks))
        /\ \A i \in 1 .. Len(chunks) : i < pos => chunks[i] \subseteq Noted
        /\ \A i \in 1 .. Len(chunks) : i > pos => chunks[i] \cap Busy = {}
    <2>1. Working
      BY DEF Working
    <2>. QED
      BY <1>1, <2>1, AtWork DEF BatchInv, NotedInv, Busy, B!gateway
  <1>3. \A i \in 1 .. Len(chunks) : i < pos + 1 => chunks[i] \subseteq Noted
    <2>1. \A i \in 1 .. Len(chunks) : i < pos + 1 => i < pos \/ i = pos
      BY <1>2
    <2>. QED
      BY <1>2, <2>1 DEF B!Chunk
  <1>4. CASE pos < Len(chunks)
    <2>1. /\ pos' = pos + 1 /\ todo' = chunks[pos + 1] /\ turn' = turn
          /\ named' = IF attach THEN named
                      ELSE named \cup B!Cycles(chunks[pos + 1]) \cup B!Deferred(chunks[pos + 1])
      BY <1>4 DEF B!ReplayNext
    <2>2. pos + 1 \in 1 .. Len(chunks) /\ chunks[pos + 1] \in SUBSET Key
      BY <1>2, <1>4, ChunksAre DEF BatchInv, CutInv
    <2>3. named' \in SUBSET Key /\ named \subseteq named'
      BY <1>2, <2>1, <2>2 DEF B!TypeOK, B!Cycles, B!Deferred, B!OfKind
    <2>4. pos + 1 \in 1 .. Len(chunks) + 1
      BY <1>2, <2>2
    <2>5. B!TypeOK'
      BY <1>1, <1>2, <2>1, <2>2, <2>3, <2>4 DEF B!TypeOK, B!inputs, B!gateway
    <2>6. CutInv' /\ B!Attempted' = B!Attempted
      BY <1>1, <2>3, CutStep DEF BatchInv
    <2>7. B!Chunk' = chunks[pos + 1] /\ Noted \subseteq Noted'
      BY <1>1, <2>1, <2>3 DEF B!Chunk, Noted
    <2>8. NotedInv'
      <3>1. (Working => /\ pos \in 1 .. Len(chunks)
                        /\ \A i \in 1 .. Len(chunks) : i < pos => chunks[i] \subseteq Noted)'
        BY <1>1, <1>3, <2>1, <2>2, <2>7
      <3>2. (~attach => Withholds(B!Chunk) \subseteq named)'
        BY <1>1, <2>1, <2>7 DEF Withholds
      <3>. QED
        BY <2>1, <2>7, <3>1, <3>2 DEF NotedInv, B!NothingIsSilent
    <2>9. CleanInv'
      <3>1. \A i \in 1 .. Len(chunks) : i > pos + 1 => i > pos
        BY <1>2
      <3>2. chunks[pos + 1] \cap Busy = {}
        BY <1>2, <2>2
      <3>. QED
        BY <1>1, <1>2, <2>1, <3>1, <3>2 DEF CleanInv
    <2>10. AttachInv'
      BY <1>1, <2>1, <2>6 DEF BatchInv, AttachInv, Alone, B!inputs
    <2>. QED
      BY <2>5, <2>6, <2>8, <2>9, <2>10 DEF BatchInv
  <1>5. CASE ~(pos < Len(chunks))
    <2>1. turn' = "done" /\ UNCHANGED <<pos, todo, named>>
      BY <1>5 DEF B!ReplayNext
    <2>2. B!TypeOK'
      BY <1>1, <1>2, <2>1 DEF B!TypeOK, B!inputs, B!gateway
    <2>3. B!Planned \subseteq Noted'
      <3>1. \A i \in 1 .. Len(chunks) : chunks[i] \subseteq Noted
        BY <1>2, <1>3, <1>5
      <3>. QED
        BY <1>1, <2>1, <3>1, AllNoted DEF BatchInv, CutInv, Noted
    <2>4. (attach => flag) /\ (B!Attempted' = B!Attempted => (Alone' => attach'))
      BY <1>1 DEF BatchInv, AttachInv, Alone
    <2>. QED
      BY <1>1, <2>1, <2>2, <2>3, <2>4, EndIs DEF BatchInv
  <1>. QED
    BY <1>4, <1>5

-----------------------------------------------------------------------------
(* What others do.                                                         *)

LEMMA OthersStep ==
    ASSUME B!BatchAssumption, BatchInv, B!TypeOK', Busy' \subseteq Busy,
           UNCHANGED <<turn, pos, todo, B!report>>, B!Uninvolved
    PROVE  BatchInv'
  <1>1. UNCHANGED <<B!inputs, chunks, attach, posted>> /\ B!Chunk' = B!Chunk /\ Noted' = Noted
    BY DEF B!Uninvolved, B!Chunk, Noted, B!report
  <1>2. CutInv' /\ B!Planned' = B!Planned /\ B!Attempted' = B!Attempted
    BY <1>1, CutStep DEF BatchInv, B!report
  <1>3. NotedInv'
    <2>1. B!NothingIsSilent'
      BY <1>2 DEF BatchInv, NotedInv, B!NothingIsSilent, B!report
    <2>2. (Working => /\ pos \in 1 .. Len(chunks)
                      /\ \A i \in 1 .. Len(chunks) : i < pos => chunks[i] \subseteq Noted)'
      BY <1>1 DEF BatchInv, NotedInv, Working
    <2>3. (turn = "replay" /\ ~attach => Withholds(B!Chunk) \subseteq named)'
      BY <1>1 DEF BatchInv, NotedInv, Withholds, B!report
    <2>. QED
      BY <1>1, <2>1, <2>2, <2>3 DEF BatchInv, NotedInv
  <1>4. CleanInv'
    BY <1>1 DEF BatchInv, CleanInv, Working
  <1>5. AttachInv'
    BY <1>1, <1>2 DEF BatchInv, AttachInv, Alone, B!inputs
  <1>. QED
    BY <1>2, <1>3, <1>4, <1>5 DEF BatchInv

LEMMA LateStep == ASSUME B!BatchAssumption, BatchInv, B!Late PROVE BatchInv'
  <1>1. PICK S \in pending :
         /\ pending' = pending \ {S}
         /\ IF B!Absent(S)
              THEN /\ stored' = [k \in Key |-> IF k \in S THEN "ours" ELSE stored[k]]
                   /\ written' = written \cup S
              ELSE UNCHANGED <<stored, written>>
    BY DEF B!Late
  <1>2. UNCHANGED <<others, turn, pos, todo, B!report>> /\ B!Uninvolved
    BY DEF B!Late
  <1>3. S \in SUBSET Key /\ B!TypeOK
    BY DEF BatchInv, B!TypeOK
  <1>4. /\ stored' \in [Key -> {"absent", "ours", "other"}] /\ written' \in SUBSET Key
        /\ Busy' \subseteq Busy /\ pending' \subseteq SUBSET Key
    BY <1>1, <1>3 DEF B!TypeOK, Busy
  <1>5. B!TypeOK'
    BY <1>2, <1>3, <1>4 DEF B!TypeOK, B!Uninvolved, B!inputs, B!report
  <1>. QED
    BY <1>2, <1>4, <1>5, OthersStep

LEMMA OtherStep == ASSUME B!BatchAssumption, BatchInv, B!Other PROVE BatchInv'
  <1>1. UNCHANGED <<written, pending, turn, pos, todo, B!report>> /\ B!Uninvolved
    BY DEF B!Other
  <1>2. B!TypeOK
    BY DEF BatchInv
  <1>3. stored' \in [Key -> {"absent", "ours", "other"}]
    BY <1>2 DEF B!Other, B!TypeOK
  <1>4. B!TypeOK' /\ Busy' = Busy
    BY <1>1, <1>2, <1>3 DEF B!TypeOK, Busy, B!Uninvolved, B!inputs, B!report
  <1>. QED
    BY <1>1, <1>4, OthersStep

LEMMA Unmoved == ASSUME B!BatchAssumption, BatchInv, UNCHANGED B!vars PROVE BatchInv'
  <1>1. UNCHANGED <<turn, pos, todo, B!report>> /\ B!Uninvolved /\ UNCHANGED B!gateway
    BY DEF B!vars, B!Uninvolved
  <1>2. B!TypeOK' /\ Busy' = Busy
    BY <1>1 DEF BatchInv, B!TypeOK, Busy, B!Uninvolved, B!inputs, B!report, B!gateway
  <1>. QED
    BY <1>1, <1>2, OthersStep

LEMMA BatchStep == ASSUME B!BatchAssumption, BatchInv, [B!Next]_B!vars PROVE BatchInv'
  <1>1. CASE B!CreateIndividually
    BY <1>1, SkipCycleStep, RefuseDependentStep, CreateAcceptedStep, CreateRefusedStep,
       CreateUnansweredStep, ReplayNextStep DEF B!CreateIndividually
  <1>2. CASE B!Done
    BY <1>2, Unmoved DEF B!Done
  <1>. QED
    BY <1>1, <1>2, PostCreatedStep, PostUnsupportedStep, PostRejectedStep, PostRefusedStep,
       PostUnansweredStep, VerifyingStep, VerifyFailsStep, AssertRowStep, AssertFailsStep,
       AssertEndStep, LateStep, OtherStep, Unmoved DEF B!Next

LEMMA BatchSound == ASSUME B!BatchAssumption, BatchInv PROVE B!CreatesAreSound
  <1>1. B!NothingOverFailed
    BY AttemptedIsSound DEF BatchInv
  <1>2. B!AttachIsAtomic
    BY DEF BatchInv, AttachInv, Alone, B!AttachIsAtomic
  <1>3. B!BodiesAreWhole
    <2>1. UNION {chunks[i] : i \in 1 .. Len(chunks)} = B!Attempted
      BY ChunksAre DEF BatchInv, CutInv
    <2>2. B!Attempted \in SUBSET Key
      BY PlansAre
    <2>3. ASSUME NEW i \in 1 .. Len(chunks), NEW k \in chunks[i], NEW x \in B!Attempted, B!Linked(k, x)
          PROVE  x \in chunks[i]
      <3>1. k \in B!Attempted /\ IsFiniteSet(B!Attempted)
        BY ChunksAre, PlansAre DEF BatchInv, CutInv
      <3>2. k \in B!Group(B!Attempted, k) /\ Closed(B!Group(B!Attempted, k), B!Attempted)
        BY <3>1, GroupIs
      <3>3. x \in B!Group(B!Attempted, k)
        BY <2>3, <3>2, LinkedBothWays DEF Closed
      <3>. QED
        BY <3>3 DEF BatchInv, CutInv, Bodies
    <2>. QED
      BY <2>1, <2>2, <2>3 DEF BatchInv, CutInv, Bodies, B!BodiesAreWhole
  <1>. QED
    BY <1>1, <1>2, <1>3 DEF BatchInv, NotedInv, B!CreatesAreSound

(* What is sent is neither stored by the run nor on its way.               *)
LEMMA SentIsNew ==
    ASSUME B!BatchAssumption, BatchInv, [B!Next]_B!vars, NEW S \in posted' \ posted
    PROVE  S \cap Busy = {}
  <1>1. CASE B!Post
    BY <1>1, PostIs
  <1>2. CASE B!CreateIndividually
    <2>1. PICK k \in B!Current : S = {k}
      <3>1. CASE UNCHANGED posted
        BY <3>1
      <3>2. CASE \E k \in B!Current : B!CreateAccepted(k) \/ B!CreateRefused(k) \/ B!CreateUnanswered(k)
        BY <3>2 DEF B!CreateAccepted, B!CreateRefused, B!CreateUnanswered
      <3>. QED
        BY <1>2, <3>1, <3>2 DEF B!CreateIndividually, B!SkipCycle, B!RefuseDependent, B!ReplayNext, B!Uninvolved
    <2>. QED
      BY <1>2, <2>1 DEF B!CreateIndividually, BatchInv, CleanInv, B!Current
  <1>3. CASE UNCHANGED posted
    BY <1>3
  <1>. QED
    BY <1>1, <1>2, <1>3 DEF B!Next, B!PostCreated, B!PostUnsupported, B!PostRejected, B!PostRefused,
       B!PostUnanswered, B!Verify, B!VerifyFails, B!AssertRow, B!AssertFails, B!AssertEnd, B!Late, B!Other,
       B!Done, B!Uninvolved, B!vars

(* What enters the record is there as declared.                            *)
LEMMA RecordedIsOurs ==
    ASSUME B!BatchAssumption, BatchInv, [B!Next]_B!vars, NEW k \in recorded' \ recorded
    PROVE  stored'[k] = "ours" /\ k \in written'
  <1>1. CASE B!PostCreated
    <2>1. B!Chunk \in SUBSET Key /\ B!TypeOK /\ k \in B!Chunk
      BY <1>1, PostIs, AtWork DEF B!PostCreated, BatchInv
    <2>. QED
      BY <1>1, <2>1, InsertIs DEF B!PostCreated
  <1>2. CASE B!AssertRow
    BY <1>2 DEF B!AssertRow, B!RowMatches
  <1>3. CASE B!CreateIndividually
    <2>1. CASE UNCHANGED recorded
      BY <2>1
    <2>2. CASE \E j \in B!Current : B!Insert({j}) /\ recorded' = recorded \cup {j}
      <3>1. PICK j \in B!Current : B!Insert({j}) /\ recorded' = recorded \cup {j}
        BY <2>2
      <3>2. k = j /\ j \in Key /\ B!TypeOK
        BY <1>3, <3>1, ReplayFacts DEF B!CreateIndividually
      <3>. QED
        BY <3>1, <3>2, InsertIs
    <2>. QED
      BY <1>3, <2>1, <2>2 DEF B!CreateIndividually, B!SkipCycle, B!RefuseDependent, B!CreateAccepted,
         B!CreateRefused, B!CreateUnanswered, B!ReplayNext, B!report
  <1>4. CASE UNCHANGED recorded
    BY <1>4
  <1>. QED
    BY <1>1, <1>2, <1>3, <1>4 DEF B!Next, B!PostUnsupported, B!PostRejected, B!PostRefused, B!Replay, B!Stop,
       B!PostUnanswered, B!Verify, B!NotLive, B!VerifyFails, B!AssertFails, B!AssertEnd, B!Late, B!Other,
       B!Done, B!Uninvolved, B!vars, B!report

(* Bulk creates, for any creates, groups, sizes and budget: nothing is     *)
(* sent again that may be stored or on its way, a row is recorded only     *)
(* when it is there as declared, every planned row ends applied or in an   *)
(* error, and a new proxy is served neither without its new scoped plugins *)
(* nor over a plugin that failed.                                          *)
THEOREM CreatesAreAlwaysProven ==
    ASSUME B!BatchAssumption
    PROVE  B!Spec => []B!CreatesAreSound /\ B!NoReplayOverUnknown /\ B!AppliedIsOurs
  <1>1. B!Init => BatchInv
    BY BatchInit
  <1>2. BatchInv /\ [B!Next]_B!vars => BatchInv'
    BY BatchStep
  <1>3. BatchInv => B!CreatesAreSound
    BY BatchSound
  <1>4. BatchInv /\ [B!Next]_B!vars => [\A S \in posted' \ posted : S \cap (written \cup UNION pending) = {}]_B!vars
    BY SentIsNew DEF Busy
  <1>5. BatchInv /\ [B!Next]_B!vars => [\A k \in recorded' \ recorded : stored'[k] = "ours" /\ k \in written']_B!vars
    BY RecordedIsOurs
  <1>. QED
    BY <1>1, <1>2, <1>3, <1>4, <1>5, PTL DEF B!Spec, B!NoReplayOverUnknown, B!AppliedIsOurs
=============================================================================
