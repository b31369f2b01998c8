---------------------------- MODULE BatchCreate ----------------------------
(***************************************************************************)
(* The bulk creates of an incremental apply (try_batch_create and what it  *)
(* calls, apply/api_target.rs; split_batch and post_batch, http_client.rs):*)
(* how a set of creates is cut into POST /batch bodies, what an answer     *)
(* lets the run do next, and the individual creates it falls back to.      *)
(*                                                                         *)
(* A row is "absent", "ours" (exactly what the repository declares) or     *)
(* "other".  The gateway executes a body as one create-only transaction.   *)
(* What one unanswered create does, step by step, is in Apply.             *)
(***************************************************************************)
EXTENDS Integers, Sequences, FiniteSets, Functions

CONSTANTS
    Key,            \* creates, numbered in the order of kinds
    KindOf,         \* [Key -> {"Upstream", "Consumer", "PluginConfig", "Proxy"}]
    ScopedTo,       \* [Key -> Key \cup {NoKey}]: a scoped plugin's proxy
    Uses,           \* [Key -> SUBSET (Key \cup Older)]: a proxy's plugins
    Older,          \* plugins written before, some of which failed
    NoKey, Sizes, Budget,
    MaxOthers       \* bound on the writes of others

BatchAssumption ==
    /\ Key \subseteq Nat /\ IsFiniteSet(Key) /\ NoKey \notin Key
    /\ KindOf \in [Key -> {"Upstream", "Consumer", "PluginConfig", "Proxy"}]
    /\ ScopedTo \in [Key -> Key \cup {NoKey}]
    /\ \A k \in Key : ScopedTo[k] # NoKey => KindOf[k] = "PluginConfig"
    /\ Uses \in [Key -> SUBSET (Key \cup Older)]
    /\ Budget \in Nat /\ MaxOthers \in Nat

VARIABLES
    flag,           \* allow_nontransactional_plugin_attach
    size, failedBefore, cyclic,     \* inputs of the run
    chunks, pos, todo, pc, attach,
    failedPlugins, failedProxies,
    applied, named,                 \* applied_incremental, rows in `errors`
    fatal, stale,
    rows, written, inFlight, others,
    sent                            \* ghost: bodies POSTed by this run

inputs == <<flag, size, failedBefore, cyclic>>
report == <<applied, named, fatal, stale>>
gateway == <<rows, written, inFlight, others>>
vars == <<inputs, chunks, pos, todo, pc, attach, failedPlugins, failedProxies,
          report, gateway, sent>>

OfKind(S, kind) == {k \in S : KindOf[k] = kind}
Weigh(S) == SumFunctionOnSet(size, S)

-----------------------------------------------------------------------------
(* Bodies.                                                                 *)

Linked(x, y) == \/ x \in Uses[y] \/ y \in Uses[x]
                \/ ScopedTo[x] = y \/ ScopedTo[y] = x
Grown(K, k) ==
    LET grow[n \in 0..Cardinality(K)] ==
            IF n = 0 THEN {k}
            ELSE LET g == grow[n - 1]
                 IN  g \cup {x \in K : \E y \in g : Linked(x, y)}
    IN  grow
Group(K, k) == Grown(K, k)[Cardinality(K)]
(* Proxies and plugins that name each other stay in one body.              *)
Groups(K) == {Group(K, k) : k \in K}

(* The groups in the order of their first rows.  (The code takes those of  *)
(* plugins and proxies in the order of the roots of its union-find, each   *)
(* one of the group's plugins: no property looks at the order of bodies.)  *)
Leaders(K) == {k \in K : \A j \in Group(K, k) : k <= j}
Rank(k, S) == Cardinality({j \in S : j < k})
InOrder(K) ==
    LET S == Leaders(K)
    IN  [i \in 1..Cardinality(S) |-> Group(K, CHOOSE k \in S : Rank(k, S) = i - 1)]
(* A group joins the last body if that stays within the budget.            *)
Pack(cs, g) ==
    IF cs # <<>> /\ Weigh(cs[Len(cs)] \cup g) <= Budget
      THEN [cs EXCEPT ![Len(cs)] = @ \cup g] ELSE Append(cs, g)
Packed(K) ==
    LET gs == InOrder(K)
        packed[n \in 0..Len(gs)] == IF n = 0 THEN <<>> ELSE Pack(packed[n - 1], gs[n])
    IN  packed
Split(K) == Packed(K)[Len(InOrder(K))]

(* New scoped plugins and the new proxies they are for.                    *)
Cycles(K) == {p \in OfKind(K, "Proxy") : \E c \in K : ScopedTo[c] = p}
Deferred(K) == {c \in K : ScopedTo[c] \in Cycles(K)}

(* Groups with a proxy that uses a plugin whose write already failed.      *)
Blocked(K, failed) ==
    UNION {g \in Groups(K) : \E p \in OfKind(g, "Proxy") : Uses[p] \cap failed # {}}

-----------------------------------------------------------------------------

Planned == IF cyclic THEN Cycles(Key) \cup Deferred(Key) ELSE Key
Attempted == Planned \ Blocked(Planned, failedBefore)

(* The pure-add path starts with no failed plugins; the path for new       *)
(* proxies among other changes comes after the plugin writes.              *)
Init ==
    /\ flag \in BOOLEAN /\ cyclic \in BOOLEAN /\ size \in Sizes
    /\ failedBefore \in IF cyclic THEN SUBSET Older ELSE {{}}
    /\ chunks = Split(Attempted) /\ pos = 1 /\ todo = {} /\ attach = FALSE
    /\ pc = IF Attempted = {} THEN "done" ELSE "post"
    /\ failedPlugins = {} /\ failedProxies = {}
    /\ applied = {} /\ named = Planned \ Attempted /\ fatal = FALSE /\ stale = FALSE
    /\ rows = [k \in Key |-> "absent"] /\ written = {} /\ inFlight = {} /\ others = 0
    /\ sent = {}

Chunk == chunks[pos]
(* A chunk was dealt with: on to the next.                                 *)
Onward == /\ pos' = pos + 1 /\ todo' = {}
          /\ pc' = IF pos < Len(chunks) THEN "post" ELSE "done"
Rest(n) == UNION {chunks[i] : i \in n..Len(chunks)}
NoteUnattempted(n) == Rest(n)
Stop(more) ==
    /\ pc' = "done" /\ fatal' = TRUE /\ named' = named \cup more \cup NoteUnattempted(pos + 1)
    /\ UNCHANGED <<pos, todo, applied, stale>>
Replay(allowed) ==
    /\ pc' = "replay" /\ attach' = allowed /\ todo' = Chunk
    /\ named' = IF allowed THEN named ELSE named \cup Cycles(Chunk) \cup Deferred(Chunk)
    /\ UNCHANGED <<pos, applied, fatal, stale>>

Absent(S) == \A k \in S : rows[k] = "absent"
Insert(S) == /\ rows' = [k \in Key |-> IF k \in S THEN "ours" ELSE rows[k]]
             /\ written' = written \cup S
             /\ UNCHANGED <<inFlight, others>>

Post == pc = "post" /\ sent' = sent \cup {Chunk} /\ UNCHANGED <<inputs, chunks, failedPlugins, failedProxies>>

PostCreated ==
    /\ Post /\ Absent(Chunk) /\ Insert(Chunk) /\ Onward
    /\ applied' = applied \cup Chunk
    /\ UNCHANGED <<attach, named, fatal, stale>>

(* 501: an acyclic first body leaves the whole set to the ordinary path.   *)
PostUnsupported ==
    /\ Post
    /\ IF pos = 1 /\ \A i \in 1..Len(chunks) : Cycles(chunks[i]) = {}
         THEN pc' = "fallback" /\ UNCHANGED <<pos, todo, attach, report>>
         ELSE Replay(flag)
    /\ UNCHANGED gateway

ReplayAllowed(status) == flag /\ status = 413
(* 400, 409, 413 and 422 prove that nothing of the body was stored.        *)
PostRejected ==
    /\ Post
    /\ \E status \in {400, 409, 413, 422} :
         /\ status = 409 <=> ~Absent(Chunk)
         /\ Replay(ReplayAllowed(status))
    /\ UNCHANGED gateway

(* Refusals that say nothing of the body, read-only planes among them, and *)
(* a commit that is not live.                                              *)
PostRefused ==
    /\ Post /\ Stop(Chunk) /\ UNCHANGED <<attach>>
    /\ UNCHANGED gateway \/ (Absent(Chunk) /\ Insert(Chunk))

PostUnanswered ==
    /\ Post /\ pc' = "verify"
    /\ \/ Absent(Chunk) /\ Insert(Chunk)
       \/ inFlight' = inFlight \cup {Chunk} /\ UNCHANGED <<rows, written, others>>
       \/ UNCHANGED gateway
    /\ UNCHANGED <<pos, todo, attach, report>>

Uninvolved == UNCHANGED <<inputs, chunks, attach, failedPlugins, failedProxies, sent>>

BatchLiveMatch ==
    IF \A k \in Chunk : rows[k] = "ours" THEN "exact"
    ELSE IF Absent(Chunk) THEN "absent" ELSE "different"
NotLive_Replay == Replay(flag)   \* mutant: sent again, one by one
(* A body that is not live is reported, and left to the next run.          *)
NotLive == Onward /\ named' = named \cup Chunk /\ UNCHANGED <<applied, fatal, stale>>
(* The backup read after an unanswered body.                               *)
Verify ==
    /\ pc = "verify"
    /\ IF BatchLiveMatch = "exact"
         THEN pc' = "assert" /\ todo' = Chunk /\ UNCHANGED <<pos, report>>
         ELSE IF BatchLiveMatch = "absent" THEN NotLive ELSE Stop(Chunk)
    /\ Uninvolved /\ UNCHANGED gateway
VerifyFails ==
    /\ pc = "verify" /\ Stop(Chunk) /\ Uninvolved /\ UNCHANGED gateway

RowMatches(k) == rows[k] = "ours"
(* Every row of a proven body is claimed by a conditional PUT.             *)
Foremost == {k \in todo : \A j \in todo : k <= j}
AssertRow ==
    /\ pc = "assert"
    /\ \E k \in Foremost :
         IF RowMatches(k)
           THEN /\ applied' = applied \cup {k} /\ written' = written \cup {k}
                /\ todo' = todo \ {k} /\ UNCHANGED <<pc, pos, named, fatal, stale>>
           ELSE /\ stale' = TRUE /\ pc' = "done"
                /\ named' = named \cup {k} \cup NoteUnattempted(pos + 1)
                /\ UNCHANGED <<pos, todo, applied, fatal, written>>
    /\ Uninvolved /\ UNCHANGED <<rows, inFlight, others>>
AssertFails ==
    /\ pc = "assert"
    /\ \E k \in Foremost :
         \/ Stop({k})
         \/ named' = named \cup {k} /\ todo' = todo \ {k}
            /\ UNCHANGED <<pc, pos, applied, fatal, stale>>
    /\ Uninvolved /\ UNCHANGED gateway
(* A claim that failed stops the batch after the chunk.                    *)
AssertEnd ==
    /\ pc = "assert" /\ todo = {}
    /\ IF Chunk \cap named # {}
         THEN /\ pc' = "done" /\ named' = named \cup NoteUnattempted(pos + 1)
              /\ UNCHANGED <<pos, todo, applied, fatal, stale>>
         ELSE Onward /\ UNCHANGED report
    /\ Uninvolved /\ UNCHANGED gateway

-----------------------------------------------------------------------------
(* create_individually.                                                    *)

Turn(k) == CASE KindOf[k] = "Upstream" -> 1 [] KindOf[k] = "Consumer" -> 2
             [] KindOf[k] = "PluginConfig" -> IF k \in Deferred(Chunk) THEN 5 ELSE 3
             [] OTHER -> 4
Current == {k \in todo : \A j \in todo : Turn(k) <= Turn(j)}
Withheld(k) == ~attach /\ k \in Cycles(Chunk) \cup Deferred(Chunk)
DependencyFailed(k) ==
    \/ KindOf[k] = "Proxy" /\ Uses[k] \cap failedPlugins # {}
    \/ k \in Deferred(Chunk) /\ ScopedTo[k] \in failedProxies
Failed(k) ==
    /\ failedPlugins' = IF KindOf[k] = "PluginConfig" THEN failedPlugins \cup {k} ELSE failedPlugins
    /\ failedProxies' = IF KindOf[k] = "Proxy" THEN failedProxies \cup {k} ELSE failedProxies
Drop(k) == todo' = todo \ {k} /\ UNCHANGED <<pc, pos, attach, inputs, chunks>>

SkipCycle(k) ==
    /\ Withheld(k) /\ Drop(k)
    /\ failedPlugins' = IF KindOf[k] = "PluginConfig" THEN failedPlugins \cup {k} ELSE failedPlugins
    /\ UNCHANGED <<failedProxies, report, gateway, sent>>
RefuseDependent(k) ==
    /\ ~Withheld(k) /\ DependencyFailed(k) /\ Drop(k) /\ Failed(k)
    /\ named' = named \cup {k}
    /\ UNCHANGED <<applied, fatal, stale, gateway, sent>>

Sendable(k) == ~Withheld(k) /\ ~DependencyFailed(k)
CreateAccepted(k) ==
    /\ Sendable(k) /\ rows[k] = "absent" /\ Insert({k}) /\ Drop(k)
    /\ applied' = applied \cup {k} /\ sent' = sent \cup {{k}}
    /\ UNCHANGED <<failedPlugins, failedProxies, named, fatal, stale>>
CreateRefused(k) ==
    /\ Sendable(k) /\ Drop(k) /\ Failed(k)
    /\ named' = named \cup {k} /\ sent' = sent \cup {{k}}
    /\ UNCHANGED <<applied, fatal, stale, gateway>>
(* An unanswered create whose row the backup shows is claimed, one it does *)
(* not show is an ordinary failure, and anything else stops the run.       *)
CreateUnanswered(k) ==
    /\ Sendable(k) /\ sent' = sent \cup {{k}}
    /\ \/ /\ rows[k] = "absent" /\ Insert({k}) /\ Drop(k)
          /\ applied' = applied \cup {k}
          /\ UNCHANGED <<failedPlugins, failedProxies, named, fatal, stale>>
       \/ /\ rows[k] = "absent" /\ Drop(k) /\ Failed(k)
          /\ named' = named \cup {k} /\ inFlight' \in {inFlight, inFlight \cup {{k}}}
          /\ UNCHANGED <<rows, written, others, applied, fatal, stale>>
       \/ /\ pc' = "done" /\ fatal' = TRUE /\ named' = named \cup {k} /\ Failed(k)
          /\ (rows[k] = "absent" /\ Insert({k})) \/ UNCHANGED gateway
          /\ UNCHANGED <<pos, todo, attach, inputs, chunks, applied, stale>>
ReplayNext ==
    /\ todo = {}
    /\ IF pos < Len(chunks)
         THEN /\ pos' = pos + 1 /\ todo' = chunks[pos + 1] /\ UNCHANGED pc
              /\ named' = IF attach THEN named
                          ELSE named \cup Cycles(chunks[pos + 1]) \cup Deferred(chunks[pos + 1])
         ELSE pc' = "done" /\ UNCHANGED <<pos, todo, named>>
    /\ UNCHANGED <<applied, fatal, stale, gateway>> /\ Uninvolved
CreateIndividually ==
    /\ pc = "replay"
    /\ \/ \E k \in Current :
             \/ SkipCycle(k) \/ RefuseDependent(k)
             \/ CreateAccepted(k) \/ CreateRefused(k) \/ CreateUnanswered(k)
       \/ ReplayNext

-----------------------------------------------------------------------------

Late ==
    /\ \E S \in inFlight :
         /\ inFlight' = inFlight \ {S}
         /\ IF Absent(S)
              THEN /\ rows' = [k \in Key |-> IF k \in S THEN "ours" ELSE rows[k]]
                   /\ written' = written \cup S
              ELSE UNCHANGED <<rows, written>>
    /\ UNCHANGED <<others, pc, pos, todo, report>> /\ Uninvolved

Other ==
    /\ others < MaxOthers /\ others' = others + 1 /\ pc \notin {"done", "fallback"}
    /\ \E k \in Key : \E r \in {"absent", "ours", "other"} \ {rows[k]} :
            rows' = [rows EXCEPT ![k] = r]
    /\ UNCHANGED <<written, inFlight, pc, pos, todo, report>> /\ Uninvolved

Done == pc \in {"done", "fallback"} /\ UNCHANGED vars

Next ==
    \/ PostCreated \/ PostUnsupported \/ PostRejected \/ PostRefused \/ PostUnanswered
    \/ Verify \/ VerifyFails \/ AssertRow \/ AssertFails \/ AssertEnd
    \/ CreateIndividually \/ Late \/ Other \/ Done
Spec == Init /\ [][Next]_vars

-----------------------------------------------------------------------------
(* Properties.                                                             *)

TypeOK ==
    /\ flag \in BOOLEAN /\ cyclic \in BOOLEAN /\ failedBefore \subseteq Older
    /\ pos \in 1..Len(chunks) + 1 /\ todo \subseteq Key /\ attach \in BOOLEAN
    /\ pc \in {"post", "verify", "assert", "replay", "done", "fallback"}
    /\ failedPlugins \cup failedProxies \cup applied \cup named \subseteq Key
    /\ fatal \in BOOLEAN /\ stale \in BOOLEAN
    /\ rows \in [Key -> {"absent", "ours", "other"}] /\ written \subseteq Key
    /\ inFlight \subseteq SUBSET Key /\ sent \subseteq SUBSET Key

(* A create is never sent again while an earlier one may have stored it or *)
(* may still do so: only a proven refusal leads to a second POST.          *)
NoReplayOverUnknown ==
    [][\A S \in sent' \ sent : S \cap (written \cup UNION inFlight) = {}]_vars

(* A row enters the record, and so the ledger that may delete it later, in *)
(* a step that finds or puts there exactly the declared row: a claim never *)
(* overwrites what another actor made of it.                               *)
AppliedIsOurs == [][\A k \in applied' \ applied : rows'[k] = "ours" /\ k \in written']_vars

(* A new proxy is never served without its new scoped plugins, unless the  *)
(* operator accepted that and the gateway cannot do better.                *)
AttachIsAtomic ==
    \A p \in Cycles(Attempted) :
        {p} \in sent => flag /\ attach

(* And no proxy is created over a plugin whose write failed.               *)
NothingOverFailed ==
    \A S \in sent : \A p \in OfKind(S, "Proxy") : Uses[p] \cap failedBefore = {}

(* When the creates end every planned row is applied or named in an error; *)
(* only a stop in the middle of a chunk's rows leaves any out.             *)
NothingIsSilent ==
    pc = "done" => \/ Planned \subseteq applied \cup named
                   \/ todo # {} /\ (fatal \/ stale)

(* A body holds every row that names another of its rows, whole groups,    *)
(* and stays within the budget unless one group alone exceeds it.          *)
BodiesAreWhole ==
    /\ UNION {chunks[i] : i \in 1..Len(chunks)} = Attempted
    /\ \A i \in 1..Len(chunks) :
         /\ \A k \in chunks[i], x \in Attempted : Linked(k, x) => x \in chunks[i]
         /\ Weigh(chunks[i]) <= Budget \/ \E k \in Key : Group(Attempted, k) = chunks[i]

(* What holds of the creates at every moment.                              *)
CreatesAreSound ==
    TypeOK /\ NothingIsSilent /\ AttachIsAtomic /\ NothingOverFailed /\ BodiesAreWhole
=============================================================================
