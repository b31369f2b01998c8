------------------------------ MODULE MCWrites ------------------------------
(* Small instances of how a run writes the gateway beside the operations   *)
(* of Apply: a full replacement, bulk creates, and plugins with the        *)
(* proxies that name them.  A behaviour is of one of the three parts, and  *)
(* the others rest.                                                        *)
EXTENDS FullReplace, TLC

(* Full replacement.  First namespace: a declared Consumer and the proxy   *)
(* of an API spec.  Second: a declared row and one nobody declares.        *)
InNs == ("own" :> "one") @@ ("api" :> "one") @@ ("decl" :> "two") @@ ("hand" :> "two")
DocNs == [d \in ApiSpec |-> "one"]
DocOwner == [d \in ApiSpec |-> "api"]
Both == <<"one", "two">>
R(c, s, u) == [content |-> c, spec |-> s, unknown |-> u]
AllRows == {NoRow, R("other", NoSpec, "none"),
            R("other", NoSpec, "top"), R("other", NoSpec, "hidden"),
            R("other", "doc", "none"), R("other", "doc", "top"), R("other", "doc", "nested")}

VARIABLE part

-----------------------------------------------------------------------------
(* Bulk creates: a consumer, a shared plugin, a scoped plugin, and the two *)
(* proxies that use them; plugin 0 was written before.  And the same with  *)
(* no plugin scoped to a new proxy.                                        *)
VARIABLES flag, size, failedBefore, cyclic, chunks, at, left, step, attach,
          failedPlugins, failedProxies, applied, named, stopped, stale,
          stored, acked, inFlight, others, sent
batchVars == <<flag, size, failedBefore, cyclic, chunks, at, left, step, attach,
               failedPlugins, failedProxies, applied, named, stopped, stale,
               stored, acked, inFlight, others, sent>>

Same == [k \in 1..5 |-> 1]
BatchKinds == (1 :> "Consumer") @@ (2 :> "PluginConfig") @@ (3 :> "PluginConfig")
              @@ (4 :> "Proxy") @@ (5 :> "Proxy")
BatchUses  == (4 :> {0, 3}) @@ (5 :> {2}) @@ [k \in 1..3 |-> {}]
Batch == INSTANCE BatchCreate WITH
    Key <- 1..5, KindOf <- BatchKinds, Uses <- BatchUses,
    ScopedTo <- [k \in 1..5 |-> IF k = 3 THEN 4 ELSE 6],
    Older <- {0}, NoKey <- 6, Sizes <- {Same, [Same EXCEPT ![3] = 3]},
    Budget <- 3, MaxOthers <- 1,
    pos <- at, todo <- left, pc <- step, fatal <- stopped, rows <- stored,
    written <- acked
Acyclic == INSTANCE BatchCreate WITH
    Key <- 1..5, KindOf <- BatchKinds, Uses <- BatchUses, ScopedTo <- [k \in 1..5 |-> 6],
    Older <- {0}, NoKey <- 6, Sizes <- {Same}, Budget <- 3, MaxOthers <- 1,
    pos <- at, todo <- left, pc <- step, fatal <- stopped, rows <- stored,
    written <- acked
ASSUME MCBatchAssumption == Batch!BatchAssumption /\ Acyclic!BatchAssumption
BatchRests ==
    /\ flag = FALSE /\ cyclic = FALSE /\ failedBefore = {} /\ size = Same
    /\ Batch!Init

-----------------------------------------------------------------------------
(* Plugins and proxies: one plugin of every scope, one of a group or gone. *)
VARIABLES scope, assoc, pver, xver, enforces, wantScope, wantAssoc, planScope,
          planAssoc, updates, proxies, deletes, turn, cur, tag, wrote, touched,
          unwritten, writesFailed, moved, seen, disturbed, faults
assocVars == <<scope, assoc, pver, xver, enforces, wantScope, wantAssoc, planScope,
               planAssoc, updates, proxies, deletes, turn, cur, tag, wrote, touched,
               unwritten, writesFailed, moved, seen, disturbed, faults>>

Associations == INSTANCE PluginAssociations WITH
    Plugin <- {"guard", "log"}, Proxy <- {"x", "y"},
    Gone <- "gone", Global <- "global", Group <- "group",
    Scopes <- ("guard" :> {"gone", "global", "group", "x", "y"}) @@ ("log" :> {"gone", "group"}),
    MaxChanges <- 1, MaxFaults <- 1,
    pc <- turn, written <- wrote, failedPlugins <- unwritten, stale <- moved,
    changes <- disturbed
ASSUME MCAssociationsAssumption == Associations!AssociationsAssumption
AssociationsRest ==
    /\ scope = [p \in {"guard", "log"} |-> "gone"] /\ wantScope = scope
    /\ assoc = {} /\ wantAssoc = {} /\ enforces = TRUE
    /\ Associations!Init

-----------------------------------------------------------------------------
ReplaceRests ==
    /\ docs = {} /\ disk = EmptyLedger /\ rows = [k \in Key |-> NoRow]
    /\ Init

AllInit ==
    \/ part = "replace" /\ Init /\ BatchRests /\ AssociationsRest
    \/ part = "batch" /\ ReplaceRests /\ Batch!Init /\ AssociationsRest
    \/ part = "acyclic" /\ ReplaceRests /\ Acyclic!Init /\ AssociationsRest
    \/ part = "plugins" /\ ReplaceRests /\ BatchRests /\ Associations!Init
AllNext ==
    /\ UNCHANGED part
    /\ \/ part = "replace" /\ Next /\ UNCHANGED <<batchVars, assocVars>>
       \/ part = "batch" /\ Batch!Next /\ UNCHANGED <<vars, assocVars>>
       \/ part = "acyclic" /\ Acyclic!Next /\ UNCHANGED <<vars, assocVars>>
       \/ part = "plugins" /\ Associations!Next /\ UNCHANGED <<vars, batchVars>>
AllSpec == AllInit /\ [][AllNext]_<<vars, batchVars, assocVars, part>>

(* Bulk creates: nothing is sent again that may be stored or on its way, a *)
(* row is recorded only when it is there as declared, every planned row    *)
(* ends applied or in an error, and a new proxy is served neither without  *)
(* its new scoped plugins nor over a plugin that failed.                   *)
CreatesAreProven ==
    /\ Batch!NoReplayOverUnknown /\ Batch!AppliedIsOurs
    /\ [](part = "batch" => Batch!CreatesAreSound)
    /\ [](part = "acyclic" => Acyclic!CreatesAreSound)

(* A run detaches a plugin only from proxies its plan accounts for, writes *)
(* no proxy's list over associations others made, and settles them in one  *)
(* go when nobody disturbs it.                                             *)
AssociationsAreKept == Associations!AssociationsAreKept
=============================================================================
