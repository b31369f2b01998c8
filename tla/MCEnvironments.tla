--------------------------- MODULE MCEnvironments ---------------------------
(* Apply in two kinds of environment: one that owns its only namespace,    *)
(* which somebody already filled, and one that shares two namespaces, of   *)
(* which a run may take one.  A behaviour is of one of the two, and the    *)
(* other rests.                                                            *)
EXTENDS MCApply

CONSTANTS s1

VARIABLE part

VARIABLES held, creator, late, saved, merged, want, scope, view, barred, ledger,
          captured, current, adopted, step, ahead, here, ops, doing, landed, lost,
          error, gone, ours, given, quiet, edits, breaks
scopedVars == <<held, creator, late, saved, merged, want, scope, view, barred, ledger,
                captured, current, adopted, step, ahead, here, ops, doing, landed, lost,
                error, gone, ours, given, quiet, edits, breaks>>

Scoped == INSTANCE Apply WITH
    Namespace <- {n1, n2}, Key <- {ka, kb, kc}, NsOf <- TwoNs, SpecId <- {s1},
    Mode <- "shared", PruneSpecOwned <- FALSE, KindOf <- ThreeKinds, References <- {},
    Owned <- {}, Filters <- ScopedFilters, Documents <- ScopedDocs,
    InitialViews <- ScopedViews, Written <- {b},
    MaxChanges <- 1, MaxFaults <- 1,
    live <- held, origin <- creator, landing <- late, disk <- saved, committed <-
    merged, desired <- want, nss <- scope, plan <- view, blocked <- barred, mem <-
    ledger, evidence <- captured, tag <- current, confirmed <- adopted, pc <- step, left
    <- ahead, cur <- here, todo <- ops, op <- doing, applied <- landed, bad <- lost,
    failed <- error, stale <- gone, claimed <- ours, forgotten <- given, calm <- quiet,
    changes <- edits, faults <- breaks

ScopedRests == held = [k \in {ka, kb, kc} |-> NoRow] /\ Scoped!Init

AllInit ==
    \/ part = "exclusive" /\ Init /\ ScopedRests
    \/ part = "scoped" /\ Init /\ Scoped!Init
AllNext ==
    /\ UNCHANGED part
    /\ \/ part = "exclusive" /\ Next /\ UNCHANGED scopedVars
       \/ part = "scoped" /\ Scoped!Next /\ UNCHANGED vars
AllSpec == AllInit /\ [][AllNext]_<<vars, scopedVars, part>>

(* A run nothing disturbs succeeds but for ownership conflicts, leaves its *)
(* namespaces as declared and everything declared in the delete fence; any *)
(* run that reports success leaves nothing unsettled in its ledger; and a  *)
(* run of one namespace forgets nothing about the other, nor prunes it,    *)
(* and deletes last.                                                       *)
RunsConverge ==
    /\ [](part = "exclusive" =>
            TypeOK /\ CalmRunConverges /\ CleanRunSettlesLedger /\ DeclaredRowsAreManaged)
    /\ [](part = "scoped" => /\ Scoped!CalmRunConverges /\ Scoped!CleanRunSettlesLedger
                             /\ Scoped!DeclaredRowsAreManaged /\ Scoped!CreatesAreAccounted
                             /\ Scoped!PruneIsBounded)
    /\ Scoped!DeletesComeLast
=============================================================================
