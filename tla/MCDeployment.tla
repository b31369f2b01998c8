---------------------------- MODULE MCDeployment ----------------------------
(* Small instances of the workflows: a production that requires a staging, *)
(* with re-runs; and one environment whose runs queue, among merges,       *)
(* ledger edits and cancellations.  A behaviour is of one of the two.      *)
EXTENDS Deployment

CONSTANTS staging, production

VARIABLE part

Single == [e \in {staging} |-> NoEnv]
Promoting == [e \in {staging, production} |-> IF e = production THEN staging ELSE NoEnv]

Queue == INSTANCE Deployment WITH
    Env <- {staging}, Requires <- Single, FileMode <- {},
    MaxRuns <- 3, MaxReruns <- 0, MaxOthers <- 1, MaxCuts <- 1

AllInit ==
    \/ part = "promotion" /\ Init
    \/ part = "queue" /\ Queue!Init
AllNext ==
    /\ UNCHANGED part
    /\ \/ part = "promotion" /\ Next
       \/ part = "queue" /\ Queue!Next
AllSpec == AllInit /\ [][AllNext]_<<vars, part>>
QueueSpec == part = "queue" /\ Init /\ [][Next /\ UNCHANGED part]_<<vars, part>>

(* When all runs are over, an environment that does not serve the inputs   *)
(* of the head had a run of them, which was not refused for being old.     *)
QueueIsAccounted ==
    /\ part = "promotion" => TypeOK /\ Accounted
    /\ part = "queue" => Queue!TypeOK /\ Queue!Accounted
=============================================================================
