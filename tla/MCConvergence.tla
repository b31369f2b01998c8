--------------------------- MODULE MCConvergence ---------------------------
(* What is promised in the long run, on small instances of Apply, of the   *)
(* CredentialBroker, of the workflows, of a published document and of a    *)
(* validation.  A behaviour is of one of them, and the others rest.        *)
EXTENDS MCApply, Sequences

CONSTANTS alice, bob, nobody, Foreign, NoSlot

VARIABLES
    part,
    secrets, row, declared, revision, author, store, work, phase, target, ledger,
    shards, shardCount, slots, place, fresh, out, refused, adds, ops, landed, fenced,
    broken, surfaced, lost, untracked, retired, unrecorded, born, made, rotations,
    spent

Broker == INSTANCE CredentialBroker WITH
    Slot <- {ka, kb}, MaxShards <- 2, Capacity <- 1, Hash <- [s \in {ka, kb} |-> 0],
    MaxValue <- 6, Author <- {alice, nobody}, Nobody <- nobody, Modes <- {"strict"},
    Blockable <- {}, OnlyRefused <- TRUE, MaxRevision <- 2, MaxRotations <- 1,
    MaxFaults <- 1,
    committed <- store, disk <- work, mem <- ledger, todo <- slots, plan <- place,
    blocked <- refused, failed <- broken, faults <- spent

brokerVars ==
    <<secrets, row, declared, revision, author, store, work, phase, target, ledger,
      shards, shardCount, slots, place, fresh, out, refused, adds, ops, landed, fenced,
      broken, surfaced, lost, untracked, retired, unrecorded, born, made, rotations,
      spent>>

(* The workflows: three pushes or dispatches of one environment.           *)
VARIABLES main, runs, work_of, records, gateway, unpushed, proved, reruns, others, cuts
deployVars == <<main, runs, work_of, records, gateway, unpushed, proved, reruns, others, cuts>>
Workflows == INSTANCE Deployment WITH
    Env <- {"staging"}, NoEnv <- "none", Requires <- [e \in {"staging"} |-> "none"],
    FileMode <- {}, Inputs <- {1, 2}, Mixed <- 0, MaxRuns <- 2, MaxReruns <- 1,
    MaxOthers <- 0, MaxCuts <- 0, MaxPushes <- 1, job <- work_of, lost <- unpushed
DeployRests == Workflows!Init

(* Publication: two runs, and a process that may die with the lock.        *)
VARIABLES gw, mesh, aim, files, record, lock, step, job, saved, outcome, ours,
          settled, starts, edits, failures
fileVars == <<gw, mesh, aim, files, record, lock, step, job, saved, outcome, ours, settled, starts, edits, failures>>
Files == INSTANCE FilePublication WITH
    Run <- {"r", "s"}, Namespace <- {"a", "b"}, NoNs <- "all", EnvFilter <- "a",
    GatewayPath <- "g", MeshPath <- {"m", "l"},
    FileOf <- [p \in {"g", "m", "l"} |-> IF p = "g" THEN "out" ELSE "mesh"],
    Regular <- TRUE, Nobody <- "nobody", NoPath <- "nowhere",
    MaxStarts <- 2, MaxEdits <- 0, MaxFaults <- 1,
    ledger <- record, mem <- saved, pc <- step, calm <- settled, faults <- failures
FilesRest == gw = {} /\ mesh = {} /\ aim = "m" /\ Files!Init

(* Validation: one document, one attempt.                                  *)
VARIABLES content, good, invalid, grade, accepted, rejected, ended, turn, attempt, status,
          got, spec, denied, spawns, env, child, code, descendant, writers, bytes,
          reader, expired
validatorVars == <<content, good, invalid, grade, accepted, rejected, ended, turn, attempt,
                   status, got, spec, denied, spawns, env, child, code, descendant,
                   writers, bytes, reader, expired>>
Validation == INSTANCE Validator WITH
    Repositories <- {[namespaces |-> <<"n1">>, mesh |-> FALSE]},
    StreamCap <- 1, Attempts <- 1, NoNamespace <- "none",
    Default <- "ferrum", Mesh <- "mesh", declared <- content, bad <- invalid, next <- grade, pc <- turn,
    refused <- denied, starts <- spawns
ValidatorRests == Validation!Init

-----------------------------------------------------------------------------
ApplyRests  == live \in EmptyView /\ Init
BrokerRests == declared = {} /\ author = nobody /\ Broker!Init

AllInit ==
    \/ part = "apply" /\ Init /\ BrokerRests /\ DeployRests /\ FilesRest /\ ValidatorRests
    \/ part = "broker" /\ ApplyRests /\ Broker!Init /\ DeployRests /\ FilesRest /\ ValidatorRests
    \/ part = "deploy" /\ ApplyRests /\ BrokerRests /\ Workflows!Init /\ FilesRest /\ ValidatorRests
    \/ part = "files" /\ ApplyRests /\ BrokerRests /\ DeployRests /\ Files!Init /\ ValidatorRests
    \/ part = "validate" /\ ApplyRests /\ BrokerRests /\ DeployRests /\ FilesRest /\ Validation!Init
AllNext ==
    /\ UNCHANGED part
    /\ \/ part = "apply" /\ Next
          /\ UNCHANGED <<brokerVars, deployVars, fileVars, validatorVars>>
       \/ part = "broker" /\ Broker!Next
          /\ UNCHANGED <<vars, deployVars, fileVars, validatorVars>>
       \/ part = "deploy" /\ Workflows!Next
          /\ UNCHANGED <<vars, brokerVars, fileVars, validatorVars>>
       \/ part = "files" /\ Files!Next
          /\ UNCHANGED <<vars, brokerVars, deployVars, validatorVars>>
       \/ part = "validate" /\ Validation!Next
          /\ UNCHANGED <<vars, brokerVars, deployVars, fileVars>>

(* The fairness each module states, for the part that runs.                *)
Works(p, A) == part = p /\ A
AllSpec ==
    /\ AllInit /\ [][AllNext]_<<vars, brokerVars, deployVars, fileVars, validatorVars, part>>
    /\ WF_vars(Works("apply", RunStep)) /\ WF_vars(Works("apply", LateCommit))
    /\ WF_brokerVars(Works("broker", Broker!RunStep))
    /\ WF_brokerVars(Works("broker", \E mode \in {"strict"} : Broker!BeginApply(mode)))
    /\ WF_brokerVars(Works("broker", \E s \in {ka, kb} : Broker!Retire(s)))
    /\ \A r \in 1..2 :
         /\ WF_deployVars(Works("deploy", r \in 1..Len(runs) /\ Workflows!Promote(r)))
         /\ WF_deployVars(Works("deploy", r \in 1..Len(runs) /\ Workflows!Join(r, "staging")))
         /\ WF_deployVars(Works("deploy", r \in 1..Len(runs) /\ Workflows!Start(r, "staging")))
         /\ WF_deployVars(Works("deploy", r \in 1..Len(runs) /\ Workflows!HeldStep(r, "staging")))
    /\ WF_fileVars(Works("files", Files!RemoveLock))
    /\ \A r \in {"r", "s"} : WF_fileVars(Works("files", Files!Step(r)))
    /\ WF_validatorVars(Works("validate", Validation!Supervise))
    /\ WF_validatorVars(Works("validate", Validation!Expire))

(* Once merges, faults and rotations are over, every declared Consumer     *)
(* comes to be served by the value its slot holds, and owned.              *)
Recovers == Broker!Recovers

(* Nothing waits for ever: the workflows that were triggered end, whatever *)
(* queues behind whatever; a lock left by a run that died is freed; and a  *)
(* validation ends, whatever the validator does.                           *)
EveryRunEnds ==
    []<>(/\ part = "deploy" => Workflows!Quiet
         /\ part = "files" => lock = "nobody"
         /\ part = "validate" => ended # "no")
=============================================================================
