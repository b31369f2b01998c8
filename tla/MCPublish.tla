----------------------------- MODULE MCPublish -----------------------------
(* Small instances of what stands between a change and its promotion: the  *)
(* validator's verdict on the documents, their publication as files, and   *)
(* the verification of what was deployed.  A behaviour is of one part, and *)
(* the others rest.                                                        *)
EXTENDS FilePublication

VARIABLE part

-----------------------------------------------------------------------------
(* Publication: two runs of an environment that has no filter, where a     *)
(* spelling of the mesh path names the gateway's file; and one run of a    *)
(* filtered environment, whose destination is a symbolic link.             *)
Paths == [p \in {"g", "m", "l"} |-> IF p = "m" THEN "mesh" ELSE "out"]
LinkPaths == [p \in {"g", "m", "l"} |-> IF p = "g" THEN "out" ELSE "mesh"]

VARIABLES gwIn, meshIn, aimed, dest, recorded, locked, step, work, read, result,
          written, quiet, begun, edited, failed
linkedVars == <<gwIn, meshIn, aimed, dest, recorded, locked, step, work, read, result,
                written, quiet, begun, edited, failed>>
Linked == INSTANCE FilePublication WITH
    Run <- {"r"}, EnvFilter <- "a", FileOf <- LinkPaths, Regular <- FALSE, MaxEdits <- 1,
    gw <- gwIn, mesh <- meshIn, aim <- aimed, files <- dest, ledger <- recorded,
    lock <- locked, pc <- step, job <- work, mem <- read, outcome <- result,
    ours <- written, calm <- quiet, starts <- begun, edits <- edited, faults <- failed

-----------------------------------------------------------------------------
(* Verification: two slots, one of them in a namespace an ad-hoc run leaves *)
(* out, and smoke files with a guarded read with and without a credential, *)
(* writes that may and may not be replayed, and too long a check.          *)
VARIABLES checks, adhoc, bound, brokered, labelled, secret, allow, changed, handoff,
          served, stage, applied, granted, next, tries, clock, results, overhead,
          sent, effects, answered, record
verifyVars == <<checks, adhoc, bound, brokered, labelled, secret, allow, changed, handoff,
                served, stage, applied, granted, next, tries, clock, results, overhead,
                sent, effects, answered, record>>

NoSlot == "no-slot"
C(method, slot, guarded, expect, attempts, replay) ==
    [method |-> method, slot |-> slot, guarded |-> guarded, expect |-> expect,
     attempts |-> attempts, timeout |-> 1, backoff |-> 1, replay_safe |-> replay]

Lists ==
    {<<>>,
     <<C("GET", "here", TRUE, "200", 2, FALSE), C("GET", NoSlot, TRUE, "401", 1, FALSE)>>,
     <<C("GET", "here", TRUE, "401", 1, FALSE)>>,
     <<C("GET", "there", TRUE, "200", 1, FALSE)>>,
     <<C("POST", NoSlot, FALSE, "200", 3, FALSE)>>,
     <<C("POST", NoSlot, FALSE, "200", 2, TRUE), C("GET", NoSlot, FALSE, "200", 1, FALSE)>>,
     <<C("GET", NoSlot, FALSE, "200", 4, FALSE)>>}
Verification == INSTANCE Verify WITH
    Slot <- {"here", "there"}, Elsewhere <- {"there"}, CheckLists <- Lists,
    BudgetCap <- 10, Grace <- 1, MaxOverhead <- 3, edited <- changed, pc <- stage
ASSUME MCVerifyAssumption == Verification!VerifyAssumption

-----------------------------------------------------------------------------
(* Validation: an empty document, and a namespace with a mesh.             *)
VARIABLES declared, good, bad, grade, accepted, rejected, ended, turn, attempt, status,
          got, spec, refused, spawns, env, child, code, descendant, writers, bytes,
          reader, expired
validatorVars == <<declared, good, bad, grade, accepted, rejected, ended, turn, attempt,
                   status, got, spec, refused, spawns, env, child, code, descendant,
                   writers, bytes, reader, expired>>

Meshed == [namespaces |-> <<"n1">>, mesh |-> TRUE]
Validation == INSTANCE Validator WITH
    Repositories <- {Meshed, [namespaces |-> <<>>, mesh |-> FALSE]},
    StreamCap <- 1, Attempts <- 2, NoNamespace <- "none",
    Default <- "ferrum", Mesh <- "mesh", next <- grade, pc <- turn, starts <- spawns
ASSUME MCValidatorAssumption == Validation!ValidatorAssumption

-----------------------------------------------------------------------------
FilesRest == gw = {} /\ mesh = {} /\ aim = "m" /\ Init
LinkedRests == gwIn = {} /\ meshIn = {} /\ aimed = "m" /\ Linked!Init
VerifyRests ==
    /\ checks = <<>> /\ adhoc = FALSE /\ bound = FALSE /\ allow = {}
    /\ handoff = Verification!NoBundle /\ Verification!Init
ValidatorRests == declared = Meshed /\ Validation!Init

AllInit ==
    \/ part = "files" /\ Init /\ LinkedRests /\ VerifyRests /\ ValidatorRests
    \/ part = "linked" /\ FilesRest /\ Linked!Init /\ VerifyRests /\ ValidatorRests
    \/ part = "verify" /\ FilesRest /\ LinkedRests /\ Verification!Init /\ ValidatorRests
    \/ part = "validate" /\ FilesRest /\ LinkedRests /\ VerifyRests /\ Validation!Init
AllNext ==
    /\ UNCHANGED part
    /\ \/ part = "files" /\ Next /\ UNCHANGED <<linkedVars, verifyVars, validatorVars>>
       \/ part = "linked" /\ Linked!Next /\ UNCHANGED <<vars, verifyVars, validatorVars>>
       \/ part = "verify" /\ Verification!Next /\ UNCHANGED <<vars, linkedVars, validatorVars>>
       \/ part = "validate" /\ Validation!Next /\ UNCHANGED <<vars, linkedVars, verifyVars>>
AllSpec == AllInit /\ [][AllNext]_<<vars, linkedVars, verifyVars, validatorVars, part>>

(* A promotion is authorised by this deployment's own result, asked with   *)
(* this deployment's own credentials; a verification spends no other       *)
(* credential and repeats no request that may act twice, its budget covers *)
(* its checks, and what it would refuse was refused before the gateway     *)
(* changed.                                                                *)
VerificationIsHonest == part = "verify" => Verification!VerificationIsHonest

(* A document is judged and published as a whole: a verdict is not of part *)
(* of the validator's output, nor of a validator that failed or was        *)
(* refused, and nothing of it stays behind; a regular destination never    *)
(* holds a part; and what a filtered environment published through a link  *)
(* is all that it declares.                                                *)
DocumentsAreWhole ==
    /\ part = "validate" => Validation!DocumentsAreWhole
    /\ part = "files" => TypeOK /\ DocumentsStayWhole
    /\ part = "linked" => Linked!TypeOK /\ Linked!CompletedRunConverges
=============================================================================
