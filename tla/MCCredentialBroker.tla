------------------------- MODULE MCCredentialBroker -------------------------
(* TLC instances of CredentialBroker: two Consumers whose slots hash to    *)
(* the same bundle secret, of two, that holds one of them, or both when    *)
(* credentials are rotated.  A behaviour is of one of four parts, each     *)
(* with bounds of its own.                                                 *)
EXTENDS CredentialBroker

CONSTANTS a, b, alice, bob, nobody

VARIABLE part

SameHash == [s \in Slot |-> 0]

(* Rotations among allocations, with two faults.                           *)
Rotating == INSTANCE CredentialBroker WITH
    Capacity <- 2, Modes <- {"strict"}, Blockable <- {}, MaxRevision <- 1, MaxRotations <- 1,
    MaxFaults <- 2

(* One Consumer removed and declared again, under other revisions and      *)
(* recipients; the other one never is.                                     *)
Retiring == INSTANCE CredentialBroker WITH
    Author <- {alice, bob, nobody}, Modes <- {"strict", "partial", "remap"},
    Blockable <- {}, OnlyRefused <- TRUE, MaxRevision <- 4, MaxFaults <- 2

(* One Consumer whose row an administrator keeps changing while its runs   *)
(* fail: a run that adopts it must not take what moved for recorded.       *)
Adopting == INSTANCE CredentialBroker WITH
    Author <- {alice}, Modes <- {"strict"}, Blockable <- {}, MaxRevision <- 1, MaxFaults <- 3
OnlyA == b \notin declared' /\ row'[b] = NoRow

(* Allocation under crashes, lost ledgers and ambiguous PUTs is the        *)
(* instance of the configuration.                                          *)
AllInit ==
    \/ part = "allocate" /\ Init
    \/ part = "rotate" /\ Rotating!Init
    \/ part = "retire" /\ Retiring!Init /\ b \notin declared
    \/ part = "adopt" /\ Adopting!Init /\ b \notin declared
AllNext ==
    /\ UNCHANGED part
    /\ \/ part = "allocate" /\ Next
       \/ part = "rotate" /\ Rotating!Next
       \/ part = "retire" /\ Retiring!Next /\ OnlyA
       \/ part = "adopt" /\ Adopting!Next /\ OnlyA
AllSpec == AllInit /\ [][AllNext]_<<vars, part>>

(* No batch makes a secret outgrow what it may hold.                       *)
SecretsFit ==
    /\ part = "allocate" => TypeOK
    /\ IF part = "rotate" THEN Rotating!CapacityRespected ELSE CapacityRespected
=============================================================================
