---------------------------- MODULE MCDecisions ----------------------------
(* Small instances of what decides whether a change may happen, or whether *)
(* one is needed: the gates that plan, review and apply share, and the     *)
(* drift check.  A behaviour is of one of the two, and the other rests.    *)
EXTENDS DriftCheck

VARIABLE part

-----------------------------------------------------------------------------
(* The drift check over two namespaces, one of them with secrets: every    *)
(* combination of the export flags; a muted category, a single namespace,  *)
(* a display-only run, and the admin path with and without a bundle.       *)
Viewer == [export |-> TRUE, exitOnDrift |-> TRUE, read |-> FALSE, write |-> FALSE,
           force |-> FALSE, accept |-> FALSE, muted |-> {}, bundle |-> FALSE,
           scope |-> {"n1", "n2"}]
Flagged == {[Viewer EXCEPT !.read = re, !.write = wr, !.force = fo, !.accept = ac] :
                re \in BOOLEAN, wr \in BOOLEAN, fo \in BOOLEAN, ac \in BOOLEAN}
Muting == {[Viewer EXCEPT !.read = TRUE, !.write = wr, !.muted = Category] : wr \in BOOLEAN}
Narrow == {[Viewer EXCEPT !.read = TRUE, !.write = TRUE, !.scope = {n}] : n \in {"n1", "n2"}}
Display == {[Viewer EXCEPT !.exitOnDrift = FALSE, !.read = TRUE, !.write = wr] : wr \in BOOLEAN}
Admin == {[Viewer EXCEPT !.export = FALSE, !.bundle = b, !.accept = ac] :
            b \in BOOLEAN, ac \in BOOLEAN}
AllOptions == {o \in Flagged : o.force => o.write} \cup Muting \cup Narrow \cup Display \cup Admin
ASSUME MCDriftAssumption == DriftAssumption /\ OptionsAssumption /\ AbsenceAssumption

-----------------------------------------------------------------------------
(* The gates: every pair of facts, in either mode.                         *)
VARIABLES mode, facts, accepted, policyFile, pr, github, stage, planned, at, approved,
          touched, refusedBy, required, strict, shown, attempt, delivery, fallback,
          comments, ending
gateVars == <<mode, facts, accepted, policyFile, pr, github, stage, planned, at, approved,
              touched, refusedBy, required, strict, shown, attempt, delivery, fallback,
              comments, ending>>

Commands == INSTANCE Gates WITH MaxFacts <- 2, MaxCommentRetries <- 2, exit <- ending
ASSUME MCGatesAssumption == Commands!GatesAssumption

-----------------------------------------------------------------------------
GatesRest ==
    /\ mode = "api" /\ facts = {} /\ pr = "none" /\ policyFile = FALSE
    /\ Commands!Init

AllInit ==
    \/ part = "gates" /\ Commands!Init /\ Init
    \/ part = "drift" /\ GatesRest /\ Init
AllNext ==
    /\ UNCHANGED part
    /\ \/ part = "gates" /\ Commands!Next /\ UNCHANGED vars
       \/ part = "drift" /\ Next /\ UNCHANGED gateVars
AllSpec == AllInit /\ [][AllNext]_<<gateVars, vars, part>>

(* plan, review and apply decide alike; see Gates.                         *)
CommandsAgree == Commands!CommandsAgree
=============================================================================
