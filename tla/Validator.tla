----------------------------- MODULE Validator -----------------------------
(***************************************************************************)
(* Validation: one `ferrum-edge validate` child per namespace of the       *)
(* gateway document, then one for the mesh document, each supervised by a  *)
(* loop that polls the child, hears from two reader threads over a channel *)
(* and keeps a deadline.                                                   *)
(*                                                                         *)
(* The child is somebody else's program: it may write, fork, close its     *)
(* pipes, exit with any code or do nothing for ever.  When it does grade   *)
(* its document it grades the namespace its environment selects.           *)
(***************************************************************************)
EXTENDS Integers, Sequences, FiniteSets

CONSTANTS
    Repositories,   \* what a repository may declare: namespaces, and a mesh
    StreamCap,      \* VALIDATOR_STREAM_CAP
    Attempts,       \* ATTEMPTS of output_retrying_busy_executable
    NoNamespace, Default, Mesh

Documented == UNION {{r.namespaces[i] : i \in DOMAIN r.namespaces} : r \in Repositories}

ValidatorAssumption ==
    /\ StreamCap \in Nat \ {0} /\ Attempts \in Nat \ {0}
    /\ Default \notin {NoNamespace, Mesh} /\ NoNamespace # Mesh
    /\ {Mesh, NoNamespace} \cap Documented = {}
    /\ \A r \in Repositories : r.namespaces \in Seq(Documented) /\ r.mesh \in BOOLEAN

Stream == {"out", "err"}

VARIABLES
    (* the repository, and what the validator thinks of each part of it *)
    declared,   \* the namespaces of its gateway document, in lexical order,
                \* and whether it declares mesh resources
    good, bad,  \* what a validator that ran has graded so far
    (* the validation *)
    next,       \* the pass under way
    accepted, rejected, \* passes that ended with a verdict
    ended,      \* "no", "verdict" or "error"
    (* the supervisor of one pass *)
    pc,         \* "locate", "spawn", "poll", "check", "receive", "idle"
    attempt, status, got, spec, refused,
    starts,     \* how often this pass started a validator
    (* the child, a descendant and the pipes *)
    env,        \* FERRUM_NAMESPACE of the child
    child,      \* "none", "running", "exited", "reaped"
    code,       \* the child's exit code
    descendant, \* "none", "group", "escaped", "gone"
    writers,    \* who holds the write end of each stream
    bytes,      \* what was written to each stream
    reader,     \* "reading", "sent", "cut" (sent after a failed read),
                \* "lost" (without the end of the stream), "heard"
    expired     \* has the deadline passed?

repository == <<declared, good, bad>>
overall == <<next, accepted, rejected, ended>>
loop == <<pc, attempt, status, got, spec, refused, starts>>
world == <<env, child, code, descendant, writers, bytes, reader>>
vars == <<repository, overall, loop, world, expired>>

(* runner.rs: an empty document is graded once, in the default namespace.   *)
Gateway == IF declared.namespaces = <<>> THEN <<Default>> ELSE declared.namespaces
Passes == IF declared.mesh THEN Append(Gateway, Mesh) ELSE Gateway

Codes == {0, 1, 2}
TypeOK ==
    /\ declared \in Repositories
    /\ good \subseteq Documented \cup {Default, Mesh} /\ bad \subseteq Documented \cup {Default, Mesh}
    /\ next \in 1..(Len(Passes) + 1)
    /\ accepted \subseteq DOMAIN Passes /\ rejected \subseteq DOMAIN Passes
    /\ ended \in {"no", "verdict", "error"}
    /\ pc \in {"locate", "spawn", "poll", "check", "receive", "idle"}
    /\ attempt \in 0..(Attempts - 1) /\ status \in BOOLEAN
    /\ got \subseteq Stream /\ spec \in BOOLEAN
    /\ refused \in {"no", "timeout", "overflow"} /\ starts \in 0..1
    /\ env \in Documented \cup {Default, NoNamespace}
    /\ child \in {"none", "running", "exited", "reaped"} /\ code \in Codes
    /\ descendant \in {"none", "group", "escaped", "gone"}
    /\ writers \in [Stream -> SUBSET {"child", "descendant"}]
    /\ bytes \in [Stream -> 0..(StreamCap + 1)]
    /\ reader \in [Stream -> {"reading", "sent", "cut", "lost", "heard"}]
    /\ expired \in BOOLEAN

NoChild ==
    /\ env' = NoNamespace /\ child' = "none" /\ code' = 0 /\ descendant' = "none"
    /\ writers' = [s \in Stream |-> {}] /\ bytes' = [s \in Stream |-> 0]
    /\ reader' = [s \in Stream |-> "reading"] /\ expired' = FALSE

Init ==
    /\ declared \in Repositories /\ good = {} /\ bad = {}
    /\ next = 1 /\ accepted = {} /\ rejected = {} /\ ended = "no"
    /\ pc = "locate" /\ attempt = 0 /\ status = FALSE /\ got = {} /\ spec = FALSE
    /\ refused = "no" /\ starts = 0
    /\ env = NoNamespace /\ child = "none" /\ code = 0 /\ descendant = "none"
    /\ writers = [s \in Stream |-> {}] /\ bytes = [s \in Stream |-> 0]
    /\ reader = [s \in Stream |-> "reading"] /\ expired = FALSE
-----------------------------------------------------------------------------
(* The child and its descendant (external): what any program can do.        *)

(* What is written once the reader is gone is read by nobody.               *)
Write(p, s) ==
    /\ p \in writers[s] /\ bytes[s] <= StreamCap /\ reader[s] = "reading"
    /\ p = "child" => child = "running"
    /\ bytes' = [bytes EXCEPT ![s] = @ + 1]
    /\ UNCHANGED <<repository, overall, loop, env, child, code, descendant, writers, reader, expired>>

Close(p, s) ==
    /\ p \in writers[s]
    /\ p = "child" => child = "running"
    /\ writers' = [writers EXCEPT ![s] = @ \ {p}]
    /\ UNCHANGED <<repository, overall, loop, env, child, code, descendant, bytes, reader, expired>>

Fork ==
    /\ child = "running" /\ descendant = "none"
    /\ descendant' = "group"
    /\ writers' = [s \in Stream |->
        writers[s] \cup (IF "child" \in writers[s] THEN {"descendant"} ELSE {})]
    /\ UNCHANGED <<repository, overall, loop, env, child, code, bytes, reader, expired>>

(* A descendant may leave the process group, or end.                        *)
Escape ==
    /\ descendant = "group" /\ descendant' = "escaped"
    /\ UNCHANGED <<repository, overall, loop, env, child, code, writers, bytes, reader, expired>>

DescendantEnds ==
    /\ descendant \in {"group", "escaped"} /\ descendant' = "gone"
    /\ writers' = [s \in Stream |-> writers[s] \ {"descendant"}]
    /\ UNCHANGED <<repository, overall, loop, env, child, code, bytes, reader, expired>>

(* The part of the document the child grades; with no namespace set, the    *)
(* default one.  The same part always gets the same verdict.                *)
Graded ==
    IF Passes[next] = Mesh THEN Mesh
    ELSE IF env = NoNamespace THEN Default ELSE env

Exit ==
    /\ child = "running" /\ child' = "exited"
    /\ \/ code' = 0 /\ Graded \notin bad /\ good' = good \cup {Graded} /\ UNCHANGED bad
       \/ code' = 1 /\ Graded \notin good /\ bad' = bad \cup {Graded} /\ UNCHANGED good
       \/ code' = 2 /\ UNCHANGED <<good, bad>>
    /\ writers' = [s \in Stream |-> writers[s] \ {"child"}]
    /\ UNCHANGED <<declared, overall, loop, env, descendant, bytes, reader, expired>>

Expire ==
    /\ child # "none" /\ ~expired /\ expired' = TRUE
    /\ UNCHANGED <<repository, overall, loop, world>>
-----------------------------------------------------------------------------
(* The reader threads: read to the end of the stream, or one byte past the  *)
(* cap, then report once.  A failed read is ignored: what was read so far   *)
(* is reported, within the cap.                                             *)
Report(s) ==
    /\ reader[s] = "reading" /\ child # "none"
    /\ writers[s] = {} \/ bytes[s] > StreamCap
    /\ reader' = [reader EXCEPT ![s] = "sent"]
    /\ UNCHANGED <<repository, overall, loop, env, child, code, descendant, writers, bytes, expired>>

Cut(s) ==
    /\ reader[s] = "reading" /\ child # "none"
    /\ reader' = [reader EXCEPT ![s] = "cut"]
    /\ UNCHANGED <<repository, overall, loop, env, child, code, descendant, writers, bytes, expired>>

Panic(s) ==
    /\ reader[s] = "reading" /\ child # "none"
    /\ reader' = [reader EXCEPT ![s] = "lost"]
    /\ UNCHANGED <<repository, overall, loop, env, child, code, descendant, writers, bytes, expired>>
-----------------------------------------------------------------------------
(* run_validate_command and output_bounded_with.                            *)

Fail ==
    /\ ended' = "error" /\ pc' = "idle" /\ spec' = FALSE
    /\ UNCHANGED <<repository, next, accepted, rejected, attempt, status, got, starts>>

(* `which`, else the binary itself, else an executable file of that name.   *)
Locate ==
    /\ pc = "locate" /\ pc' = "spawn" /\ spec' = TRUE
    /\ UNCHANGED <<repository, overall, attempt, status, got, refused, starts, world, expired>>

BinaryNotFound ==
    /\ pc = "locate" /\ Fail /\ UNCHANGED <<refused, world, expired>>

(* The child's environment: the parent's FERRUM_ variables removed, then    *)
(* the namespace of this pass.                                              *)

ChildNamespace == IF Passes[next] = Mesh THEN NoNamespace ELSE Passes[next]

Spawn ==
    /\ pc = "spawn" /\ pc' = "poll" /\ starts' = starts + 1
    /\ env' = ChildNamespace /\ attempt' = 0
    /\ child' = "running"
    /\ writers' = [s \in Stream |-> {"child"}]
    /\ UNCHANGED <<repository, overall, status, got, spec, refused, code, descendant,
                   bytes, reader, expired>>

(* ETXTBSY: another process still holds the binary open for writing.        *)

SpawnBusy ==
    /\ pc = "spawn" /\ attempt + 1 < Attempts
    /\ attempt' = attempt + 1
    /\ UNCHANGED <<repository, overall, pc, status, got, spec, refused, starts, world, expired>>

SpawnFails ==
    /\ pc = "spawn" /\ Fail /\ UNCHANGED <<refused, world, expired>>

Poll ==
    /\ pc = "poll" /\ pc' = "check"
    /\ IF ~status /\ child = "exited" THEN status' = TRUE /\ child' = "reaped"
                                      ELSE UNCHANGED <<status, child>>
    /\ UNCHANGED <<repository, overall, attempt, got, spec, refused, starts, env, code, descendant,
                   writers, bytes, reader, expired>>

(* try_wait fails: the child runs on, and nobody waits for it.              *)
PollFails ==
    /\ pc = "poll" /\ ~status /\ Fail /\ UNCHANGED <<refused, world, expired>>

\* mutant: the child's exit is enough, as Command::output would have it
Complete_Status == status

Complete == status /\ got = Stream

(* The next pass, or the verdict once every pass had one.                   *)
Verdict ==
    /\ accepted' = IF code = 0 THEN accepted \cup {next} ELSE accepted
    /\ rejected' = IF code = 1 THEN rejected \cup {next} ELSE rejected
    /\ next' = next + 1
    /\ attempt' = 0 /\ status' = FALSE /\ got' = {} /\ spec' = FALSE
    /\ refused' = "no" /\ starts' = 0 /\ UNCHANGED repository
    /\ IF next = Len(Passes) THEN ended' = "verdict" /\ pc' = "idle"
                             ELSE pc' = "locate" /\ UNCHANGED ended

(* Any other code is a failure of the validator, not a rejection.           *)

Finish ==
    /\ pc = "check" /\ Complete
    /\ IF code \in {0, 1}
       THEN Verdict /\ NoChild
       ELSE Fail /\ UNCHANGED <<refused, world, expired>>

(* Kill the whole group and reap the child.                                 *)

KillTree ==
    /\ child' = "reaped"
    /\ descendant' = IF descendant = "group" THEN "gone" ELSE descendant
    /\ writers' = [s \in Stream |->
        writers[s] \ ({"child"} \cup (IF descendant = "group" THEN {"descendant"} ELSE {}))]
    /\ UNCHANGED <<env, code, bytes, reader, expired>>

\* mutant: the deadline is kept until the child has exited, not until it is drained
DeadlineMet_ExitOnly == expired /\ ~status

DeadlineMet == expired

TimeOut ==
    /\ pc = "check" /\ ~Complete /\ DeadlineMet
    /\ KillTree /\ Fail /\ refused' = "timeout"

Wait ==
    /\ pc = "check" /\ ~Complete /\ ~DeadlineMet /\ pc' = "receive"
    /\ UNCHANGED <<repository, overall, attempt, status, got, spec, refused, starts, world, expired>>

Overflows(s) == reader[s] = "sent" /\ bytes[s] > StreamCap

Receive(s) ==
    /\ pc = "receive" /\ reader[s] \in {"sent", "cut"}
    /\ IF Overflows(s)
       THEN KillTree /\ Fail /\ refused' = "overflow"
       ELSE /\ got' = got \cup {s} /\ pc' = "poll"
            /\ reader' = [reader EXCEPT ![s] = IF @ = "sent" THEN "heard" ELSE "lost"]
            /\ UNCHANGED <<repository, overall, attempt, status, spec, refused, starts, env, child,
                           code, descendant, writers, bytes, expired>>

(* Ten milliseconds pass without a report, or both readers are gone.        *)
ReceiveNothing ==
    /\ pc = "receive" /\ {reader[s] : s \in Stream} \cap {"sent", "cut"} = {}
    /\ pc' = "poll"
    /\ got' = IF \A s \in Stream : reader[s] \in {"heard", "lost"} THEN Stream ELSE got
    /\ UNCHANGED <<repository, overall, attempt, status, spec, refused, starts, world, expired>>

Done == ended # "no" /\ pc = "idle" /\ UNCHANGED vars

Next ==
    \/ \E p \in {"child", "descendant"}, s \in Stream : ended = "no" /\ Write(p, s)
    \/ \E p \in {"child", "descendant"}, s \in Stream : ended = "no" /\ Close(p, s)
    \/ ended = "no" /\ Fork
    \/ ended = "no" /\ Escape
    \/ ended = "no" /\ DescendantEnds
    \/ ended = "no" /\ Exit
    \/ ended = "no" /\ Expire
    \/ \E s \in Stream : ended = "no" /\ Report(s)
    \/ \E s \in Stream : ended = "no" /\ (Cut(s) \/ Panic(s))
    \/ Locate \/ BinaryNotFound \/ Spawn \/ SpawnBusy \/ SpawnFails
    \/ Poll \/ PollFails \/ Finish \/ TimeOut \/ Wait
    \/ \E s \in Stream : Receive(s)
    \/ ReceiveNothing \/ Done

Supervise ==
    \/ Locate \/ BinaryNotFound \/ Spawn \/ SpawnFails \/ Poll \/ PollFails \/ Finish \/ TimeOut
    \/ Wait \/ (\E s \in Stream : Receive(s)) \/ ReceiveNothing

(* The loop and the clock go on; nothing is assumed of the child, of its    *)
(* descendants or of the readers.                                           *)
Spec == Init /\ [][Next]_vars /\ WF_vars(Supervise) /\ WF_vars(Expire)
-----------------------------------------------------------------------------
(* Properties.                                                              *)

(* A validation accepts the repository only when every namespace of its     *)
(* document, and its mesh document, was graded and deserved it: whatever    *)
(* the parent's own FERRUM_NAMESPACE selects, and whatever the child's      *)
(* pipes and descendants did.                                               *)
AcceptedIsGood ==
    (ended = "verdict" /\ rejected = {}) =>
        {declared.namespaces[i] : i \in DOMAIN declared.namespaces} \cup (IF declared.mesh THEN {Mesh} ELSE {}) \subseteq good

(* A verdict of one pass is not drawn from part of the child's output: both *)
(* streams are at their end within the cap, unless a reader died or its     *)
(* read failed: the code draws the verdict all the same.                    *)
VerdictIsWhole ==
    (pc = "check" /\ Complete) =>
        /\ child = "reaped"
        /\ \A s \in Stream :
            \/ writers[s] = {} /\ bytes[s] <= StreamCap
            \/ \E t \in Stream : reader[t] = "lost"

(* A rejection is the validator's verdict on the document, never a failure  *)
(* of the validator or of its supervisor, nor a refusal.                    *)
RejectedIsBad == \A i \in rejected : Passes[i] \in bad

(* After a refusal nothing of the validator's process group runs on (after  *)
(* a failed poll it may).                                                   *)
RefusalLeavesNothing ==
    refused # "no" => child = "reaped" /\ descendant # "group"

(* The spec file, which may hold live credentials, is there only while a    *)
(* validator may read it.                                                   *)
NoSpecIsLeft == (ended # "no" \/ pc = "locate") => ~spec

(* Each document is judged as a whole, by a verdict on it, and neither its *)
(* spec file nor a validator that was refused stays behind.                *)
DocumentsAreWhole ==
    /\ TypeOK /\ AcceptedIsGood /\ VerdictIsWhole /\ RejectedIsBad
    /\ RefusalLeavesNothing /\ NoSpecIsLeft

=============================================================================
