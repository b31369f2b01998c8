--------------------------- MODULE DeploymentProofs ---------------------------
(***************************************************************************)
(* Proofs about Deployment: what a job works from is current, what a       *)
(* promoted environment is given was verified, nothing on the branch or on *)
(* a gateway is undone, and no change is forgotten                         *)
(* (apply-on-merge.yml, rotate.yml, promotion_record.py).                  *)
(***************************************************************************)
EXTENDS Deployment, TLAPS

-----------------------------------------------------------------------------
(* The invariant.                                                          *)

RunType == [kind : {"apply", "rotate"}, trigger : Nat]
RecordType == [rev : Nat, apply : {"success", "failure"},
               verify : {"success", "failure", "skipped"}]
Served == [inputs : Inputs \cup {Mixed}, effects : Nat, pos : Nat]

DeployType ==
    /\ main \in Seq(Commit) /\ Len(main) >= 1
    /\ runs \in Seq(RunType) /\ Len(runs) <= MaxRuns
    /\ job \in [Run -> [Env -> Job]]
    /\ records \in [Run -> [Env -> RecordType]]
    /\ gateway \in [Env -> Served]
    /\ lost \in SUBSET Env

(* What a merge changes, and the run it triggers.                          *)
Changes(n) == n \in 2..Len(main) /\ main[n].inputs # main[n - 1].inputs
RunsInv ==
    /\ \A r \in 1..Len(runs) :
         /\ runs[r].trigger \in 1..Len(main)
         /\ IsApply(r) => Changes(runs[r].trigger)
    /\ \A n \in 1..Len(main) : Changes(n) =>
         \E r \in 1..Len(runs) : IsApply(r) /\ runs[r].trigger = n
    /\ \E n \in 1..Len(main) :
         /\ \A m \in n..Len(main) : main[m].inputs = Tip.inputs
         /\ n = 1 \/ main[n - 1].inputs # Tip.inputs

(* A group has one holder.                                                 *)
Mutex == \A e \in Env : \A q, r \in Run :
    job[q][e].at \in Held /\ job[r][e].at \in Held => q = r

(* A job that has not reached its apply, or is over, carries nothing.      *)
Fresh(j) == j.mine = 0 /\ ~j.landed /\ j.apply = "failure" /\ j.verify = "skipped"
Unpushed(j) == j.at \in Held /\ j.mine # 0 /\ ~j.landed

(* A job is of a run, is not an apply's by accident, and was refused for   *)
(* being old only when something newer was there.                          *)
JobIsOfRun(r, e, j) ==
    /\ r \in 1..Len(runs) \/ j = NewJob("absent")
    /\ r \in 1..Len(runs) /\ IsApply(r) => j.at # "absent"
    /\ j.at \in {"gate", "verify", "record"} => IsApply(r)
    /\ j.verdict = "superseded" /\ r \in 1..Len(runs) =>
          \E m \in runs[r].trigger..Len(main) :
              main[m].inputs # main[runs[r].trigger].inputs
JobIsStaged(j) ==
    /\ j.at \notin {"verify", "record", "push"} => Fresh(j)
    /\ j.at \notin {"verify", "record", "push", "ended"} => j.verdict = "success"
    /\ j.rev \in 0..Len(main) /\ j.base \in 0..Len(main)
    /\ j.at \in {"gate", "apply"} \/ j.mine # 0 => j.rev # 0
    /\ j.at = "push" => j.mine # 0 /\ j.base # 0
    /\ j.apply = "success" => j.mine # 0
    /\ j.at = "verify" => j.verify = "skipped"
    /\ j.at # "push" => ~j.landed
    /\ j.at \in {"verify", "record"} /\ j.mine = 0 => j.verdict # "success"

(* What the job that holds a group knows of its environment.               *)
JobKnows(e, j) ==
    /\ j.at \in {"gate", "apply"} =>
          main[j.rev].ledger[e] = Tip.ledger[e] /\ gateway[e].pos <= j.rev
    /\ j.mine # 0 => j.mine = gateway[e].effects
    /\ j.landed => e \notin lost /\ Tip.ledger[e] = gateway[e].effects
    /\ j.at = "verify" /\ j.apply = "success" => gateway[e].inputs = main[j.rev].inputs

(* What was seen to be served, and what that opened.                       *)
JobIsProved(r, e, j) ==
    /\ j.at \in {"record", "push"} /\ j.apply = "success" /\ j.verify = "success" =>
          <<r, e, main[j.rev].inputs>> \in proved
    /\ (j.at = "apply" \/ j.mine # 0) /\ IsApply(r) /\ Requires[e] # NoEnv =>
          <<r, Requires[e], main[j.rev].inputs>> \in proved
JobInv(r, e) ==
    LET j == job[r][e] IN
    JobIsOfRun(r, e, j) /\ JobIsStaged(j) /\ JobKnows(e, j) /\ JobIsProved(r, e, j)

RecordInv(r, e) ==
    LET d == records[r][e] IN
    /\ d.rev \in 0..Len(main)
    /\ d.rev # 0 /\ d.apply = "success" /\ d.verify = "success" =>
          <<r, e, main[d.rev].inputs>> \in proved

(* The ledger of the branch never runs ahead of the effects, and is behind *)
(* only for a job that holds the group and has not pushed, or was lost.    *)
EnvInv(e) ==
    /\ gateway[e].pos \in 1..Len(main) /\ Tip.ledger[e] <= gateway[e].effects
    /\ \/ e \in lost
       \/ Tip.ledger[e] = gateway[e].effects
       \/ \E r \in Run : Unpushed(job[r][e])
    /\ gateway[e].inputs = main[1].inputs \/ \E r \in 1..Len(runs) : IsApply(r)

DeployInv ==
    /\ DeployType /\ RunsInv /\ Mutex
    /\ \A r \in Run, e \in Env : JobInv(r, e) /\ RecordInv(r, e)
    /\ \A e \in Env : EnvInv(e)

-----------------------------------------------------------------------------
(* How the variables change.                                               *)

Grows == Len(main') >= Len(main) /\ \A n \in 1..Len(main) : main'[n] = main[n]
Same(e) ==
    /\ Tip'.ledger[e] = Tip.ledger[e] /\ gateway'[e] = gateway[e]
    /\ e \in lost' <=> e \in lost

LEMMA TipType ==
    ASSUME DeployType
    PROVE  /\ Tip \in Commit /\ Tip.inputs \in Inputs /\ Tip.ledger \in [Env -> Nat]
           /\ Tip.edits \in [Env -> Nat] /\ Len(main) \in Nat
           /\ Tip = [inputs |-> Tip.inputs, ledger |-> Tip.ledger, edits |-> Tip.edits]
           /\ \A n \in 1..Len(main) : main[n] \in Commit
<1>1. main \in Seq(Commit) /\ Len(main) >= 1
  BY DEF DeployType
<1>2. Len(main) \in Nat /\ \A n \in 1..Len(main) : main[n] \in Commit
  BY <1>1
<1>3. Tip \in Commit
  BY <1>1, <1>2 DEF Tip
<1> QED
  BY <1>2, <1>3 DEF Commit

(* A commit put on the branch becomes its tip and moves nothing below.     *)
LEMMA Appending ==
    ASSUME DeployType, NEW c \in Commit, main' = Append(main, c)
    PROVE  /\ main' \in Seq(Commit) /\ Len(main') = Len(main) + 1
           /\ Grows /\ Tip' = c /\ main'[Len(main) + 1] = c
BY DEF DeployType, Grows, Tip

LEMMA Standing ==
    ASSUME DeployType, main' = main
    PROVE  main' \in Seq(Commit) /\ Len(main') = Len(main) /\ Grows /\ Tip' = Tip
BY DEF DeployType, Grows, Tip

(* One job changes, and no other.                                          *)
LEMMA Becoming ==
    ASSUME DeployType, NEW r \in Run, NEW e \in Env, NEW j \in Job, Becomes(r, e, j)
    PROVE  /\ job' \in [Run -> [Env -> Job]] /\ job'[r][e] = j
           /\ \A q \in Run, d \in Env : q # r \/ d # e => job'[q][d] = job[q][d]
<1>1. job \in [Run -> [Env -> Job]]
  BY DEF DeployType
<1>2. job' = [job EXCEPT ![r] = [job[r] EXCEPT ![e] = j]]
  BY DEF Becomes
<1>3. [job[r] EXCEPT ![e] = j] \in [Env -> Job]
  BY <1>1
<1>4. job' \in [Run -> [Env -> Job]]
  BY <1>1, <1>2, <1>3
<1>5. job'[r][e] = j
  BY <1>1, <1>2
<1>6. ASSUME NEW q \in Run, NEW d \in Env, q # r \/ d # e
      PROVE  job'[q][d] = job[q][d]
  BY <1>1, <1>2, <1>6
<1> QED
  BY <1>4, <1>5, <1>6

LEMMA RunsAreRuns ==
    ASSUME DeployType
    PROVE  /\ Len(runs) \in Nat /\ 1..Len(runs) \subseteq Run
           /\ \A r \in 1..Len(runs) : runs[r] \in RunType /\ runs[r].trigger \in Nat
<1>1. runs \in Seq(RunType) /\ Len(runs) <= MaxRuns /\ MaxRuns \in Nat
  BY DeploymentAssumption DEF DeployType
<1>2. Len(runs) \in Nat /\ \A r \in 1..Len(runs) : runs[r] \in RunType
  BY <1>1
<1> QED
  BY <1>1, <1>2 DEF Run, RunType

(* A job nobody touches keeps what it knows, while the branch grows, when  *)
(* it holds no group or its environment stays as it is.                    *)
LEMMA JobKept ==
    ASSUME DeployType, NEW q \in Run, NEW d \in Env, JobInv(q, d),
           job'[q][d] = job[q][d], Grows, proved \subseteq proved',
           q \in 1..Len(runs) <=> q \in 1..Len(runs'),
           q \in 1..Len(runs) => runs'[q] = runs[q] /\ runs[q].trigger \in 1..Len(main),
           job[q][d].at \notin Held \/ Same(d)
    PROVE  JobInv(q, d)'
<1> DEFINE j == job[q][d]
<1>t. /\ j \in Job /\ j.mine \in Nat /\ j.landed \in BOOLEAN /\ j.at \in Step
      /\ Len(main) \in Nat /\ Len(main') \in Nat
  BY DEF DeployType, Job, Grows
<1>1. JobIsOfRun(q, d, j) /\ JobIsStaged(j) /\ JobKnows(d, j) /\ JobIsProved(q, d, j)
  BY DEF JobInv
<1>2. JobIsOfRun(q, d, j)'
  <2>1. q \in 1..Len(runs) => (IsApply(q))' = IsApply(q)
    BY DEF IsApply
  <2>2. ASSUME j.verdict = "superseded", q \in 1..Len(runs)
        PROVE  \E m \in runs'[q].trigger..Len(main') :
                   main'[m].inputs # main'[runs'[q].trigger].inputs
    <3>1. PICK m \in runs[q].trigger..Len(main) :
             main[m].inputs # main[runs[q].trigger].inputs
      BY <1>1, <2>2 DEF JobIsOfRun
    <3>2. main'[m] = main[m] /\ main'[runs[q].trigger] = main[runs[q].trigger]
          /\ m \in runs[q].trigger..Len(main')
      BY <1>t, <2>2 DEF Grows
    <3> QED
      BY <2>2, <3>1, <3>2
  <2>3. j.at \in {"gate", "verify", "record"} => q \in 1..Len(runs)
    BY <1>1 DEF JobIsOfRun, NewJob
  <2> QED
    BY <1>1, <2>1, <2>2, <2>3 DEF JobIsOfRun, NewJob
<1>3. JobIsStaged(j)'
  BY <1>t, <1>1 DEF JobIsStaged, Grows, Fresh
<1>4. JobKnows(d, j)'
  <2>1. CASE j.at \notin Held
    <3>1. Fresh(j) /\ j.at \notin {"gate", "apply", "verify"}
      BY <1>1, <2>1 DEF JobIsStaged, Held
    <3> QED
      BY <3>1 DEF JobKnows, Fresh
  <2>2. CASE Same(d)
    <3>1. j.rev \in 0..Len(main) /\ (j.at \in {"gate", "apply"} \/ j.mine # 0 => j.rev # 0)
          /\ (j.apply = "success" => j.mine # 0)
      BY <1>1 DEF JobIsStaged
    <3>2. j.rev # 0 => main'[j.rev] = main[j.rev]
      BY <1>t, <3>1 DEF Grows
    <3> QED
      BY <1>1, <2>2, <3>1, <3>2 DEF JobKnows, Same
  <2> QED
    BY <2>1, <2>2
<1>5. JobIsProved(q, d, j)'
  <2>1. j.apply = "success" \/ j.at = "apply" \/ j.mine # 0 =>
           q \in 1..Len(runs) /\ j.rev \in 1..Len(main)
    BY <1>t, <1>1 DEF JobIsStaged, JobIsOfRun, NewJob
  <2>2. q \in 1..Len(runs) => (IsApply(q))' = IsApply(q)
    BY DEF IsApply
  <2>3. j.rev \in 1..Len(main) => main'[j.rev] = main[j.rev]
    BY DEF Grows
  <2> QED
    BY <1>1, <2>1, <2>2, <2>3 DEF JobIsProved
<1> QED
  BY <1>2, <1>3, <1>4, <1>5 DEF JobInv

LEMMA RecordKept ==
    ASSUME DeployType, NEW q \in Run, NEW d \in Env, RecordInv(q, d),
           records'[q][d] = records[q][d], Grows, proved \subseteq proved'
    PROVE  RecordInv(q, d)'
<1>1. Len(main) \in Nat /\ Len(main') \in Nat
  BY DEF DeployType, Grows
<1> QED
  BY <1>1 DEF RecordInv, Grows

LEMMA EnvKept ==
    ASSUME DeployType, NEW d \in Env, EnvInv(d), Same(d), Grows,
           \A r \in 1..Len(runs) : r \in 1..Len(runs') /\ runs'[r] = runs[r],
           \A q \in Run : Unpushed(job[q][d]) => job'[q][d] = job[q][d]
    PROVE  EnvInv(d)'
<1>1. Len(main) \in Nat /\ Len(main) >= 1 /\ Len(main') \in Nat
  BY DEF DeployType, Grows
<1>2. (gateway[d].pos \in 1..Len(main) /\ Tip.ledger[d] <= gateway[d].effects)'
  BY <1>1 DEF EnvInv, Same, Grows
<1>3. (\/ d \in lost
       \/ Tip.ledger[d] = gateway[d].effects
       \/ \E q \in Run : Unpushed(job[q][d]))'
  <2>1. ASSUME NEW q \in Run, Unpushed(job[q][d])
        PROVE  Unpushed(job[q][d])'
    BY <2>1 DEF Unpushed
  <2> QED
    BY <2>1 DEF EnvInv, Same
<1>4. (gateway[d].inputs = main[1].inputs \/ \E r \in 1..Len(runs) : IsApply(r))'
  <2>1. main'[1] = main[1]
    BY <1>1 DEF Grows
  <2>2. \A r \in 1..Len(runs) : IsApply(r) => r \in 1..Len(runs') /\ IsApply(r)'
    BY DEF IsApply
  <2> QED
    BY <2>1, <2>2 DEF EnvInv, Same
<1> QED
  BY <1>2, <1>3, <1>4 DEF EnvInv

(* A commit with the inputs of the tip brings no change.                   *)
LEMMA RunsKept ==
    ASSUME DeployType, RunsInv, runs' = runs,
           main' = main \/ \E c \in Commit : main' = Append(main, c) /\ c.inputs = Tip.inputs
    PROVE  RunsInv'
<1>0. Len(main) \in Nat /\ Len(main) >= 1
  BY DEF DeployType
<1>1. CASE main' = main
  BY <1>1 DEF RunsInv, Changes, IsApply, Tip
<1>2. ASSUME NEW c \in Commit, main' = Append(main, c), c.inputs = Tip.inputs
      PROVE  RunsInv'
  <2>1. /\ Len(main') = Len(main) + 1 /\ Grows /\ Tip' = c
        /\ main'[Len(main) + 1] = c
    BY <1>2, Appending
  <2>2. main'[Len(main)].inputs = Tip.inputs
    BY <1>0, <2>1 DEF Grows, Tip
  <2>3. \A n : Changes(n)' <=> Changes(n)
    <3>1. ASSUME NEW n \in 2..Len(main)
          PROVE  main'[n] = main[n] /\ main'[n - 1] = main[n - 1]
      BY <1>0, <2>1 DEF Grows
    <3>2. ASSUME NEW n, n = Len(main) + 1
          PROVE  ~Changes(n)'
      <4>1. main'[n].inputs = main'[n - 1].inputs
        BY <1>0, <1>2, <2>1, <2>2, <3>2
      <4> QED
        BY <4>1 DEF Changes
    <3>3. ASSUME NEW n PROVE Changes(n)' <=> Changes(n)
      <4>1. CASE n \in 2..Len(main)
        BY <1>0, <2>1, <3>1, <4>1 DEF Changes
      <4>2. CASE n \notin 2..Len(main)
        <5>1. n \in 2..Len(main') => n = Len(main) + 1
          BY <1>0, <2>1, <4>2
        <5>2. n = Len(main) + 1 => ~Changes(n)'
          BY <3>2
        <5>3. ~Changes(n) /\ (Changes(n)' => n \in 2..Len(main'))
          BY <4>2 DEF Changes
        <5> QED
          BY <5>1, <5>2, <5>3
      <4> QED
        BY <4>1, <4>2
    <3> QED
      BY <3>3
  <2>4. \A r \in 1..Len(runs) : IsApply(r)' <=> IsApply(r)
    BY DEF IsApply
  <2>5. (\A r \in 1..Len(runs) :
           /\ runs[r].trigger \in 1..Len(main)
           /\ IsApply(r) => Changes(runs[r].trigger))'
    BY <1>0, <2>1, <2>3, <2>4 DEF RunsInv
  <2>6. (\A n \in 1..Len(main) : Changes(n) =>
           \E r \in 1..Len(runs) : IsApply(r) /\ runs[r].trigger = n)'
    <3>1. SUFFICES ASSUME NEW n \in 1..Len(main'), Changes(n)'
                   PROVE  \E r \in 1..Len(runs) : IsApply(r)' /\ runs[r].trigger = n
      OBVIOUS
    <3>2. Changes(n) /\ n \in 1..Len(main)
      BY <1>0, <2>3, <3>1 DEF Changes
    <3> QED
      BY <2>4, <3>2 DEF RunsInv
  <2>7. (\E n \in 1..Len(main) :
           /\ \A m \in n..Len(main) : main[m].inputs = Tip.inputs
           /\ n = 1 \/ main[n - 1].inputs # Tip.inputs)'
    <3>1. PICK n \in 1..Len(main) :
             /\ \A m \in n..Len(main) : main[m].inputs = Tip.inputs
             /\ n = 1 \/ main[n - 1].inputs # Tip.inputs
      BY DEF RunsInv
    <3>2. n \in 1..Len(main')
      BY <1>0, <2>1
    <3>3. ASSUME NEW m \in n..Len(main') PROVE main'[m].inputs = Tip'.inputs
      <4>1. CASE m \in n..Len(main)
        BY <1>0, <1>2, <2>1, <3>1, <4>1 DEF Grows
      <4>2. CASE m = Len(main) + 1
        BY <2>1, <4>2
      <4> QED
        BY <1>0, <2>1, <4>1, <4>2
    <3>4. n = 1 \/ main'[n - 1].inputs # Tip'.inputs
      <4>1. n # 1 => n - 1 \in 1..Len(main)
        BY <1>0
      <4> QED
        BY <1>2, <2>1, <3>1, <4>1 DEF Grows
    <3> QED
      BY <3>2, <3>3, <3>4
  <2> QED
    BY <2>5, <2>6, <2>7 DEF RunsInv
<1> QED
  BY <1>1, <1>2

(* A step of a job that holds its group, takes it, or leaves everything as *)
(* it is, disturbs no other job and no other environment.                  *)
LEMMA OthersKept ==
    ASSUME DeployInv, NEW r \in 1..Len(runs), NEW e \in Env, NEW j \in Job,
           Becomes(r, e, j), runs' = runs, Grows, proved \subseteq proved',
           \A d \in Env : d # e => Same(d),
           \/ job[r][e].at \in Held
           \/ Free(e)
           \/ Same(e) /\ j.at \notin Held
    PROVE  /\ Mutex'
           /\ \A q \in Run, d \in Env : q # r \/ d # e => JobInv(q, d)'
           /\ \A d \in Env : d # e => EnvInv(d)'
<1>r. r \in Run /\ DeployType
  BY RunsAreRuns DEF DeployInv
<1>1. /\ job' \in [Run -> [Env -> Job]] /\ job'[r][e] = j
      /\ \A q \in Run, d \in Env : q # r \/ d # e => job'[q][d] = job[q][d]
  BY <1>r, Becoming
<1>2. \A q \in Run : q # r /\ job[q][e].at \in Held =>
         Same(e) /\ j.at \notin Held /\ job[r][e].at \notin Held
  BY <1>r DEF DeployInv, Mutex, Free
<1>3. Mutex'
  <2>1. SUFFICES ASSUME NEW d \in Env, NEW q \in Run, NEW s \in Run,
                        job'[q][d].at \in Held, job'[s][d].at \in Held, q # s
                 PROVE  FALSE
    BY DEF Mutex
  <2>2. CASE d # e \/ (q # r /\ s # r)
    <3>1. job[q][d].at \in Held /\ job[s][d].at \in Held
      BY <1>1, <2>1, <2>2
    <3> QED
      BY <2>1, <3>1 DEF DeployInv, Mutex
  <2>3. CASE d = e /\ (q = r \/ s = r)
    BY <1>1, <1>2, <2>1, <2>3
  <2> QED
    BY <2>2, <2>3
<1>4. ASSUME NEW q \in Run, NEW d \in Env, q # r \/ d # e
      PROVE  JobInv(q, d)'
  <2>1. job'[q][d] = job[q][d] /\ JobInv(q, d)
    BY <1>1, <1>4 DEF DeployInv
  <2>2. job[q][d].at \notin Held \/ Same(d)
    BY <1>2, <1>4
  <2>3. q \in 1..Len(runs) => runs[q].trigger \in 1..Len(main)
    BY DEF DeployInv, RunsInv
  <2> QED
    BY <1>r, <2>1, <2>2, <2>3, JobKept
<1>5. ASSUME NEW d \in Env, d # e
      PROVE  EnvInv(d)'
  <2>1. EnvInv(d) /\ Same(d) /\ \A q \in Run : job'[q][d] = job[q][d]
    BY <1>1, <1>5 DEF DeployInv
  <2> QED
    BY <1>r, <2>1, EnvKept
<1> QED
  BY <1>3, <1>4, <1>5

(* A step of one job preserves the invariant if it does at its own place.  *)
LEMMA JobStep ==
    ASSUME DeployInv, NEW r \in 1..Len(runs), NEW e \in Env, NEW j \in Job,
           Becomes(r, e, j), runs' = runs, proved \subseteq proved',
           \/ main' = main
           \/ \E c \in Commit : main' = Append(main, c) /\ c.inputs = Tip.inputs,
           gateway' \in [Env -> Served], lost' \in SUBSET Env,
           \A d \in Env : d # e => Same(d),
           \/ job[r][e].at \in Held
           \/ Free(e)
           \/ Same(e) /\ j.at \notin Held,
           \/ records' = records
           \/ /\ records' \in [Run -> [Env -> RecordType]]
              /\ \A q \in Run, d \in Env : RecordInv(q, d)',
           JobInv(r, e)', EnvInv(e)'
    PROVE  DeployInv'
<1>1. DeployType /\ RunsInv
  BY DEF DeployInv
<1>2. Grows /\ main' \in Seq(Commit) /\ Len(main') >= 1
  BY <1>1, Appending, Standing DEF DeployType
<1>3. r \in Run
  BY <1>1, RunsAreRuns
<1>4. DeployType'
  <2>1. job' \in [Run -> [Env -> Job]]
    BY <1>1, <1>3, Becoming
  <2> QED
    BY <1>1, <1>2, <2>1 DEF DeployType
<1>5. RunsInv'
  BY <1>1, RunsKept
<1>6. /\ Mutex'
      /\ \A q \in Run, d \in Env : q # r \/ d # e => JobInv(q, d)'
      /\ \A d \in Env : d # e => EnvInv(d)'
  BY <1>2, OthersKept
<1>7. \A q \in Run, d \in Env : RecordInv(q, d)'
  <2>1. CASE records' = records
    <3>1. ASSUME NEW q \in Run, NEW d \in Env PROVE RecordInv(q, d)'
      BY <1>1, <1>2, <2>1, RecordKept DEF DeployInv
    <3> QED
      BY <3>1
  <2> QED
    BY <2>1
<1> QED
  BY <1>4, <1>5, <1>6, <1>7 DEF DeployInv

(* So does a step of jobs that hold no group, and of the repository.       *)
LEMMA RepositoryStep ==
    ASSUME DeployInv, DeployType', RunsInv', Grows,
           UNCHANGED <<records, gateway, lost, proved>>,
           Tip'.ledger = Tip.ledger,
           \A q \in 1..Len(runs) : q \in 1..Len(runs') /\ runs'[q] = runs[q],
           \A q \in Run, d \in Env :
              \/ job'[q][d] = job[q][d] /\ (q \in 1..Len(runs) <=> q \in 1..Len(runs'))
              \/ job[q][d].at \notin Held /\ job'[q][d].at \notin Held /\ JobInv(q, d)'
    PROVE  DeployInv'
<1>1. DeployType /\ RunsInv
  BY DEF DeployInv
<1>2. \A d \in Env : Same(d)
  BY DEF Same
<1>3. Mutex'
  BY DEF DeployInv, Mutex
<1>4. ASSUME NEW q \in Run, NEW d \in Env PROVE JobInv(q, d)' /\ RecordInv(q, d)'
  <2>1. RecordInv(q, d)'
    BY <1>1, RecordKept DEF DeployInv
  <2>2. JobInv(q, d)'
    BY <1>1, <1>2, JobKept DEF DeployInv, RunsInv
  <2> QED
    BY <2>1, <2>2
<1>5. ASSUME NEW d \in Env PROVE EnvInv(d)'
  <2>1. \A q \in Run : Unpushed(job[q][d]) => job'[q][d] = job[q][d]
    BY DEF Unpushed
  <2> QED
    BY <1>1, <1>2, <2>1, EnvKept DEF DeployInv
<1> QED
  BY <1>3, <1>4, <1>5 DEF DeployInv

LEMMA InitDeploy == Init => DeployInv
<1> SUFFICES ASSUME Init PROVE DeployInv
  OBVIOUS
<1> DEFINE i == CHOOSE i \in Inputs : TRUE
<1>1. i \in Inputs
  BY DeploymentAssumption
<1>2. /\ main = <<[inputs |-> i, ledger |-> [e \in Env |-> 0], edits |-> [e \in Env |-> 0]]>>
      /\ gateway = [e \in Env |-> [inputs |-> i, effects |-> 0, pos |-> 1]]
  BY DEF Init
<1> HIDE DEF i
<1>3. /\ Len(main) = 1 /\ main \in Seq(Commit) /\ gateway \in [Env -> Served]
      /\ Tip.ledger = [e \in Env |-> 0] /\ Tip = main[1]
  BY <1>1, <1>2 DEF Commit, Served, Tip
<1>4. /\ runs = <<>> /\ Len(runs) = 0 /\ lost = {}
      /\ job = [r \in Run |-> [e \in Env |-> NewJob("absent")]]
      /\ records = [r \in Run |-> [e \in Env |-> NoRecord]]
  BY DEF Init
<1>5. NewJob("absent") \in Job /\ NoRecord \in RecordType
  BY DeploymentAssumption DEF NewJob, NoRecord, Job, RecordType, Step, Verdict
<1>6. DeployType
  BY <1>3, <1>4, <1>5, DeploymentAssumption DEF DeployType
<1>7. RunsInv
  BY <1>3, <1>4 DEF RunsInv, Changes
<1>8. Mutex
  BY <1>4 DEF Mutex, NewJob, Held
<1>9. ASSUME NEW r \in Run, NEW e \in Env PROVE JobInv(r, e) /\ RecordInv(r, e)
  <2>1. job[r][e] = NewJob("absent") /\ records[r][e] = NoRecord
    BY <1>4
  <2>2. JobIsOfRun(r, e, NewJob("absent")) /\ JobIsProved(r, e, NewJob("absent"))
    BY <1>4 DEF JobIsOfRun, JobIsProved, NewJob
  <2>3. JobIsStaged(NewJob("absent")) /\ JobKnows(e, NewJob("absent"))
    BY <1>3 DEF JobIsStaged, JobKnows, NewJob, Fresh
  <2>4. RecordInv(r, e)
    BY <1>3, <2>1 DEF RecordInv, NoRecord
  <2> QED
    BY <2>1, <2>2, <2>3, <2>4 DEF JobInv
<1>10. ASSUME NEW e \in Env PROVE EnvInv(e)
  BY <1>2, <1>3 DEF EnvInv
<1> QED
  BY <1>6, <1>7, <1>8, <1>9, <1>10 DEF DeployInv

-----------------------------------------------------------------------------
(* The jobs.                                                               *)

Newer(r) ==
    \E m \in runs[r].trigger..Len(main) : main[m].inputs # main[runs[r].trigger].inputs

LEMMA NewerStays ==
    ASSUME DeployType, NEW r \in 1..Len(runs), runs[r].trigger \in 1..Len(main),
           runs'[r] = runs[r], Grows, Newer(r)
    PROVE  Newer(r)'
<1>1. Len(main) \in Nat /\ Len(main') \in Nat /\ Len(main') >= Len(main)
  BY DEF DeployType, Grows
<1>2. PICK m \in runs[r].trigger..Len(main) :
         main[m].inputs # main[runs[r].trigger].inputs
  BY DEF Newer
<1>3. /\ m \in runs[r].trigger..Len(main')
      /\ main'[m] = main[m] /\ main'[runs[r].trigger] = main[runs[r].trigger]
  BY <1>1, <1>2 DEF Grows
<1> QED
  BY <1>2, <1>3 DEF Newer

(* What ends a job, and what its end says.                                 *)
LEMMA Endings ==
    ASSUME NEW r, NEW j \in Job, NEW v \in Verdict
    PROVE  /\ Fault(j, v) \in Job /\ Fault(j, v) = [j EXCEPT !.verdict = Fault(j, v).verdict]
           /\ Fault(j, v).verdict = IF j.verdict = "success" THEN v ELSE j.verdict
           /\ Ended(v) \in Job /\ Ended(v).at = "ended" /\ Ended(v).verdict = v
           /\ Fresh(Ended(v)) /\ Ended(v).rev = 0 /\ Ended(v).base = 0
           /\ End(r, j) = Ended(Conclusion(r, j).verdict)
           /\ Conclusion(r, j).verdict \in {j.verdict, "failed"}
           /\ Conclusion(r, j).verdict = "success" =>
                 /\ j.verdict = "success"
                 /\ IsApply(r) => j.apply = "success" /\ j.verify # "failure"
           /\ \A step \in Step : NewJob(step) \in Job
<1>1. \A step \in Step : NewJob(step) \in Job
  BY DeploymentAssumption DEF NewJob, Job, Verdict
<1>2. /\ Fault(j, v) \in Job /\ Fault(j, v) = [j EXCEPT !.verdict = Fault(j, v).verdict]
      /\ Fault(j, v).verdict = IF j.verdict = "success" THEN v ELSE j.verdict
  BY DEF Fault, Job
<1>3. /\ Ended(v) \in Job /\ Ended(v).at = "ended" /\ Ended(v).verdict = v
      /\ Fresh(Ended(v)) /\ Ended(v).rev = 0 /\ Ended(v).base = 0
  <2>1. NewJob("ended") \in Job
    BY <1>1 DEF Step
  <2>2. Ended(v) \in Job
    BY <2>1 DEF Ended, Job
  <2> QED
    BY <2>2 DEF Ended, NewJob, Fresh
<1>4. /\ Conclusion(r, j).verdict \in {j.verdict, "failed"}
      /\ Conclusion(r, j).verdict = "success" =>
            /\ j.verdict = "success"
            /\ IsApply(r) => j.apply = "success" /\ j.verify # "failure"
  BY DEF Conclusion, Fault, Job
<1> QED
  BY <1>1, <1>2, <1>3, <1>4 DEF End

(* A job that waits, or is over, fits wherever it is put.                  *)
LEMMA IdleFits ==
    ASSUME DeployType', NEW r \in Run, r \in 1..Len(runs'), NEW e \in Env, NEW j \in Job,
           job'[r][e] = j, j.at \notin Held, Fresh(j),
           j.at = "absent" => ~IsApply(r)',
           j.rev \in 0..Len(main') /\ j.base \in 0..Len(main'),
           j.at # "ended" => j.verdict = "success",
           j.verdict = "superseded" => Newer(r)'
    PROVE  JobInv(r, e)'
<1>1. JobIsOfRun(r, e, j)'
  BY DEF JobIsOfRun, Newer, Held
<1>2. JobIsStaged(j)' /\ JobKnows(e, j)' /\ JobIsProved(r, e, j)'
  BY DEF JobIsStaged, JobKnows, JobIsProved, Fresh, Held
<1> QED
  BY <1>1, <1>2 DEF JobInv

(* What the invariant says of one job.                                     *)
LEMMA OfOneJob ==
    ASSUME DeployInv, NEW r \in 1..Len(runs), NEW e \in Env
    PROVE  LET j == job[r][e] IN
           /\ r \in Run /\ j \in Job /\ j.mine \in Nat /\ j.rev \in Nat /\ j.base \in Nat
           /\ j.verdict \in Verdict /\ j.landed \in BOOLEAN
           /\ JobIsOfRun(r, e, j) /\ JobIsStaged(j) /\ JobKnows(e, j) /\ JobIsProved(r, e, j)
           /\ EnvInv(e) /\ gateway[e] \in Served /\ gateway[e].effects \in Nat
           /\ runs[r].trigger \in 1..Len(main) /\ Len(main) \in Nat /\ Len(main) >= 1
           /\ j.verdict = "superseded" => Newer(r)
<1> DEFINE j == job[r][e]
<1>1. r \in Run /\ DeployType
  BY RunsAreRuns DEF DeployInv
<1>2. j \in Job /\ gateway[e] \in Served /\ gateway[e].effects \in Nat
  BY <1>1 DEF DeployType, Served
<1>3. /\ j.mine \in Nat /\ j.rev \in Nat /\ j.base \in Nat
      /\ j.verdict \in Verdict /\ j.landed \in BOOLEAN
  BY <1>2 DEF Job
<1>4. /\ JobIsOfRun(r, e, j) /\ JobIsStaged(j) /\ JobKnows(e, j) /\ JobIsProved(r, e, j)
      /\ EnvInv(e)
  BY <1>1 DEF DeployInv, JobInv
<1>5. runs[r].trigger \in 1..Len(main)
  BY DEF DeployInv, RunsInv
<1>6. Len(main) \in Nat /\ Len(main) >= 1
  BY <1>1 DEF DeployType
<1>7. j.verdict = "superseded" => Newer(r)
  BY <1>4 DEF JobIsOfRun, Newer
<1> QED
  BY <1>1, <1>2, <1>3, <1>4, <1>5, <1>6, <1>7

(* The environment of a job that holds the group, or takes it, is as its   *)
(* ledger says unless this very job is to push it.                         *)
LEMMA HolderOwes ==
    ASSUME DeployInv, NEW r \in 1..Len(runs), NEW e \in Env,
           job[r][e].at \in Held \/ Free(e)
    PROVE  \/ e \in lost
           \/ Tip.ledger[e] = gateway[e].effects
           \/ Unpushed(job[r][e])
BY OfOneJob DEF DeployInv, EnvInv, Mutex, Free, Unpushed

-----------------------------------------------------------------------------
(* The steps of a job.                                                     *)

LEMMA CutKeeps ==
    ASSUME DeployInv, NEW r \in 1..Len(runs), NEW e \in Env, Cut(r, e)
    PROVE  DeployInv'
<1> DEFINE j == job[r][e]
<1>0. /\ r \in Run /\ j \in Job /\ EnvInv(e) /\ JobIsStaged(j) /\ gateway[e] \in Served
      /\ gateway[e].effects \in Nat /\ Len(main) \in Nat /\ JobIsOfRun(r, e, j)
  BY OfOneJob
<1>1. /\ Becomes(r, e, Ended("cancelled")) /\ Ended("cancelled") \in Job
      /\ UNCHANGED <<main, runs, records, proved>> /\ DeployType
      /\ Ended("cancelled").at = "ended" /\ Ended("cancelled").verdict = "cancelled"
      /\ Fresh(Ended("cancelled")) /\ Ended("cancelled").rev = 0
      /\ Ended("cancelled").base = 0
  BY <1>0, Endings DEF Cut, Verdict, DeployInv
<1>2. job'[r][e] = Ended("cancelled")
  BY <1>0, <1>1, Becoming
<1>3. Grows /\ Tip' = Tip
  BY <1>1, Standing
<1>4. /\ gateway' \in [Env -> Served] /\ lost' \in SUBSET Env
      /\ \A d \in Env : d # e => Same(d)
      /\ j.at \in Held \/ Same(e)
  <2>1. CASE /\ lost' = IF j.mine # 0 /\ ~j.landed THEN lost \cup {e} ELSE lost
             /\ UNCHANGED gateway
    <3>1. j.at \notin Held => j.mine = 0
      BY <1>0 DEF JobIsStaged, Held, Fresh
    <3> QED
      BY <1>1, <1>3, <2>1, <3>1 DEF DeployType, Same
  <2>2. CASE /\ j.at = "apply"
             /\ gateway' = [gateway EXCEPT ![e].effects = @ + 1,
                                           ![e].inputs = IF IsApply(r) THEN Mixed ELSE @]
             /\ lost' = lost \cup {e}
    <3>1. gateway' \in [Env -> Served]
      <4> DEFINE g == [gateway[e] EXCEPT !.effects = @ + 1,
                                         !.inputs = IF IsApply(r) THEN Mixed ELSE @]
      <4>0. /\ gateway[e].inputs \in Inputs \cup {Mixed} /\ gateway[e].pos \in Nat
            /\ gateway[e] = [inputs |-> gateway[e].inputs, effects |-> gateway[e].effects,
                             pos |-> gateway[e].pos]
        BY <1>0 DEF Served
      <4>1. g \in Served
        <5> DEFINE i == IF IsApply(r) THEN Mixed ELSE gateway[e].inputs
        <5>1. i \in Inputs \cup {Mixed}
          BY <4>0
        <5>2. g = [gateway[e] EXCEPT !.effects = @ + 1, !.inputs = i]
          BY <4>0
        <5> HIDE DEF i
        <5>3. [gateway[e] EXCEPT !.effects = @ + 1, !.inputs = i] \in Served
          <6> DEFINE w == gateway[e]
          <6>1. w \in Served
            BY <1>0
          <6> HIDE DEF w
          <6> SUFFICES [w EXCEPT !.effects = @ + 1, !.inputs = i] \in Served
            BY DEF w
          <6>2. w.effects + 1 \in Nat
            BY <6>1 DEF Served
          <6> QED
            BY <5>1, <6>1, <6>2 DEF Served
        <5> QED
          BY <5>2, <5>3
      <4>2. gateway' = [gateway EXCEPT ![e] = g] /\ gateway \in [Env -> Served]
        BY <1>1, <2>2 DEF DeployType
      <4> HIDE DEF g
      <4> QED
        BY <4>1, <4>2
    <3> QED
      BY <1>1, <1>3, <2>2, <3>1 DEF DeployType, Same, Held
  <2> QED
    BY <2>1, <2>2 DEF Cut
<1>5. EnvInv(e)'
  <2>1. CASE /\ lost' = IF j.mine # 0 /\ ~j.landed THEN lost \cup {e} ELSE lost
             /\ UNCHANGED gateway
    <3>1. CASE j.at \in Held
      <4>1. e \in lost' \/ Tip.ledger[e] = gateway[e].effects
        BY <2>1, <3>1, HolderOwes DEF Unpushed
      <4> QED
        BY <1>0, <1>1, <1>3, <2>1, <4>1 DEF EnvInv, IsApply
    <3>2. CASE j.at \notin Held
      <4>1. \A q \in Run : Unpushed(job[q][e]) => job'[q][e] = job[q][e]
        BY <1>0, <1>1, <3>2, Becoming DEF Unpushed
      <4> QED
        BY <1>0, <1>1, <1>3, <1>4, <3>2, <4>1, EnvKept
    <3> QED
      BY <3>1, <3>2
  <2>2. CASE /\ j.at = "apply"
             /\ gateway' = [gateway EXCEPT ![e].effects = @ + 1,
                                           ![e].inputs = IF IsApply(r) THEN Mixed ELSE @]
             /\ lost' = lost \cup {e}
    <3>1. /\ gateway'[e].effects = gateway[e].effects + 1 /\ gateway'[e].pos = gateway[e].pos
          /\ gateway'[e].inputs = IF IsApply(r) THEN Mixed ELSE gateway[e].inputs
      BY <1>0, <1>1, <2>2 DEF DeployType, Served
    <3>2. Tip.ledger[e] \in Nat
      BY <1>1, TipType
    <3> QED
      BY <1>0, <1>1, <1>3, <2>2, <3>1, <3>2 DEF EnvInv, IsApply
  <2> QED
    BY <2>1, <2>2 DEF Cut
<1>6. DeployType'
  <2>1. job' \in [Run -> [Env -> Job]]
    BY <1>0, <1>1, Becoming
  <2> QED
    BY <1>1, <1>4, <2>1 DEF DeployType
<1>7. JobInv(r, e)'
  BY <1>0, <1>1, <1>2, <1>6, IdleFits DEF Held
<1> QED
  BY <1>1, <1>4, <1>5, <1>7, JobStep DEF Held

(* A job that is over is of its run; a rotation that never acted pushes    *)
(* nothing.                                                                *)
LEMMA StartKeeps ==
    ASSUME DeployInv, NEW r \in 1..Len(runs), NEW e \in Env, Start(r, e)
    PROVE  DeployInv'
<1> DEFINE j == job[r][e]
           refused == Fault(j, "superseded")
           k == IF ~Superseded(runs[r].trigger, Len(main))
                THEN [j EXCEPT !.rev = Len(main),
                               !.at = IF IsApply(r) /\ e \in Promoted THEN "gate" ELSE "apply"]
                ELSE IF IsApply(r) THEN [refused EXCEPT !.at = "verify"]
                ELSE StageLedger(r, refused)
<1>0. /\ r \in Run /\ j \in Job /\ EnvInv(e) /\ JobIsStaged(j) /\ JobIsOfRun(r, e, j)
      /\ JobIsProved(r, e, j) /\ gateway[e].effects \in Nat /\ Len(main) \in Nat
      /\ Len(main) >= 1 /\ runs[r].trigger \in 1..Len(main) /\ j.verdict \in Verdict
      /\ j.rev \in Nat /\ j.base \in Nat
  BY OfOneJob
<1>1. /\ j.at = "queued" /\ Free(e) /\ Becomes(r, e, k)
      /\ UNCHANGED <<main, runs, records, gateway, lost, proved>> /\ DeployType
  BY DEF Start, Revision, DeployInv
<1>2. /\ Fresh(j) /\ j.verdict = "success" /\ j.mine = 0 /\ ~j.landed
      /\ j.apply = "failure" /\ j.verify = "skipped"
      /\ j.rev \in 0..Len(main) /\ j.base \in 0..Len(main)
  BY <1>0, <1>1 DEF JobIsStaged, Fresh
<1>3. /\ refused \in Job /\ refused = [j EXCEPT !.verdict = "superseded"]
  BY <1>0, <1>2 DEF Fault, Job, Verdict
<1>4. Superseded(runs[r].trigger, Len(main)) => Newer(r)
  BY <1>0 DEF Superseded, Newer
<1>5. Grows /\ Tip' = Tip /\ Newer(r)' = Newer(r) /\ IsApply(r)' = IsApply(r) /\ Same(e)
  BY <1>1, Standing DEF Newer, IsApply, Same
<1>6. CASE ~Superseded(runs[r].trigger, Len(main))
  <2>1. k = [j EXCEPT !.rev = Len(main),
                      !.at = IF IsApply(r) /\ e \in Promoted THEN "gate" ELSE "apply"]
    BY <1>6
  <2>2. /\ k \in Job /\ k.rev = Len(main) /\ k.base = j.base /\ k.mine = 0 /\ ~k.landed
        /\ k.apply = "failure" /\ k.verify = "skipped" /\ k.verdict = "success"
        /\ k.at \in {"gate", "apply"} /\ (k.at = "gate" => IsApply(r))
        /\ (k.at = "apply" /\ IsApply(r) => Requires[e] = NoEnv)
    BY <1>0, <1>2, <2>1 DEF Job, Step, Held, Promoted
  <2> HIDE DEF k
  <2>3. job'[r][e] = k
    BY <1>0, <1>1, <2>2, Becoming
  <2>4. JobIsOfRun(r, e, j)'
    BY <1>1, <1>5, <2>2, <2>3 DEF JobIsOfRun
  <2>5. JobIsStaged(j)'
    BY <1>0, <1>1, <1>2, <2>2, <2>3 DEF JobIsStaged, Fresh
  <2>6. JobKnows(e, j)'
    BY <1>0, <1>1, <1>5, <2>2, <2>3 DEF JobKnows, Tip, EnvInv
  <2>7. JobIsProved(r, e, j)'
    BY <1>1, <1>5, <2>2, <2>3 DEF JobIsProved
  <2>8. JobInv(r, e)'
    BY <2>3, <2>4, <2>5, <2>6, <2>7 DEF JobInv
  <2>9. EnvInv(e)'
    <3>1. \A q \in Run : ~Unpushed(job[q][e])
      BY <1>1 DEF Free, Unpushed
    <3> QED
      BY <1>0, <1>1, <1>5, <3>1, EnvKept
  <2> QED
    BY <1>1, <2>2, <2>8, <2>9, <1>5, JobStep DEF DeployType, Same
<1>7. CASE Superseded(runs[r].trigger, Len(main)) /\ IsApply(r)
  <2>1. k = [j EXCEPT !.verdict = "superseded", !.at = "verify"]
    BY <1>0, <1>3, <1>7 DEF Job
  <2>2. /\ k \in Job /\ k.rev = j.rev /\ k.base = j.base /\ k.mine = 0 /\ ~k.landed
        /\ k.apply = "failure" /\ k.verify = "skipped" /\ k.verdict = "superseded"
        /\ k.at = "verify"
    BY <1>0, <1>2, <2>1 DEF Job, Step, Held, Verdict
  <2> HIDE DEF k
  <2>3. job'[r][e] = k
    BY <1>0, <1>1, <2>2, Becoming
  <2>4. JobIsOfRun(r, e, j)'
    BY <1>1, <1>4, <1>5, <1>7, <2>2, <2>3 DEF JobIsOfRun, Newer
  <2>5. JobIsStaged(j)'
    BY <1>0, <1>1, <1>2, <2>2, <2>3 DEF JobIsStaged, Fresh
  <2>6. JobKnows(e, j)'
    BY <1>0, <1>1, <1>5, <2>2, <2>3 DEF JobKnows
  <2>7. JobIsProved(r, e, j)'
    BY <1>1, <1>5, <2>2, <2>3 DEF JobIsProved
  <2>8. JobInv(r, e)'
    BY <2>3, <2>4, <2>5, <2>6, <2>7 DEF JobInv
  <2>9. EnvInv(e)'
    <3>1. \A q \in Run : ~Unpushed(job[q][e])
      BY <1>1 DEF Free, Unpushed
    <3> QED
      BY <1>0, <1>1, <1>5, <3>1, EnvKept
  <2> QED
    BY <1>1, <2>2, <2>8, <2>9, <1>5, JobStep DEF DeployType, Same
<1>8. CASE Superseded(runs[r].trigger, Len(main)) /\ ~IsApply(r)
  <2>1. k = Ended("superseded")
    <3>1. refused.mine = 0 /\ refused.verdict = "superseded"
      BY <1>0, <1>2, <1>3 DEF Job
    <3> QED
      BY <1>8, <3>1 DEF StageLedger, Staged, End, Conclusion
  <2>2. /\ k \in Job /\ k.at = "ended" /\ k.verdict = "superseded" /\ Fresh(k)
        /\ k.rev = 0 /\ k.base = 0
    <3>1. "superseded" \in Verdict
      BY DEF Verdict
    <3> HIDE DEF k
    <3> QED
      BY <1>0, <2>1, <3>1, Endings
  <2> HIDE DEF k
  <2>3. job'[r][e] = k /\ job' \in [Run -> [Env -> Job]]
    BY <1>0, <1>1, <2>2, Becoming
  <2>4. DeployType'
    BY <1>1, <2>3 DEF DeployType
  <2>5. JobInv(r, e)'
    <3>1. r \in 1..Len(runs') /\ Newer(r)' /\ ~IsApply(r)'
      BY <1>1, <1>4, <1>5, <1>8
    <3>2. /\ k.rev \in 0..Len(main') /\ k.base \in 0..Len(main')
          /\ k.at \notin Held /\ k.at # "absent"
      BY <1>0, <1>1, <2>2 DEF Held
    <3> QED
      BY <1>0, <2>2, <2>3, <2>4, <3>1, <3>2, IdleFits
  <2>6. EnvInv(e)'
    <3>1. \A q \in Run : ~Unpushed(job[q][e])
      BY <1>1 DEF Free, Unpushed
    <3> QED
      BY <1>0, <1>1, <1>5, <3>1, EnvKept
  <2> QED
    BY <1>1, <2>2, <2>5, <2>6, <1>5, JobStep DEF DeployType, Same
<1> QED
  BY <1>6, <1>7, <1>8

LEMMA GateKeeps ==
    ASSUME DeployInv, NEW r \in 1..Len(runs), NEW e \in Env, Gate(r, e)
    PROVE  DeployInv'
<1> DEFINE j == job[r][e]
           k == IF Authorized(r, e, j.rev) THEN [j EXCEPT !.at = "apply"]
                ELSE [Fault(j, "blocked") EXCEPT !.at = "verify"]
<1>0. /\ r \in Run /\ j \in Job /\ EnvInv(e) /\ JobIsStaged(j) /\ JobIsOfRun(r, e, j)
      /\ JobIsProved(r, e, j) /\ JobKnows(e, j) /\ Len(main) \in Nat
      /\ j.verdict \in Verdict /\ j.rev \in Nat /\ j.base \in Nat
  BY OfOneJob
<1>1. /\ j.at = "gate" /\ Becomes(r, e, k) /\ j.at \in Held
      /\ UNCHANGED <<main, runs, records, gateway, lost, proved>> /\ DeployType
  BY DEF Gate, DeployInv, Held
<1>2. /\ Fresh(j) /\ j.verdict = "success" /\ j.mine = 0 /\ ~j.landed
      /\ j.apply = "failure" /\ j.verify = "skipped" /\ IsApply(r)
      /\ j.rev \in 1..Len(main) /\ j.base \in 0..Len(main)
  BY <1>0, <1>1 DEF JobIsStaged, Fresh, JobIsOfRun
<1>3. Grows /\ Tip' = Tip /\ IsApply(r)' = IsApply(r) /\ Same(e)
  BY <1>1, Standing DEF IsApply, Same
<1>4. Fault(j, "blocked") = [j EXCEPT !.verdict = "blocked"]
  BY <1>2 DEF Fault
<1>5. /\ k \in Job /\ k.rev = j.rev /\ k.base = j.base /\ k.mine = 0 /\ ~k.landed
      /\ k.apply = "failure" /\ k.verify = "skipped"
      /\ \/ k.at = "apply" /\ k.verdict = "success" /\ Authorized(r, e, j.rev)
         \/ k.at = "verify" /\ k.verdict = "blocked"
  BY <1>0, <1>2, <1>4 DEF Job, Step, Held, Verdict
<1> HIDE DEF k
<1>6. job'[r][e] = k
  BY <1>0, <1>1, <1>5, Becoming
<1>7. Authorized(r, e, j.rev) /\ Requires[e] # NoEnv =>
         <<r, Requires[e], main[j.rev].inputs>> \in proved
  <2>1. Requires[e] # NoEnv => Requires[e] \in Env
    BY DeploymentAssumption
  <2>2. Requires[e] # NoEnv => RecordInv(r, Requires[e])
    BY <1>0, <2>1 DEF DeployInv
  <2> QED
    BY <2>2 DEF Authorized, Authorizing, Superseded, RecordInv
<1>8. JobInv(r, e)'
  <2>1. JobIsOfRun(r, e, j)'
    BY <1>0, <1>1, <1>2, <1>3, <1>5, <1>6 DEF JobIsOfRun
  <2>2. JobIsStaged(j)'
    BY <1>0, <1>1, <1>2, <1>5, <1>6 DEF JobIsStaged, Fresh
  <2>3. JobKnows(e, j)'
    BY <1>0, <1>1, <1>3, <1>5, <1>6 DEF JobKnows
  <2>4. JobIsProved(r, e, j)'
    BY <1>1, <1>5, <1>7, <1>6 DEF JobIsProved
  <2> QED
    BY <1>6, <2>1, <2>2, <2>3, <2>4 DEF JobInv
<1>9. EnvInv(e)'
  <2>1. e \in lost \/ Tip.ledger[e] = gateway[e].effects
    BY <1>1, <1>2, HolderOwes DEF Unpushed
  <2> QED
    BY <1>0, <1>1, <1>3, <2>1 DEF EnvInv, IsApply
<1> QED
  BY <1>1, <1>3, <1>5, <1>8, <1>9, JobStep DEF DeployType, Same

(* Act, in one of its three outcomes: what it leaves of the job, before    *)
(* the job moves on, and of the gateway.                                   *)
LEMMA ActKeeps ==
    ASSUME DeployInv, NEW r \in 1..Len(runs), NEW e \in Env, Act(r, e)
    PROVE  DeployInv'
<1> DEFINE j == job[r][e]
           effect == gateway[e].effects + 1
           On(k) == IF IsApply(r) THEN [k EXCEPT !.at = "verify"] ELSE StageLedger(r, k)
           Given(inputs) == IF IsApply(r)
                            THEN [inputs |-> inputs, effects |-> effect, pos |-> j.rev]
                            ELSE [gateway[e] EXCEPT !.effects = effect]
<1>0. /\ r \in Run /\ j \in Job /\ EnvInv(e) /\ JobIsStaged(j) /\ JobIsOfRun(r, e, j)
      /\ JobIsProved(r, e, j) /\ JobKnows(e, j) /\ Len(main) \in Nat
      /\ gateway[e] \in Served /\ gateway[e].effects \in Nat /\ j.rev \in Nat /\ j.base \in Nat
  BY OfOneJob
<1>1. /\ j.at = "apply" /\ j.at \in Held /\ DeployType
      /\ UNCHANGED <<main, runs, records, lost, proved>>
  BY DEF Act, DeployInv, Held
<1>2. /\ Fresh(j) /\ j.verdict = "success" /\ j.mine = 0 /\ ~j.landed
      /\ j.apply = "failure" /\ j.verify = "skipped"
      /\ j.rev \in 1..Len(main) /\ j.base \in 0..Len(main)
      /\ j.base \in Nat /\ effect \in Nat /\ effect # 0
  BY <1>0, <1>1 DEF JobIsStaged, Fresh
<1>3. Grows /\ Tip' = Tip /\ IsApply(r)' = IsApply(r)
  BY <1>1, Standing DEF IsApply
<1>4. e \in lost \/ Tip.ledger[e] = gateway[e].effects
  BY <1>1, <1>2, HolderOwes DEF Unpushed
<1>5. Tip.ledger[e] \in Nat /\ main[j.rev].inputs \in Inputs
  BY <1>1, <1>2, TipType DEF Commit
<1>6. CASE Becomes(r, e, On(Fault(j, "failed"))) /\ UNCHANGED gateway
  <2> DEFINE k == On(Fault(j, "failed"))
  <2>1. Fault(j, "failed") = [j EXCEPT !.verdict = "failed"]
    BY <1>2 DEF Fault
  <2>2. CASE IsApply(r)
    <3>1. k = [j EXCEPT !.verdict = "failed", !.at = "verify"]
      BY <1>0, <2>1, <2>2 DEF Job
    <3>2. /\ k \in Job /\ k.rev = j.rev /\ k.base = j.base /\ k.mine = 0 /\ ~k.landed
          /\ k.apply = "failure" /\ k.verify = "skipped" /\ k.verdict = "failed"
          /\ k.at = "verify"
      BY <1>0, <1>2, <3>1 DEF Job, Step, Held, Verdict
    <3> HIDE DEF k
    <3>3. job'[r][e] = k /\ Becomes(r, e, k)
      BY <1>0, <1>1, <1>6, <3>2, Becoming DEF k
    <3>4. JobIsOfRun(r, e, j)'
      BY <1>1, <1>3, <2>2, <3>2, <3>3 DEF JobIsOfRun
    <3>5. JobIsStaged(j)'
      BY <1>0, <1>1, <1>2, <3>2, <3>3 DEF JobIsStaged, Fresh
    <3>6. JobKnows(e, j)' /\ JobIsProved(r, e, j)'
      BY <3>2, <3>3 DEF JobKnows, JobIsProved
    <3>7. JobInv(r, e)'
      BY <3>4, <3>5, <3>6 DEF JobInv
    <3>8. EnvInv(e)'
      BY <1>0, <1>1, <1>3, <1>4, <1>6 DEF EnvInv, IsApply
    <3> QED
      BY <1>1, <1>3, <1>6, <3>2, <3>3, <3>7, <3>8, JobStep DEF DeployType, Same
  <2>3. CASE ~IsApply(r)
    <3>1. k = Ended("failed")
      <4>1. Fault(j, "failed").mine = 0 /\ Fault(j, "failed").verdict = "failed"
        BY <1>0, <1>2, <2>1 DEF Job
      <4> QED
        BY <2>3, <4>1 DEF StageLedger, Staged, End, Conclusion
    <3>2. k \in Job /\ k.at = "ended" /\ k.verdict = "failed" /\ Fresh(k) /\ k.rev = 0 /\ k.base = 0
      <4>1. "failed" \in Verdict
        BY DEF Verdict
      <4> HIDE DEF k
      <4> QED
        BY <1>0, <3>1, <4>1, Endings
    <3> HIDE DEF k
    <3>3. job'[r][e] = k /\ Becomes(r, e, k) /\ job' \in [Run -> [Env -> Job]]
      BY <1>0, <1>1, <1>6, <3>2, Becoming DEF k
    <3>4. DeployType'
      BY <1>1, <1>6, <3>3 DEF DeployType
    <3>5. JobInv(r, e)'
      <4>1. /\ r \in 1..Len(runs') /\ ~IsApply(r)' /\ k.rev \in 0..Len(main')
            /\ k.base \in 0..Len(main') /\ k.at \notin Held /\ k.at # "absent"
        BY <1>0, <1>1, <1>3, <2>3, <3>2 DEF Held
      <4> QED
        BY <1>0, <3>2, <3>3, <3>4, <4>1, IdleFits
    <3>6. EnvInv(e)'
      BY <1>0, <1>1, <1>3, <1>4, <1>6 DEF EnvInv, IsApply
    <3> QED
      BY <1>1, <1>3, <1>6, <3>2, <3>3, <3>5, <3>6, JobStep DEF DeployType, Same
  <2> QED
    BY <2>2, <2>3
<1>7. ASSUME NEW i \in Inputs \cup {Mixed}, NEW k \in Job,
             gateway' = [gateway EXCEPT ![e] = Given(i)], Becomes(r, e, On(k)),
             k.rev = j.rev, k.base = j.base, k.mine = effect, ~k.landed,
             k.verify = "skipped", k.at = "apply", k.verdict \in {"success", "failed"},
             k.apply = "success" => i = main[j.rev].inputs
      PROVE  DeployInv'
  <2>1. Given(i) \in Served /\ Given(i).effects = effect /\ Given(i).pos \in 1..Len(main)
        /\ (~IsApply(r) => Given(i).inputs = gateway[e].inputs)
        /\ (IsApply(r) => Given(i).inputs = i)
    BY <1>0, <1>2 DEF Served, EnvInv
  <2>2. gateway' \in [Env -> Served] /\ gateway'[e] = Given(i)
        /\ \A d \in Env : d # e => gateway'[d] = gateway[d]
    <3> HIDE DEF Given
    <3> QED
      BY <1>1, <1>7, <2>1 DEF DeployType
  <2> DEFINE n == On(k)
  <2>3. /\ n \in Job /\ n.rev = j.rev /\ n.mine = effect /\ ~n.landed
        /\ n.verify = "skipped" /\ n.verdict \in {"success", "failed"} /\ n.apply = k.apply
        /\ IsApply(r) => n.at = "verify" /\ n.base = j.base
        /\ ~IsApply(r) => n.at = "push" /\ n.base = j.rev
    <3>1. CASE IsApply(r)
      <4>1. n = [k EXCEPT !.at = "verify"]
        BY <3>1
      <4> QED
        BY <1>0, <1>7, <3>1, <4>1 DEF Job, Step, Held
    <3>2. CASE ~IsApply(r)
      <4>1. n = [k EXCEPT !.at = "push", !.base = k.rev]
        BY <1>2, <1>7, <3>2 DEF StageLedger, Staged
      <4> QED
        BY <1>0, <1>7, <3>2, <4>1 DEF Job, Step, Held
    <3> QED
      BY <3>1, <3>2
  <2>4. Becomes(r, e, n)
    BY <1>7
  <2> HIDE DEF n, Given, On
  <2>5. job'[r][e] = n
    BY <1>0, <1>1, <2>3, <2>4, Becoming
  <2>6. JobIsOfRun(r, e, j)'
    BY <1>1, <1>3, <2>3, <2>5 DEF JobIsOfRun
  <2>7. JobIsStaged(j)'
    BY <1>1, <1>2, <2>3, <2>5 DEF JobIsStaged
  <2>8. JobKnows(e, j)'
    BY <1>1, <1>7, <2>1, <2>2, <2>3, <2>5 DEF JobKnows
  <2>9. JobIsProved(r, e, j)'
    BY <1>0, <1>1, <1>3, <2>3, <2>5 DEF JobIsProved
  <2>10. JobInv(r, e)'
    BY <2>6, <2>7, <2>8, <2>9 DEF JobInv
  <2>11. EnvInv(e)'
    <3>1. Unpushed(job[r][e])'
      BY <1>2, <2>3, <2>5 DEF Unpushed, Held
    <3>2. Tip.ledger[e] <= effect
      BY <1>0, <1>5 DEF EnvInv
    <3>3. gateway'[e].inputs = main[1].inputs \/ \E q \in 1..Len(runs) : IsApply(q)
      BY <1>0, <2>1, <2>2 DEF EnvInv
    <3> QED
      BY <1>0, <1>1, <1>3, <2>1, <2>2, <3>1, <3>2, <3>3 DEF EnvInv, IsApply
  <2> QED
    BY <1>1, <1>3, <2>2, <2>3, <2>4, <2>10, <2>11, JobStep DEF DeployType, Same
<1>8. CASE /\ Becomes(r, e, On([j EXCEPT !.mine = effect, !.apply = "success"]))
           /\ gateway' = [gateway EXCEPT ![e] = Given(main[j.rev].inputs)]
  <2> DEFINE k == [j EXCEPT !.mine = effect, !.apply = "success"]
  <2>1. /\ k \in Job /\ k.rev = j.rev /\ k.base = j.base /\ k.mine = effect /\ ~k.landed
        /\ k.verify = "skipped" /\ k.at = "apply" /\ k.verdict = "success"
    BY <1>0, <1>1, <1>2 DEF Job
  <2> HIDE DEF k, On, Given, effect
  <2> QED
    BY <1>5, <1>7, <1>8, <2>1 DEF k
<1>9. CASE /\ Becomes(r, e, On(Fault([j EXCEPT !.mine = effect], "failed")))
           /\ gateway' = [gateway EXCEPT ![e] = Given(Mixed)]
  <2> DEFINE k == Fault([j EXCEPT !.mine = effect], "failed")
  <2>1. k = [j EXCEPT !.mine = effect, !.verdict = "failed"]
    BY <1>0, <1>2 DEF Fault, Job
  <2>2. /\ k \in Job /\ k.rev = j.rev /\ k.base = j.base /\ k.mine = effect /\ ~k.landed
        /\ k.verify = "skipped" /\ k.at = "apply" /\ k.verdict = "failed" /\ k.apply = "failure"
    BY <1>0, <1>1, <1>2, <2>1 DEF Job, Verdict
  <2> HIDE DEF k, On, Given, effect
  <2> QED
    BY <1>7, <1>9, <2>2 DEF k
<1>10. \A i : (gateway' = [gateway EXCEPT ![e] =
            IF IsApply(r) THEN [inputs |-> i, effects |-> effect, pos |-> j.rev]
            ELSE [@ EXCEPT !.effects = effect]]) => gateway' = [gateway EXCEPT ![e] = Given(i)]
  BY <1>1 DEF DeployType
<1> QED
  BY <1>6, <1>8, <1>9, <1>10 DEF Act

LEMMA VerifyKeeps ==
    ASSUME DeployInv, NEW r \in 1..Len(runs), NEW e \in Env, VerifyTraffic(r, e)
    PROVE  DeployInv'
<1> DEFINE j == job[r][e]
<1>0. /\ r \in Run /\ j \in Job /\ EnvInv(e) /\ JobIsStaged(j) /\ JobIsOfRun(r, e, j)
      /\ JobIsProved(r, e, j) /\ JobKnows(e, j) /\ Len(main) \in Nat
      /\ j.rev \in Nat /\ j.base \in Nat
  BY OfOneJob
<1> DEFINE Results == IF e \in FileMode THEN {"skipped"}
                      ELSE IF j.apply = "failure" THEN {"failure", "skipped"}
                      ELSE {"success", "failure", "skipped"}
<1>a. PICK result \in Results :
         /\ Becomes(r, e, [j EXCEPT !.at = "record", !.verify = result])
         /\ proved' = IF result = "success" THEN proved \cup {<<r, e, gateway[e].inputs>>}
                      ELSE proved
  BY DEF VerifyTraffic
<1>1. /\ Becomes(r, e, [j EXCEPT !.at = "record", !.verify = result])
      /\ proved' = IF result = "success" THEN proved \cup {<<r, e, gateway[e].inputs>>}
                   ELSE proved
      /\ result \in {"success", "failure", "skipped"}
      /\ result = "success" => j.apply = "success"
  BY <1>0, <1>a DEF Job
<1> HIDE DEF Results
<1>2. /\ j.at = "verify" /\ j.at \in Held /\ DeployType /\ proved \subseteq proved'
      /\ UNCHANGED <<main, runs, records, gateway, lost>>
  BY <1>1 DEF VerifyTraffic, DeployInv, Held
<1>3. Grows /\ Tip' = Tip /\ IsApply(r)' = IsApply(r)
  BY <1>2, Standing DEF IsApply
<1> DEFINE k == [j EXCEPT !.at = "record", !.verify = result]
<1>4. /\ k \in Job /\ k.rev = j.rev /\ k.base = j.base /\ k.mine = j.mine
      /\ k.landed = j.landed /\ k.apply = j.apply /\ k.verify = result
      /\ k.verdict = j.verdict /\ k.at = "record"
  BY <1>0, <1>1 DEF Job, Step, Held
<1>5. Becomes(r, e, k)
  BY <1>1
<1> HIDE DEF k
<1>6. job'[r][e] = k
  BY <1>0, <1>2, <1>4, <1>5, Becoming
<1>7. JobInv(r, e)'
  <2>1. JobIsOfRun(r, e, j)'
    BY <1>0, <1>2, <1>3, <1>4, <1>6 DEF JobIsOfRun, NewJob
  <2>2. JobIsStaged(j)'
    BY <1>0, <1>2, <1>4, <1>6 DEF JobIsStaged
  <2>3. JobKnows(e, j)'
    BY <1>0, <1>2, <1>4, <1>6 DEF JobKnows, Tip
  <2>4. JobIsProved(r, e, j)'
    <3>1. k.apply = "success" /\ k.verify = "success" =>
             <<r, e, main[k.rev].inputs>> \in proved'
      BY <1>0, <1>1, <1>2, <1>4 DEF JobKnows
    <3>2. k.mine # 0 /\ IsApply(r) /\ Requires[e] # NoEnv =>
             <<r, Requires[e], main[k.rev].inputs>> \in proved'
      BY <1>0, <1>2, <1>4 DEF JobIsProved
    <3> QED
      BY <1>2, <1>3, <1>4, <1>6, <3>1, <3>2 DEF JobIsProved
  <2> QED
    BY <2>1, <2>2, <2>3, <2>4 DEF JobInv
<1>8. EnvInv(e)'
  <2>1. Unpushed(job[r][e]) => Unpushed(job[r][e])'
    BY <1>4, <1>6 DEF Unpushed, Held
  <2>2. e \in lost \/ Tip.ledger[e] = gateway[e].effects \/ Unpushed(job[r][e])
    BY <1>2, HolderOwes
  <2> QED
    BY <1>0, <1>2, <1>3, <2>1, <2>2 DEF EnvInv, IsApply
<1> QED
  BY <1>2, <1>3, <1>4, <1>5, <1>7, <1>8, JobStep DEF DeployType, Same

(* A job that ends fits.                                                   *)
LEMMA EndIsJob ==
    ASSUME NEW r, NEW x \in Job
    PROVE  End(r, x) \in Job
<1>1. Conclusion(r, x).verdict \in Verdict
  BY DEF Conclusion, Fault, Job, Verdict
<1> QED
  BY <1>1, Endings

LEMMA EndFits ==
    ASSUME DeployType', NEW r \in Run, r \in 1..Len(runs'), NEW e \in Env, NEW x \in Job,
           job'[r][e] = End(r, x), x.verdict = "superseded" => Newer(r)'
    PROVE  JobInv(r, e)' /\ End(r, x) \in Job /\ End(r, x).at = "ended"
<1> DEFINE v == Conclusion(r, x).verdict
<1>1. x.verdict \in Verdict /\ "failed" \in Verdict
  BY DEF Job, Verdict
<1>2. v \in {x.verdict, "failed"} /\ End(r, x) = Ended(v)
  BY <1>1, Endings
<1> HIDE DEF v
<1>3. /\ Ended(v) \in Job /\ Ended(v).at = "ended" /\ Ended(v).verdict = v
      /\ Fresh(Ended(v)) /\ Ended(v).rev = 0 /\ Ended(v).base = 0
  BY <1>1, <1>2, Endings
<1>4. Len(main') \in Nat
  BY DEF DeployType
<1>5. /\ Ended(v).rev \in 0..Len(main') /\ Ended(v).base \in 0..Len(main')
      /\ Ended(v).at \notin Held /\ Ended(v).at # "absent"
      /\ Ended(v).verdict = "superseded" => Newer(r)'
  BY <1>2, <1>3, <1>4 DEF Held
<1> QED
  BY <1>2, <1>3, <1>5, IdleFits

(* A revision is of the branch: what is staged is this job's own effect.   *)
LEMMA RecordKeeps ==
    ASSUME DeployInv, NEW r \in 1..Len(runs), NEW e \in Env, Record(r, e)
    PROVE  DeployInv'
<1> DEFINE j == job[r][e]
           record == [rev |-> j.rev, apply |-> j.apply, verify |-> j.verify]
<1>0. /\ r \in Run /\ j \in Job /\ EnvInv(e) /\ JobIsStaged(j) /\ JobIsOfRun(r, e, j)
      /\ JobIsProved(r, e, j) /\ JobKnows(e, j) /\ Len(main) \in Nat
      /\ j.rev \in Nat /\ j.base \in Nat /\ j.mine \in Nat /\ j.verdict \in Verdict
      /\ (j.verdict = "superseded" => Newer(r))
  BY OfOneJob
<1>1. /\ j.at = "record" /\ j.at \in Held /\ DeployType
      /\ UNCHANGED <<main, runs, gateway, lost, proved>>
  BY DEF Record, DeployInv, Held
<1>2. Grows /\ Tip' = Tip /\ IsApply(r)' = IsApply(r) /\ Newer(r)' = Newer(r)
  BY <1>1, Standing DEF IsApply, Newer
<1>3. /\ j.rev \in 0..Len(main) /\ j.base \in 0..Len(main) /\ ~j.landed
      /\ j.mine # 0 => j.rev # 0
      /\ j.apply = "success" => j.mine # 0
  BY <1>0, <1>1 DEF JobIsStaged
<1>4. \/ records' = [records EXCEPT ![r][e] = record]
      \/ records' = records
  BY DEF Record
<1>5. \/ records' = records
      \/ /\ records' \in [Run -> [Env -> RecordType]]
         /\ \A q \in Run, d \in Env : RecordInv(q, d)'
  <2>1. ASSUME records' = [records EXCEPT ![r][e] = record]
        PROVE  /\ records' \in [Run -> [Env -> RecordType]]
               /\ \A q \in Run, d \in Env : RecordInv(q, d)'
    <3>1. record \in RecordType
      BY <1>0 DEF Job, RecordType
    <3>2. <<r, e, main[j.rev].inputs>> \in proved \/ ~(j.apply = "success" /\ j.verify = "success")
      BY <1>0, <1>1 DEF JobIsProved
    <3>3. record.rev = j.rev /\ record.apply = j.apply /\ record.verify = j.verify
      OBVIOUS
    <3> HIDE DEF record
    <3>4. [records[r] EXCEPT ![e] = record] \in [Env -> RecordType]
      BY <1>0, <1>1, <3>1 DEF DeployType
    <3>5. records' \in [Run -> [Env -> RecordType]] /\ records'[r][e] = record
          /\ \A q \in Run, d \in Env : q # r \/ d # e => records'[q][d] = records[q][d]
      BY <1>0, <1>1, <2>1, <3>4 DEF DeployType
    <3>6. ASSUME NEW q \in Run, NEW d \in Env PROVE RecordInv(q, d)'
      <4>1. CASE q = r /\ d = e
        BY <1>1, <1>3, <3>2, <3>3, <3>5, <4>1 DEF RecordInv
      <4>2. CASE q # r \/ d # e
        BY <1>1, <1>2, <3>5, <4>2, RecordKept DEF DeployInv
      <4> QED
        BY <4>1, <4>2
    <3> QED
      BY <3>5, <3>6
  <2> QED
    BY <1>4, <2>1
<1>6. PICK x \in {j, Fault(j, "failed")} : Becomes(r, e, StageLedger(r, x))
  BY DEF Record
<1>7. /\ x \in Job /\ x.rev = j.rev /\ x.base = j.base /\ x.mine = j.mine
      /\ x.landed = j.landed /\ x.apply = j.apply /\ x.verify = j.verify /\ x.at = j.at
      /\ x.verdict \in {j.verdict, "failed"}
  BY <1>0 DEF Fault, Job, Verdict
<1>8. Unpushed(job[r][e]) \/ e \in lost \/ Tip.ledger[e] = gateway[e].effects
  BY <1>1, HolderOwes
<1>9. CASE j.mine # 0
  <2> DEFINE k == [x EXCEPT !.at = "push", !.base = x.rev]
  <2>1. /\ k \in Job /\ k.rev = j.rev /\ k.base = j.rev /\ k.mine = j.mine
        /\ k.landed = j.landed /\ k.apply = j.apply /\ k.verify = j.verify
        /\ k.verdict \in {j.verdict, "failed"} /\ k.at = "push"
    BY <1>0, <1>7 DEF Job, Step, Held
  <2>2. Becomes(r, e, k)
    BY <1>6, <1>7, <1>9 DEF StageLedger, Staged
  <2> HIDE DEF k
  <2>3. job'[r][e] = k
    BY <1>0, <1>1, <2>1, <2>2, Becoming
  <2>4. JobIsOfRun(r, e, j)'
    BY <1>0, <1>1, <1>2, <2>1, <2>3 DEF JobIsOfRun, Newer, NewJob
  <2>5. JobIsStaged(j)'
    BY <1>0, <1>1, <1>3, <1>9, <2>1, <2>3 DEF JobIsStaged
  <2>6. JobKnows(e, j)'
    BY <1>0, <1>1, <1>3, <2>1, <2>3 DEF JobKnows
  <2>7. JobIsProved(r, e, j)'
    BY <1>0, <1>1, <1>2, <2>1, <2>3 DEF JobIsProved
  <2>8. JobInv(r, e)'
    BY <2>3, <2>4, <2>5, <2>6, <2>7 DEF JobInv
  <2>9. EnvInv(e)'
    <3>1. Unpushed(job[r][e])'
      BY <1>3, <1>9, <2>1, <2>3 DEF Unpushed, Held
    <3> QED
      BY <1>0, <1>1, <1>2, <3>1 DEF EnvInv, IsApply
  <2> QED
    BY <1>1, <1>2, <1>5, <2>1, <2>2, <2>8, <2>9, JobStep DEF DeployType, Same
<1>10. CASE j.mine = 0
  <2>1. Becomes(r, e, End(r, x))
    BY <1>6, <1>7, <1>10 DEF StageLedger, Staged
  <2>2. End(r, x) \in Job
    BY <1>7, EndIsJob
  <2>3. job'[r][e] = End(r, x) /\ job' \in [Run -> [Env -> Job]]
    BY <1>0, <1>1, <2>1, <2>2, Becoming
  <2>4. DeployType'
    BY <1>1, <1>5, <2>3 DEF DeployType
  <2>5. JobInv(r, e)'
    BY <1>0, <1>1, <1>2, <1>7, <2>3, <2>4, EndFits
  <2>6. EnvInv(e)'
    <3>1. e \in lost \/ Tip.ledger[e] = gateway[e].effects
      BY <1>8, <1>10 DEF Unpushed
    <3> QED
      BY <1>0, <1>1, <1>2, <3>1 DEF EnvInv, IsApply
  <2> QED
    BY <1>1, <1>2, <1>5, <2>1, <2>2, <2>5, <2>6, JobStep DEF DeployType, Same
<1> QED
  BY <1>0, <1>9, <1>10

(* The commit a push puts on the head: this ledger's effect, and all else  *)
(* as it was.                                                              *)
LEMMA PushedCommit ==
    ASSUME DeployInv, NEW r \in 1..Len(runs), NEW e \in Env, job[r][e].at = "push",
           FastForward(job[r][e]), main' = Pushed(job[r][e], e)
    PROVE  /\ \E c \in Commit : main' = Append(main, c) /\ c.inputs = Tip.inputs
           /\ Grows /\ Len(main') = Len(main) + 1
           /\ Tip'.ledger[e] = job[r][e].mine /\ job[r][e].mine = gateway[e].effects
           /\ \A d \in Env : d # e => Tip'.ledger[d] = Tip.ledger[d]
           /\ Tip'.edits = Tip.edits /\ Tip'.inputs = Tip.inputs
<1> DEFINE j == job[r][e]
           c == [Tip EXCEPT !.ledger[e] = j.mine]
<1>0. DeployType /\ j.mine \in Nat /\ j.mine # 0 /\ j.mine = gateway[e].effects
  BY OfOneJob DEF DeployInv, JobKnows, JobIsStaged
<1>1. main' = Append(main, c)
  BY DEF FastForward, Pushed, Tip
<1>2. /\ Tip.inputs \in Inputs /\ Tip.ledger \in [Env -> Nat] /\ Tip.edits \in [Env -> Nat]
      /\ Tip = [inputs |-> Tip.inputs, ledger |-> Tip.ledger, edits |-> Tip.edits]
  BY <1>0, TipType
<1>3. /\ c \in Commit /\ c.inputs = Tip.inputs /\ c.edits = Tip.edits /\ c.ledger[e] = j.mine
      /\ \A d \in Env : d # e => c.ledger[d] = Tip.ledger[d]
  <2> DEFINE l == [Tip.ledger EXCEPT ![e] = j.mine]
  <2>1. l \in [Env -> Nat] /\ l[e] = j.mine /\ \A d \in Env : d # e => l[d] = Tip.ledger[d]
    BY <1>0, <1>2
  <2>2. c = [Tip EXCEPT !.ledger = l]
    OBVIOUS
  <2> HIDE DEF l, c
  <2>3. c = [inputs |-> Tip.inputs, ledger |-> l, edits |-> Tip.edits]
    BY <1>2, <2>2
  <2> QED
    BY <1>2, <2>1, <2>3 DEF Commit
<1> HIDE DEF c
<1>4. main' \in Seq(Commit) /\ Len(main') = Len(main) + 1 /\ Grows /\ Tip' = c
  BY <1>0, <1>1, <1>3, Appending
<1> QED
  BY <1>0, <1>1, <1>3, <1>4

(* A push leaves an environment at its own effects, found again.           *)
LEMMA PushKeeps ==
    ASSUME DeployInv, NEW r \in 1..Len(runs), NEW e \in Env, Push(r, e)
    PROVE  DeployInv'
<1> DEFINE j == job[r][e]
<1>0. /\ r \in Run /\ j \in Job /\ EnvInv(e) /\ JobIsStaged(j) /\ JobKnows(e, j)
      /\ Len(main) \in Nat /\ Len(main) >= 1 /\ gateway[e].effects \in Nat
      /\ (j.verdict = "superseded" => Newer(r)) /\ runs[r].trigger \in 1..Len(main)
  BY OfOneJob
<1>1. /\ j.at = "push" /\ j.at \in Held /\ FastForward(j) /\ Becomes(r, e, End(r, j))
      /\ main' = IF j.landed THEN main ELSE Pushed(j, e)
      /\ lost' = IF j.landed THEN lost ELSE lost \ {e}
      /\ DeployType /\ UNCHANGED <<runs, records, gateway, proved>>
  BY DEF Push, DeployInv, Held
<1>2. /\ \/ main' = main
         \/ \E c \in Commit : main' = Append(main, c) /\ c.inputs = Tip.inputs
      /\ Grows /\ Tip'.ledger[e] = gateway[e].effects /\ Len(main') \in Nat
      /\ \A d \in Env : d # e => Tip'.ledger[d] = Tip.ledger[d]
  <2>1. CASE j.landed
    BY <1>0, <1>1, <2>1, Standing DEF JobKnows
  <2>2. CASE ~j.landed
    BY <1>0, <1>1, <2>2, PushedCommit
  <2> QED
    BY <2>1, <2>2
<1>3. lost' \in SUBSET Env /\ \A d \in Env : d # e => Same(d)
  BY <1>1, <1>2 DEF DeployType, Same
<1>4. End(r, j) \in Job
  BY <1>0, EndIsJob
<1>5. job'[r][e] = End(r, j) /\ job' \in [Run -> [Env -> Job]]
  BY <1>0, <1>1, <1>4, Becoming
<1>6. main' \in Seq(Commit) /\ Len(main') >= 1
  BY <1>1, <1>2, Appending, Standing DEF DeployType
<1>7. DeployType'
  BY <1>1, <1>3, <1>5, <1>6 DEF DeployType
<1>8. JobInv(r, e)'
  <2>1. Newer(r) => Newer(r)'
    BY <1>0, <1>1, <1>2, NewerStays
  <2> QED
    BY <1>0, <1>1, <1>5, <1>7, <2>1, EndFits
<1>9. EnvInv(e)'
  <2>1. main'[1] = main[1] /\ Len(main') >= Len(main)
    BY <1>0, <1>2 DEF Grows
  <2> QED
    BY <1>0, <1>1, <1>2, <2>1 DEF EnvInv, IsApply
<1> QED
  BY <1>1, <1>2, <1>3, <1>4, <1>8, <1>9, JobStep DEF DeployType

LEMMA RebaseKeeps ==
    ASSUME DeployInv, NEW r \in 1..Len(runs), NEW e \in Env, Rebase(r, e)
    PROVE  DeployInv'
<1> DEFINE j == job[r][e]
<1>0. /\ r \in Run /\ j \in Job /\ EnvInv(e) /\ JobIsStaged(j) /\ JobKnows(e, j)
      /\ JobIsOfRun(r, e, j) /\ JobIsProved(r, e, j)
      /\ Len(main) \in Nat /\ Len(main) >= 1 /\ gateway[e].effects \in Nat
      /\ (j.verdict = "superseded" => Newer(r)) /\ j.mine \in Nat
  BY OfOneJob
<1>1. /\ j.at = "push" /\ j.at \in Held /\ DeployType
      /\ UNCHANGED <<main, runs, records, gateway, proved>>
  BY DEF Rebase, DeployInv, Held
<1>2. Grows /\ Tip' = Tip /\ IsApply(r)' = IsApply(r) /\ Newer(r)' = Newer(r)
  BY <1>1, Standing DEF IsApply, Newer
<1>3. Unpushed(job[r][e]) \/ e \in lost \/ Tip.ledger[e] = gateway[e].effects
  BY <1>1, HolderOwes
<1>4. CASE /\ TriesLeft(j)
           /\ Becomes(r, e, [j EXCEPT !.base = Len(main), !.tries = @ + 1])
           /\ UNCHANGED lost
  <2> DEFINE k == [j EXCEPT !.base = Len(main), !.tries = @ + 1]
  <2>1. j.tries + 1 \in 0..MaxPushes /\ j.tries \in Nat
    <3>1. j.tries \in 0..MaxPushes
      BY <1>0 DEF Job
    <3>2. MaxPushes \in Nat
      BY DeploymentAssumption
    <3> QED
      BY <1>4, <3>1, <3>2 DEF TriesLeft
  <2>2. k = [j EXCEPT !.base = Len(main), !.tries = j.tries + 1]
    BY <1>0 DEF Job
  <2>3. /\ k \in Job /\ k.rev = j.rev /\ k.base = Len(main) /\ k.mine = j.mine
        /\ k.landed = j.landed /\ k.apply = j.apply /\ k.verify = j.verify
        /\ k.verdict = j.verdict /\ k.at = "push"
    BY <1>0, <1>1, <2>1, <2>2 DEF Job
  <2>4. Becomes(r, e, k)
    BY <1>4
  <2> HIDE DEF k
  <2>5. job'[r][e] = k
    BY <1>0, <1>1, <2>3, <2>4, Becoming
  <2>6. JobIsOfRun(r, e, j)'
    BY <1>0, <1>1, <1>2, <2>3, <2>5 DEF JobIsOfRun, NewJob
  <2>7. JobIsStaged(j)'
    BY <1>0, <1>1, <2>3, <2>5 DEF JobIsStaged
  <2>8. JobKnows(e, j)'
    BY <1>0, <1>1, <1>2, <1>4, <2>3, <2>5 DEF JobKnows
  <2>9. JobIsProved(r, e, j)'
    BY <1>0, <1>1, <1>2, <2>3, <2>5 DEF JobIsProved
  <2>10. JobInv(r, e)'
    BY <2>6, <2>7, <2>8, <2>9 DEF JobInv
  <2>11. EnvInv(e)'
    <3>1. Unpushed(job[r][e]) => Unpushed(job[r][e])'
      BY <1>1, <2>3, <2>5 DEF Unpushed
    <3> QED
      BY <1>0, <1>1, <1>2, <1>3, <1>4, <3>1 DEF EnvInv, IsApply
  <2> QED
    BY <1>1, <1>2, <1>4, <2>3, <2>4, <2>10, <2>11, JobStep DEF DeployType, Same
<1>5. CASE /\ lost' = IF j.landed THEN lost ELSE lost \cup {e}
           /\ Becomes(r, e, End(r, Fault(j, "failed")))
  <2> DEFINE x == Fault(j, "failed")
  <2>1. x \in Job /\ x.verdict \in {j.verdict, "failed"}
    BY <1>0 DEF Fault, Job, Verdict
  <2> HIDE DEF x
  <2>2. End(r, x) \in Job /\ Becomes(r, e, End(r, x))
    <3>1. Becomes(r, e, End(r, x))
      BY <1>5 DEF x
    <3> QED
      BY <2>1, <3>1, EndIsJob
  <2>3. job'[r][e] = End(r, x) /\ job' \in [Run -> [Env -> Job]]
    BY <1>0, <1>1, <2>2, Becoming
  <2>4. lost' \in SUBSET Env /\ \A d \in Env : d # e => Same(d)
    BY <1>1, <1>2, <1>5 DEF DeployType, Same
  <2>5. DeployType'
    BY <1>1, <2>3, <2>4 DEF DeployType
  <2>6. JobInv(r, e)'
    BY <1>0, <1>1, <1>2, <2>1, <2>3, <2>5, EndFits
  <2>7. EnvInv(e)'
    <3>1. e \in lost' \/ Tip.ledger[e] = gateway[e].effects
      BY <1>0, <1>1, <1>5 DEF JobKnows
    <3> QED
      BY <1>0, <1>1, <1>2, <3>1 DEF EnvInv, IsApply
  <2> QED
    BY <1>1, <1>2, <2>2, <2>4, <2>6, <2>7, JobStep DEF DeployType
<1> QED
  BY <1>4, <1>5 DEF Rebase

LEMMA LandUnansweredKeeps ==
    ASSUME DeployInv, NEW r \in 1..Len(runs), NEW e \in Env, LandUnanswered(r, e)
    PROVE  DeployInv'
<1> DEFINE j == job[r][e]
<1>0. /\ r \in Run /\ j \in Job /\ EnvInv(e) /\ JobIsStaged(j) /\ JobKnows(e, j)
      /\ JobIsOfRun(r, e, j) /\ JobIsProved(r, e, j) /\ j.rev \in Nat
      /\ Len(main) \in Nat /\ Len(main) >= 1 /\ gateway[e].effects \in Nat
      /\ (j.verdict = "superseded" => Newer(r)) /\ j.mine \in Nat
      /\ runs[r].trigger \in 1..Len(main)
  BY OfOneJob
<1>1. /\ j.at = "push" /\ j.at \in Held /\ FastForward(j) /\ ~j.landed
      /\ main' = Pushed(j, e) /\ lost' = lost \ {e}
      /\ DeployType /\ UNCHANGED <<runs, records, gateway, proved>>
  BY DEF LandUnanswered, DeployInv, Held
<1>2. /\ \E c \in Commit : main' = Append(main, c) /\ c.inputs = Tip.inputs
      /\ Grows /\ Tip'.ledger[e] = gateway[e].effects /\ Len(main') = Len(main) + 1
      /\ \A d \in Env : d # e => Tip'.ledger[d] = Tip.ledger[d]
  BY <1>0, <1>1, PushedCommit
<1>3. /\ lost' \in SUBSET Env /\ \A d \in Env : d # e => Same(d)
      /\ IsApply(r)' = IsApply(r)
  BY <1>1, <1>2 DEF DeployType, Same, IsApply
<1>4. Newer(r) => Newer(r)'
  BY <1>0, <1>1, <1>2, NewerStays
<1>5. EnvInv(e)'
  <2>1. main'[1] = main[1] /\ Len(main') >= Len(main)
    BY <1>0, <1>2 DEF Grows
  <2> QED
    BY <1>0, <1>1, <1>2, <2>1 DEF EnvInv, IsApply
<1>6. CASE /\ TriesLeft(j)
           /\ Becomes(r, e, [j EXCEPT !.landed = TRUE, !.base = Len(main) + 1, !.tries = @ + 1])
  <2> DEFINE k == [j EXCEPT !.landed = TRUE, !.base = Len(main) + 1, !.tries = @ + 1]
  <2>1. j.tries + 1 \in 0..MaxPushes /\ j.tries \in Nat
    <3>1. j.tries \in 0..MaxPushes
      BY <1>0 DEF Job
    <3>2. MaxPushes \in Nat
      BY DeploymentAssumption
    <3> QED
      BY <1>6, <3>1, <3>2 DEF TriesLeft
  <2>2. k = [j EXCEPT !.landed = TRUE, !.base = Len(main) + 1, !.tries = j.tries + 1]
    BY <1>0 DEF Job
  <2>3. /\ k \in Job /\ k.rev = j.rev /\ k.base = Len(main) + 1 /\ k.mine = j.mine
        /\ k.landed /\ k.apply = j.apply /\ k.verify = j.verify
        /\ k.verdict = j.verdict /\ k.at = "push"
    <3>1. Len(main) + 1 \in Nat /\ j.at = "push"
      BY <1>0, <1>1
    <3> DEFINE h == [j EXCEPT !.base = Len(main) + 1, !.tries = j.tries + 1]
    <3>2. /\ h \in Job /\ h.rev = j.rev /\ h.base = Len(main) + 1 /\ h.mine = j.mine
          /\ h.apply = j.apply /\ h.verify = j.verify
          /\ h.verdict = j.verdict /\ h.at = "push"
      BY <1>0, <2>1, <3>1 DEF Job
    <3>3. k = [h EXCEPT !.landed = TRUE]
      BY <1>0, <2>2 DEF Job
    <3> HIDE DEF h, k
    <3> QED
      BY <3>2, <3>3 DEF Job
  <2>4. Becomes(r, e, k)
    BY <1>6
  <2> HIDE DEF k
  <2>5. job'[r][e] = k
    BY <1>0, <1>1, <2>3, <2>4, Becoming
  <2>6. JobIsOfRun(r, e, j)'
    BY <1>0, <1>1, <1>3, <1>4, <2>3, <2>5 DEF JobIsOfRun, Newer, NewJob
  <2>7. JobIsStaged(j)'
    BY <1>0, <1>1, <1>2, <2>3, <2>5 DEF JobIsStaged
  <2>8. JobKnows(e, j)'
    BY <1>0, <1>1, <1>2, <2>3, <2>5 DEF JobKnows
  <2>9. JobIsProved(r, e, j)'
    <3>1. main'[j.rev] = main[j.rev]
      BY <1>0, <1>1, <1>2 DEF JobIsStaged, Grows
    <3> QED
      BY <1>0, <1>1, <1>3, <2>3, <2>5, <3>1 DEF JobIsProved
  <2>10. JobInv(r, e)'
    BY <2>6, <2>7, <2>8, <2>9 DEF JobInv
  <2> QED
    BY <1>1, <1>2, <1>3, <1>5, <2>3, <2>4, <2>10, JobStep DEF DeployType
<1>7. CASE Becomes(r, e, End(r, Fault([j EXCEPT !.landed = TRUE], "failed")))
  <2> DEFINE x == Fault([j EXCEPT !.landed = TRUE], "failed")
  <2>1. x \in Job /\ x.verdict \in {j.verdict, "failed"}
    BY <1>0 DEF Fault, Job, Verdict
  <2> HIDE DEF x
  <2>2. End(r, x) \in Job /\ Becomes(r, e, End(r, x))
    <3>1. Becomes(r, e, End(r, x))
      BY <1>7 DEF x
    <3> QED
      BY <2>1, <3>1, EndIsJob
  <2>3. job'[r][e] = End(r, x) /\ job' \in [Run -> [Env -> Job]]
    BY <1>0, <1>1, <2>2, Becoming
  <2>4. DeployType'
    BY <1>1, <1>2, <1>3, <2>3, Appending DEF DeployType
  <2>5. JobInv(r, e)'
    BY <1>0, <1>1, <1>4, <2>1, <2>3, <2>4, EndFits
  <2> QED
    BY <1>1, <1>2, <1>3, <1>5, <2>2, <2>5, JobStep DEF DeployType
<1> QED
  BY <1>6, <1>7 DEF LandUnanswered

-----------------------------------------------------------------------------
(* The repository and the scheduling.                                      *)

LEMMA UnrelatedKeeps ==
    ASSUME DeployInv, Unrelated
    PROVE  DeployInv'
<1>1. /\ DeployType /\ RunsInv
      /\ UNCHANGED <<runs, job, records, gateway, lost, proved>>
  BY DEF DeployInv, Unrelated
<1>2. /\ Tip.inputs \in Inputs /\ Tip.ledger \in [Env -> Nat] /\ Tip.edits \in [Env -> Nat]
      /\ Tip = [inputs |-> Tip.inputs, ledger |-> Tip.ledger, edits |-> Tip.edits]
      /\ Tip \in Commit
  BY <1>1, TipType
<1>3. PICK c \in Commit : main' = Append(main, c) /\ c.inputs = Tip.inputs
                          /\ c.ledger = Tip.ledger
  <2>1. CASE main' = Append(main, Tip)
    BY <1>2, <2>1
  <2>2. ASSUME NEW e \in Env, main' = Append(main, [Tip EXCEPT !.edits[e] = @ + 1])
        PROVE  \E c \in Commit : /\ main' = Append(main, c) /\ c.inputs = Tip.inputs
                                 /\ c.ledger = Tip.ledger
    <3> DEFINE d == [Tip.edits EXCEPT ![e] = @ + 1]
               c == [Tip EXCEPT !.edits = d]
    <3>1. d \in [Env -> Nat]
      BY <1>2
    <3>2. main' = Append(main, c)
      BY <2>2
    <3> HIDE DEF d
    <3>3. c = [inputs |-> Tip.inputs, ledger |-> Tip.ledger, edits |-> d]
      BY <1>2
    <3> HIDE DEF c
    <3>4. c \in Commit /\ c.inputs = Tip.inputs /\ c.ledger = Tip.ledger
      BY <1>2, <3>1, <3>3 DEF Commit
    <3> QED
      BY <3>2, <3>4
  <2> QED
    BY <2>1, <2>2 DEF Unrelated
<1>4. Grows /\ Tip' = c /\ main' \in Seq(Commit) /\ Len(main') = Len(main) + 1
  BY <1>1, <1>3, Appending
<1>5. DeployType' /\ RunsInv'
  BY <1>1, <1>3, <1>4, RunsKept DEF DeployType
<1> QED
  BY <1>1, <1>3, <1>4, <1>5, RepositoryStep

(* A new run leaves the others theirs.                                     *)
LEMMA NewRunKeeps ==
    ASSUME DeployInv, NEW kind \in {"apply", "rotate"}, NEW t \in Nat, NEW jobs \in [Env -> Job],
           NewRun(kind, t, jobs)
    PROVE  /\ Len(runs') = Len(runs) + 1 /\ Len(runs) + 1 \in Run
           /\ runs' \in Seq(RunType) /\ Len(runs') <= MaxRuns
           /\ runs'[Len(runs) + 1] = [kind |-> kind, trigger |-> t]
           /\ \A q \in 1..Len(runs) : q \in 1..Len(runs') /\ runs'[q] = runs[q]
           /\ job' \in [Run -> [Env -> Job]] /\ job'[Len(runs) + 1] = jobs
           /\ \A q \in Run : q # Len(runs) + 1 =>
                 job'[q] = job[q] /\ (q \in 1..Len(runs) <=> q \in 1..Len(runs'))
           /\ \A e \in Env : job[Len(runs) + 1][e].at \notin Held
<1>0. /\ runs \in Seq(RunType) /\ job \in [Run -> [Env -> Job]]
      /\ Len(runs) \in Nat /\ MaxRuns \in Nat /\ Len(runs) < MaxRuns
  BY DeploymentAssumption DEF DeployInv, DeployType, NewRun
<1>1. [kind |-> kind, trigger |-> t] \in RunType
  BY DEF RunType
<1>2. /\ runs' = Append(runs, [kind |-> kind, trigger |-> t])
      /\ job' = [job EXCEPT ![Len(runs) + 1] = jobs]
  BY DEF NewRun
<1>3. /\ Len(runs') = Len(runs) + 1 /\ Len(runs) + 1 \in Run
      /\ runs' \in Seq(RunType) /\ Len(runs') <= MaxRuns
      /\ runs'[Len(runs) + 1] = [kind |-> kind, trigger |-> t]
  BY <1>0, <1>1, <1>2 DEF Run
<1>4. \A q \in 1..Len(runs) : q \in 1..Len(runs') /\ runs'[q] = runs[q]
  BY <1>0, <1>1, <1>2
<1>5. job' \in [Run -> [Env -> Job]] /\ job'[Len(runs) + 1] = jobs
  BY <1>0, <1>2, <1>3
<1>6. \A q \in Run : q # Len(runs) + 1 =>
         job'[q] = job[q] /\ (q \in 1..Len(runs) <=> q \in 1..Len(runs'))
  BY <1>0, <1>2, <1>3 DEF Run
<1>7. ASSUME NEW e \in Env PROVE job[Len(runs) + 1][e].at \notin Held
  <2>1. JobIsOfRun(Len(runs) + 1, e, job[Len(runs) + 1][e])
    BY <1>3 DEF DeployInv, JobInv
  <2> QED
    BY <1>0, <2>1 DEF JobIsOfRun, NewJob, Held
<1> QED
  BY <1>3, <1>4, <1>5, <1>6, <1>7

(* A new job fits a new run.                                               *)
LEMMA NewJobFits ==
    ASSUME DeployType', NEW n \in Run, n \in 1..Len(runs'), NEW e \in Env,
           NEW step \in {"absent", "needs", "listed"},
           job'[n][e] = NewJob(step), step = "absent" => ~IsApply(n)'
    PROVE  JobInv(n, e)' /\ job'[n][e].at \notin Held
<1>1. /\ NewJob(step) \in Job /\ NewJob(step).at = step /\ NewJob(step).verdict = "success"
      /\ NewJob(step).rev = 0 /\ NewJob(step).base = 0 /\ Fresh(NewJob(step))
  <2>1. NewJob(step) \in Job
    BY DeploymentAssumption DEF NewJob, Job, Verdict, Step
  <2> QED
    BY <2>1 DEF NewJob, Fresh
<1>2. Len(main') \in Nat
  BY DEF DeployType
<1>3. NewJob(step).at \notin Held
  BY <1>1 DEF Held
<1> QED
  BY <1>1, <1>2, <1>3, IdleFits

LEMMA DispatchKeeps ==
    ASSUME DeployInv, NEW e \in Env, Dispatch(e)
    PROVE  DeployInv'
<1> DEFINE jobs == [d \in Env |-> NewJob(IF d = e THEN "listed" ELSE "absent")]
<1>n. PICK n \in Nat : n = Len(runs) + 1
  BY DEF DeployInv, DeployType
<1>1. /\ NewRun("rotate", Len(main), jobs) /\ DeployType /\ RunsInv
      /\ UNCHANGED <<main, records, gateway, lost, proved>>
      /\ Len(main) \in Nat /\ Len(main) >= 1 /\ Len(runs) \in Nat
  BY DEF Dispatch, DeployInv, DeployType
<1>2. jobs \in [Env -> Job]
  BY DeploymentAssumption DEF NewJob, Job, Verdict, Step
<1> HIDE DEF jobs
<1>3. /\ Len(runs') = n /\ n \in Run /\ runs' \in Seq(RunType) /\ Len(runs') <= MaxRuns
      /\ runs'[n] = [kind |-> "rotate", trigger |-> Len(main)]
      /\ \A q \in 1..Len(runs) : q \in 1..Len(runs') /\ runs'[q] = runs[q]
      /\ job' \in [Run -> [Env -> Job]] /\ job'[n] = jobs
      /\ \A q \in Run : q # n => job'[q] = job[q] /\ (q \in 1..Len(runs) <=> q \in 1..Len(runs'))
      /\ \A d \in Env : job[n][d].at \notin Held
  BY <1>n, <1>1, <1>2, NewRunKeeps
<1>4. Grows /\ Tip' = Tip
  BY <1>1, Standing
<1>5. DeployType'
  BY <1>1, <1>3 DEF DeployType
<1>6. ~IsApply(n)' /\ n \in 1..Len(runs')
  BY <1>n, <1>1, <1>3 DEF IsApply
<1>7. RunsInv'
  <2>1. \A q \in 1..Len(runs) : IsApply(q)' = IsApply(q) /\ runs'[q].trigger = runs[q].trigger
    BY <1>3 DEF IsApply
  <2>2. \A q \in 1..Len(runs') : q \in 1..Len(runs) \/ q = n
    BY <1>n, <1>1, <1>3
  <2>3. runs'[n].trigger = Len(main)
    BY <1>3
  <2>4. \A k : Changes(k)' = Changes(k)
    BY <1>1 DEF Changes
  <2>5. ASSUME NEW q \in 1..Len(runs')
        PROVE  (runs[q].trigger \in 1..Len(main) /\ (IsApply(q) => Changes(runs[q].trigger)))'
    <3>1. CASE q \in 1..Len(runs)
      BY <1>1, <2>1, <3>1 DEF RunsInv, Changes
    <3>2. CASE q = n
      BY <1>1, <1>6, <2>3, <3>2
    <3> QED
      BY <2>2, <3>1, <3>2
  <2>6. \A k \in 1..Len(main') : Changes(k)' =>
           \E q \in 1..Len(runs') : IsApply(q)' /\ runs'[q].trigger = k
    BY <1>1, <1>3, <2>1, <2>4 DEF RunsInv
  <2> QED
    BY <1>1, <1>4, <2>5, <2>6 DEF RunsInv
<1>8. \A d \in Env : JobInv(n, d)' /\ job'[n][d].at \notin Held
  <2>1. ASSUME NEW d \in Env PROVE JobInv(n, d)' /\ job'[n][d].at \notin Held
    <3> DEFINE step == IF d = e THEN "listed" ELSE "absent"
    <3>1. job'[n][d] = NewJob(step) /\ step \in {"absent", "needs", "listed"}
      BY <1>3 DEF jobs
    <3> HIDE DEF step
    <3> QED
      BY <1>3, <1>5, <1>6, <3>1, NewJobFits
  <2> QED
    BY <2>1
<1>9. \A q \in Run, d \in Env :
         \/ job'[q][d] = job[q][d] /\ (q \in 1..Len(runs) <=> q \in 1..Len(runs'))
         \/ job[q][d].at \notin Held /\ job'[q][d].at \notin Held /\ JobInv(q, d)'
  BY <1>3, <1>8
<1> QED
  BY <1>1, <1>3, <1>4, <1>5, <1>7, <1>9, RepositoryStep

LEMMA MergeKeeps ==
    ASSUME DeployInv, NEW i \in Inputs, Merge(i)
    PROVE  DeployInv'
<1> DEFINE jobs == [d \in Env |-> NewJob(IF d \in Promoted THEN "needs" ELSE "listed")]
           c == [Tip EXCEPT !.inputs = i]
<1>n. PICK n \in Nat, p \in Nat : n = Len(runs) + 1 /\ p = Len(main) + 1
  BY DEF DeployInv, DeployType
<1>1. /\ NewRun("apply", p, jobs) /\ DeployType /\ RunsInv /\ i # Tip.inputs
      /\ main' = Append(main, c)
      /\ UNCHANGED <<records, gateway, lost, proved>>
      /\ Len(main) \in Nat /\ Len(main) >= 1 /\ Len(runs) \in Nat
  BY <1>n DEF Merge, DeployInv, DeployType
<1>2. jobs \in [Env -> Job]
  BY DeploymentAssumption DEF NewJob, Job, Verdict, Step
<1>c. c \in Commit /\ c.inputs = i /\ c.ledger = Tip.ledger
  <2>1. /\ Tip.inputs \in Inputs /\ Tip.ledger \in [Env -> Nat] /\ Tip.edits \in [Env -> Nat]
        /\ Tip = [inputs |-> Tip.inputs, ledger |-> Tip.ledger, edits |-> Tip.edits]
    BY <1>1, TipType
  <2>2. c = [inputs |-> i, ledger |-> Tip.ledger, edits |-> Tip.edits]
    BY <2>1
  <2> QED
    BY <2>1, <2>2 DEF Commit
<1> HIDE DEF jobs, c
<1>3. /\ Len(runs') = n /\ n \in Run /\ runs' \in Seq(RunType) /\ Len(runs') <= MaxRuns
      /\ runs'[n] = [kind |-> "apply", trigger |-> p]
      /\ \A q \in 1..Len(runs) : q \in 1..Len(runs') /\ runs'[q] = runs[q]
      /\ job' \in [Run -> [Env -> Job]] /\ job'[n] = jobs
      /\ \A q \in Run : q # n => job'[q] = job[q] /\ (q \in 1..Len(runs) <=> q \in 1..Len(runs'))
      /\ \A d \in Env : job[n][d].at \notin Held
  BY <1>n, <1>1, <1>2, NewRunKeeps
<1>4. /\ Grows /\ Tip' = c /\ main' \in Seq(Commit) /\ Len(main') = p /\ main'[p] = c
      /\ main'[p - 1].inputs = Tip.inputs
  <2>1. /\ Grows /\ Tip' = c /\ main' \in Seq(Commit) /\ Len(main') = p /\ main'[p] = c
    BY <1>n, <1>1, <1>c, Appending
  <2>2. main'[p - 1] = Tip
    BY <1>n, <1>1, <2>1 DEF Grows, Tip
  <2> QED
    BY <2>1, <2>2
<1>5. DeployType'
  BY <1>1, <1>3, <1>4 DEF DeployType
<1>6. IsApply(n)' /\ n \in 1..Len(runs')
  BY <1>n, <1>1, <1>3 DEF IsApply
<1>7. RunsInv'
  <2>1. \A q \in 1..Len(runs) : IsApply(q)' = IsApply(q) /\ runs'[q].trigger = runs[q].trigger
    BY <1>3 DEF IsApply
  <2>2. \A q \in 1..Len(runs') : q \in 1..Len(runs) \/ q = n
    BY <1>n, <1>1, <1>3
  <2>3. runs'[n].trigger = p
    BY <1>3
  <2>4. ASSUME NEW k \in 2..Len(main) PROVE Changes(k)' <=> Changes(k)
    BY <1>n, <1>1, <1>4, <2>4 DEF Changes, Grows
  <2>5. p \in 2..Len(main') /\ main'[p].inputs # main'[p - 1].inputs
    BY <1>n, <1>1, <1>c, <1>4
  <2>6. ASSUME NEW q \in 1..Len(runs')
        PROVE  (runs[q].trigger \in 1..Len(main) /\ (IsApply(q) => Changes(runs[q].trigger)))'
    <3>1. CASE q \in 1..Len(runs)
      <4>1. /\ runs[q].trigger \in 1..Len(main)
            /\ IsApply(q) => /\ runs[q].trigger \in 2..Len(main)
                             /\ main[runs[q].trigger].inputs # main[runs[q].trigger - 1].inputs
        BY <1>1, <3>1 DEF RunsInv, Changes
      <4>2. PICK t \in 1..Len(main) : t = runs[q].trigger
        BY <4>1
      <4>3. runs'[q].trigger = t /\ IsApply(q)' = IsApply(q) /\ t \in 1..Len(main')
        BY <1>n, <1>1, <1>4, <2>1, <3>1, <4>2
      <4>4. IsApply(q) => t \in 2..Len(main) /\ main[t].inputs # main[t - 1].inputs
        BY <4>1, <4>2
      <4>5. ASSUME t \in 2..Len(main)
            PROVE  t \in 2..Len(main') /\ main'[t] = main[t] /\ main'[t - 1] = main[t - 1]
        <5>1. t - 1 \in 1..Len(main)
          BY <1>1, <4>5
        <5> QED
          BY <1>n, <1>1, <1>4, <4>2, <4>5, <5>1 DEF Grows
      <4> QED
        BY <4>3, <4>4, <4>5 DEF Changes
    <3>2. CASE q = n
      BY <1>n, <1>1, <1>4, <2>3, <2>5, <3>2 DEF Changes
    <3> QED
      BY <2>2, <3>1, <3>2
  <2>7. ASSUME NEW k \in 1..Len(main'), Changes(k)'
        PROVE  \E q \in 1..Len(runs') : IsApply(q)' /\ runs'[q].trigger = k
    <3>1. CASE k = p
      BY <1>6, <2>3, <3>1
    <3>2. CASE k # p
      <4>1. k \in 2..Len(main) /\ k \in 1..Len(main)
        BY <1>n, <1>1, <1>4, <2>7, <3>2 DEF Changes
      <4>2. PICK q \in 1..Len(runs) : IsApply(q) /\ runs[q].trigger = k
        BY <1>1, <2>4, <2>7, <4>1 DEF RunsInv
      <4> QED
        BY <1>3, <2>1, <4>2
    <3> QED
      BY <3>1, <3>2
  <2>8. \E k \in 1..Len(main') :
           /\ \A m \in k..Len(main') : main'[m].inputs = Tip'.inputs
           /\ k = 1 \/ main'[k - 1].inputs # Tip'.inputs
    <3>1. p \in 1..Len(main') /\ \A m \in p..Len(main') : m = p
      BY <1>n, <1>1, <1>4
    <3> QED
      BY <1>1, <1>c, <1>4, <3>1
  <2> QED
    BY <2>6, <2>7, <2>8 DEF RunsInv
<1>8. ASSUME NEW d \in Env PROVE JobInv(n, d)' /\ job'[n][d].at \notin Held
  <2> DEFINE step == IF d \in Promoted THEN "needs" ELSE "listed"
  <2>1. job'[n][d] = NewJob(step) /\ step \in {"absent", "needs", "listed"} /\ step # "absent"
    BY <1>3 DEF jobs
  <2> HIDE DEF step
  <2> QED
    BY <1>3, <1>5, <1>6, <2>1, NewJobFits
<1>9. \A q \in Run, d \in Env :
         \/ job'[q][d] = job[q][d] /\ (q \in 1..Len(runs) <=> q \in 1..Len(runs'))
         \/ job[q][d].at \notin Held /\ job'[q][d].at \notin Held /\ JobInv(q, d)'
  BY <1>3, <1>8
<1>10. Tip'.ledger = Tip.ledger
  BY <1>c, <1>4
<1> QED
  BY <1>1, <1>3, <1>4, <1>5, <1>7, <1>9, <1>10, RepositoryStep

(* Only jobs move, and those that hold no group.                           *)
LEMMA IdleStep ==
    ASSUME DeployInv, UNCHANGED <<main, runs, records, gateway, lost, proved>>,
           job' \in [Run -> [Env -> Job]],
           \A q \in Run, d \in Env :
              \/ job'[q][d] = job[q][d]
              \/ /\ q \in 1..Len(runs) /\ job[q][d].at \notin Held
                 /\ job'[q][d].at \notin Held /\ Fresh(job'[q][d])
                 /\ job'[q][d].at # "absent"
                 /\ job'[q][d].rev \in 0..Len(main) /\ job'[q][d].base \in 0..Len(main)
                 /\ job'[q][d].at # "ended" => job'[q][d].verdict = "success"
                 /\ job'[q][d].verdict # "superseded"
    PROVE  DeployInv'
<1>1. DeployType /\ RunsInv
  BY DEF DeployInv
<1>2. Grows /\ Tip' = Tip /\ DeployType' /\ RunsInv'
  BY <1>1, Standing, RunsKept DEF DeployType
<1>3. ASSUME NEW q \in Run, NEW d \in Env, job'[q][d] # job[q][d]
      PROVE  job[q][d].at \notin Held /\ job'[q][d].at \notin Held /\ JobInv(q, d)'
  <2> DEFINE j == job'[q][d]
  <2>1. /\ j \in Job /\ q \in 1..Len(runs') /\ j.at \notin Held /\ Fresh(j) /\ j.at # "absent"
        /\ j.rev \in 0..Len(main') /\ j.base \in 0..Len(main')
        /\ (j.at # "ended" => j.verdict = "success") /\ j.verdict # "superseded"
    BY <1>3
  <2> HIDE DEF j
  <2>2. job'[q][d] = j
    BY DEF j
  <2>3. JobInv(q, d)'
    BY <1>2, <2>1, <2>2, IdleFits
  <2> QED
    BY <1>3, <2>3
<1> QED
  BY <1>1, <1>2, <1>3, RepositoryStep

LEMMA RerunKeeps ==
    ASSUME DeployInv, NEW r \in 1..Len(runs), Rerun(r)
    PROVE  DeployInv'
<1>1. /\ UNCHANGED <<main, runs, records, gateway, lost, proved>> /\ Over(r)
      /\ r \in Run /\ job \in [Run -> [Env -> Job]] /\ Len(main) \in Nat
  BY RunsAreRuns DEF Rerun, DeployInv, DeployType
<1> DEFINE Reset(e) == NewJob(IF IsApply(r) /\ e \in Promoted THEN "needs" ELSE "listed")
<1>2. PICK again \in SUBSET {e \in Env : job[r][e].at = "ended"} :
         job' = [job EXCEPT ![r] = [e \in Env |-> IF e \in again THEN Reset(e) ELSE job[r][e]]]
  <2>1. PICK failedOnly \in BOOLEAN :
           LET again == {e \in Env : /\ job[r][e].at = "ended"
                                     /\ failedOnly => job[r][e].verdict # "success"}
           IN  job' = [job EXCEPT ![r] = [e \in Env |-> IF e \in again THEN Reset(e) ELSE job[r][e]]]
    BY DEF Rerun
  <2> DEFINE again == {e \in Env : /\ job[r][e].at = "ended"
                                   /\ failedOnly => job[r][e].verdict # "success"}
  <2>2. again \in SUBSET {e \in Env : job[r][e].at = "ended"}
    OBVIOUS
  <2>3. job' = [job EXCEPT ![r] = [e \in Env |-> IF e \in again THEN Reset(e) ELSE job[r][e]]]
    BY <2>1
  <2> HIDE DEF again, Reset
  <2> QED
    BY <2>2, <2>3
<1>3. ASSUME NEW e \in Env
      PROVE  /\ Reset(e) \in Job /\ Reset(e).at \in {"needs", "listed"} /\ Fresh(Reset(e))
             /\ Reset(e).rev = 0 /\ Reset(e).base = 0 /\ Reset(e).verdict = "success"
  BY DeploymentAssumption DEF NewJob, Job, Verdict, Step, Fresh
<1> HIDE DEF Reset
<1>4. [e \in Env |-> IF e \in again THEN Reset(e) ELSE job[r][e]] \in [Env -> Job]
  BY <1>1, <1>3
<1>5. /\ job' \in [Run -> [Env -> Job]]
      /\ \A q \in Run, d \in Env : q # r => job'[q][d] = job[q][d]
      /\ \A d \in Env : job'[r][d] = IF d \in again THEN Reset(d) ELSE job[r][d]
  BY <1>1, <1>2, <1>4
<1>6. ASSUME NEW q \in Run, NEW d \in Env, job'[q][d] # job[q][d]
      PROVE  /\ q \in 1..Len(runs) /\ job[q][d].at \notin Held
             /\ job'[q][d].at \notin Held /\ Fresh(job'[q][d])
             /\ job'[q][d].at # "absent"
             /\ job'[q][d].rev \in 0..Len(main) /\ job'[q][d].base \in 0..Len(main)
             /\ job'[q][d].at # "ended" => job'[q][d].verdict = "success"
             /\ job'[q][d].verdict # "superseded"
  <2>1. q = r /\ d \in again /\ job'[q][d] = Reset(d)
    BY <1>5, <1>6
  <2>2. job[r][d].at = "ended"
    BY <1>2, <2>1
  <2> QED
    BY <1>1, <1>3, <2>1, <2>2 DEF Held
<1> QED
  BY <1>1, <1>5, <1>6, IdleStep

LEMMA PromoteKeeps ==
    ASSUME DeployInv, NEW r \in 1..Len(runs), Promote(r)
    PROVE  DeployInv'
<1>1. /\ UNCHANGED <<main, runs, records, gateway, lost, proved>>
      /\ r \in Run /\ job \in [Run -> [Env -> Job]] /\ Len(main) \in Nat
  BY RunsAreRuns DEF Promote, DeployInv, DeployType
<1> DEFINE Moved(e) == [job[r][e] EXCEPT !.at = "listed"]
           To(green, e) == IF job[r][e].at # "needs" THEN job[r][e]
                           ELSE IF green THEN Moved(e) ELSE Ended("skipped")
<1>2. PICK green \in BOOLEAN : job' = [job EXCEPT ![r] = [e \in Env |-> To(green, e)]]
  <2> DEFINE green == \A e \in Independent : job[r][e].verdict = "success"
  <2>1. job' = [job EXCEPT ![r] = [e \in Env |-> To(green, e)]] /\ green \in BOOLEAN
    BY <1>1 DEF Promote
  <2> HIDE DEF green, To
  <2> QED
    BY <2>1
<1>3. ASSUME NEW e \in Env, job[r][e].at = "needs"
      PROVE  /\ To(green, e) \in Job /\ To(green, e).at \in {"listed", "ended"}
             /\ Fresh(To(green, e))
             /\ To(green, e).rev \in 0..Len(main) /\ To(green, e).base \in 0..Len(main)
             /\ To(green, e).at # "ended" => To(green, e).verdict = "success"
             /\ To(green, e).verdict # "superseded"
  <2> DEFINE j == job[r][e]
  <2>1. j \in Job /\ JobIsStaged(j)
    BY <1>1, OfOneJob
  <2>2. Fresh(j) /\ j.verdict = "success" /\ j.rev \in 0..Len(main) /\ j.base \in 0..Len(main)
    BY <1>3, <2>1 DEF JobIsStaged
  <2>3. CASE green
    BY <1>3, <2>1, <2>2, <2>3 DEF Job, Step, Fresh
  <2>4. CASE ~green
    <3>1. To(green, e) = Ended("skipped") /\ "skipped" \in Verdict
      BY <1>3, <2>4 DEF Verdict
    <3> HIDE DEF To
    <3>2. /\ Ended("skipped") \in Job /\ Ended("skipped").at = "ended"
          /\ Fresh(Ended("skipped")) /\ Ended("skipped").rev = 0
          /\ Ended("skipped").base = 0 /\ Ended("skipped").verdict = "skipped"
      BY <2>1, <3>1, Endings
    <3> QED
      BY <1>1, <3>1, <3>2
  <2> QED
    BY <2>3, <2>4
<1>4. \A e \in Env : job[r][e].at # "needs" => To(green, e) = job[r][e]
  OBVIOUS
<1> HIDE DEF To
<1>5. [e \in Env |-> To(green, e)] \in [Env -> Job]
  BY <1>1, <1>3, <1>4
<1>6. /\ job' \in [Run -> [Env -> Job]]
      /\ \A q \in Run, d \in Env : q # r => job'[q][d] = job[q][d]
      /\ \A d \in Env : job'[r][d] = To(green, d)
  BY <1>1, <1>2, <1>5
<1>7. ASSUME NEW q \in Run, NEW d \in Env, job'[q][d] # job[q][d]
      PROVE  /\ q \in 1..Len(runs) /\ job[q][d].at \notin Held
             /\ job'[q][d].at \notin Held /\ Fresh(job'[q][d])
             /\ job'[q][d].at # "absent"
             /\ job'[q][d].rev \in 0..Len(main) /\ job'[q][d].base \in 0..Len(main)
             /\ job'[q][d].at # "ended" => job'[q][d].verdict = "success"
             /\ job'[q][d].verdict # "superseded"
  <2>1. q = r /\ job[r][d].at = "needs" /\ job'[q][d] = To(green, d)
    BY <1>4, <1>6, <1>7
  <2> QED
    BY <1>3, <2>1 DEF Held
<1> QED
  BY <1>1, <1>6, <1>7, IdleStep

LEMMA JoinKeeps ==
    ASSUME DeployInv, NEW r \in 1..Len(runs), NEW e \in Env, Join(r, e)
    PROVE  DeployInv'
<1>1. /\ UNCHANGED <<main, runs, records, gateway, lost, proved>>
      /\ r \in Run /\ job \in [Run -> [Env -> Job]] /\ Len(main) \in Nat
      /\ job[r][e].at = "listed"
  BY RunsAreRuns DEF Join, DeployInv, DeployType
<1> DEFINE To(q) == IF q = r THEN [job[q][e] EXCEPT !.at = "queued"] ELSE Displace(job[q][e])
<1>2. job' = [q \in Run |-> [job[q] EXCEPT ![e] = To(q)]]
  BY <1>1 DEF Join
<1>3. ASSUME NEW q \in Run
      PROVE  /\ To(q) \in Job
             /\ \/ To(q) = job[q][e]
                \/ /\ q \in 1..Len(runs) /\ job[q][e].at \notin Held
                   /\ To(q).at \in {"queued", "ended"} /\ Fresh(To(q))
                   /\ To(q).rev \in 0..Len(main) /\ To(q).base \in 0..Len(main)
                   /\ To(q).at # "ended" => To(q).verdict = "success"
                   /\ To(q).verdict # "superseded"
  <2> DEFINE j == job[q][e]
  <2>1. j \in Job /\ JobIsStaged(j) /\ JobIsOfRun(q, e, j)
    BY <1>1 DEF DeployInv, JobInv
  <2>2. CASE q = r
    <3>1. Fresh(j) /\ j.verdict = "success" /\ j.rev \in 0..Len(main) /\ j.base \in 0..Len(main)
      BY <1>1, <2>1, <2>2 DEF JobIsStaged
    <3>2. To(q) = [j EXCEPT !.at = "queued"]
      BY <2>2
    <3> QED
      BY <1>1, <2>1, <2>2, <3>1, <3>2 DEF Job, Step, Held, Fresh
  <2>3. CASE q # r /\ j.at = "queued"
    <3>1. To(q) = Ended("displaced") /\ "displaced" \in Verdict
      BY <2>3 DEF Displace, Verdict
    <3>2. q \in 1..Len(runs) /\ j.at \notin Held
      BY <2>1, <2>3 DEF JobIsOfRun, NewJob, Held
    <3> HIDE DEF To
    <3>3. /\ Ended("displaced") \in Job /\ Ended("displaced").at = "ended"
          /\ Fresh(Ended("displaced")) /\ Ended("displaced").rev = 0
          /\ Ended("displaced").base = 0 /\ Ended("displaced").verdict = "displaced"
      BY <2>1, <3>1, Endings
    <3> QED
      BY <1>1, <3>1, <3>2, <3>3
  <2>4. CASE q # r /\ j.at # "queued"
    BY <2>1, <2>4 DEF Displace
  <2> QED
    BY <2>2, <2>3, <2>4
<1> HIDE DEF To
<1>4. \A q \in Run : [job[q] EXCEPT ![e] = To(q)] \in [Env -> Job]
  BY <1>1, <1>3
<1>5. /\ job' \in [Run -> [Env -> Job]]
      /\ \A q \in Run : job'[q][e] = To(q)
      /\ \A q \in Run, d \in Env : d # e => job'[q][d] = job[q][d]
  BY <1>1, <1>2, <1>4
<1>6. ASSUME NEW q \in Run, NEW d \in Env, job'[q][d] # job[q][d]
      PROVE  /\ q \in 1..Len(runs) /\ job[q][d].at \notin Held
             /\ job'[q][d].at \notin Held /\ Fresh(job'[q][d])
             /\ job'[q][d].at # "absent"
             /\ job'[q][d].rev \in 0..Len(main) /\ job'[q][d].base \in 0..Len(main)
             /\ job'[q][d].at # "ended" => job'[q][d].verdict = "success"
             /\ job'[q][d].verdict # "superseded"
  <2>1. d = e /\ job'[q][d] = To(q) /\ To(q) # job[q][e]
    BY <1>5, <1>6
  <2> QED
    BY <1>3, <2>1 DEF Held
<1> QED
  BY <1>1, <1>5, <1>6, IdleStep

-----------------------------------------------------------------------------
LEMMA NextKeeps ==
    ASSUME DeployInv, [Next]_vars
    PROVE  DeployInv'
<1>1. ASSUME UNCHANGED vars PROVE DeployInv'
  <2>1. DeployType /\ RunsInv /\ UNCHANGED <<main, runs, job, records, gateway, lost, proved>>
    BY <1>1 DEF DeployInv, vars
  <2>2. job' \in [Run -> [Env -> Job]]
    BY <2>1 DEF DeployType
  <2> QED
    BY <2>1, <2>2, IdleStep
<1>2. ASSUME NEW i \in Inputs, Merge(i) PROVE DeployInv'
  BY <1>2, MergeKeeps
<1>3. ASSUME NEW e \in Env, Dispatch(e) PROVE DeployInv'
  BY <1>3, DispatchKeeps
<1>4. ASSUME NEW r \in 1..Len(runs), NEW e \in Env, HeldStep(r, e) PROVE DeployInv'
  BY <1>4, GateKeeps, ActKeeps, VerifyKeeps, RecordKeeps, PushKeeps, RebaseKeeps,
     LandUnansweredKeeps DEF HeldStep
<1>5. ASSUME NEW r \in 1..Len(runs), NEW e \in Env, Cut(r, e) \/ Join(r, e) \/ Start(r, e)
      PROVE  DeployInv'
  BY <1>5, CutKeeps, JoinKeeps, StartKeeps
<1>6. ASSUME NEW r \in 1..Len(runs), Rerun(r) \/ Promote(r) PROVE DeployInv'
  BY <1>6, RerunKeeps, PromoteKeeps
<1>7. ASSUME Unrelated PROVE DeployInv'
  BY <1>7, UnrelatedKeeps
<1> QED
  BY <1>1, <1>2, <1>3, <1>4, <1>5, <1>6, <1>7 DEF Next, Done

LEMMA DeployInductive == Spec => []DeployInv
<1>1. Init => DeployInv
  BY InitDeploy
<1>2. DeployInv /\ [Next]_vars => DeployInv'
  BY NextKeeps
<1> QED
  BY <1>1, <1>2, PTL DEF Spec

(* Type correctness of the workflows: every job has a state of the         *)
(* workflow files, and what it points at is on the branch.                 *)
THEOREM DeploymentTypeCorrect == Spec => []TypeOK
<1>1. ASSUME DeployInv PROVE TypeOK
  <2>1. DeployType /\ Len(main) \in Nat
    BY <1>1 DEF DeployInv, DeployType
  <2>2. ASSUME NEW r \in Run, NEW e \in Env
        PROVE  LET j == job[r][e] IN
               /\ j.rev \in 0..Len(main) /\ j.base \in 0..Len(main)
               /\ j.at \in {"gate", "apply"} => j.rev # 0
               /\ records[r][e].rev \in 0..Len(main)
    <3>1. JobIsStaged(job[r][e]) /\ RecordInv(r, e)
      BY <1>1 DEF DeployInv, JobInv
    <3> QED
      BY <3>1 DEF JobIsStaged, RecordInv
  <2>3. \A e \in Env : gateway[e].inputs \in Inputs \cup {Mixed}
    BY <2>1 DEF DeployType, Served
  <2>4. \A r \in 1..Len(runs) : runs[r].trigger \in 1..Len(main)
    BY <1>1 DEF DeployInv, RunsInv
  <2>5. main \in Seq(Commit) /\ main # <<>> /\ job \in [Run -> [Env -> Job]]
        /\ lost \in SUBSET Env
    BY <2>1 DEF DeployType
  <2> QED
    BY <2>2, <2>3, <2>4, <2>5 DEF TypeOK
<1> QED
  BY <1>1, DeployInductive, PTL

(* Whatever runs, queues, is cut or pushed in between, the ledger a job    *)
(* works from is the newest of its environment unless a commit was lost,   *)
(* and a promoted environment is only changed with inputs its predecessor  *)
(* was seen to serve in the same run.                                      *)
THEOREM JobsAreAlwaysGrounded == Spec => []JobsAreGrounded
<1>1. ASSUME DeployInv PROVE JobsAreGrounded
  <2>1. ASSUME NEW r \in 1..Len(runs), NEW e \in Env
        PROVE  LET j == job[r][e] IN
               /\ j.at \in {"gate", "apply"} =>
                     e \in lost \/ main[j.rev].ledger[e] = gateway[e].effects
               /\ j.mine # 0 /\ IsApply(r) /\ Requires[e] # NoEnv =>
                     <<r, Requires[e], main[j.rev].inputs>> \in proved
    <3> DEFINE j == job[r][e]
    <3>1. JobIsStaged(j) /\ JobKnows(e, j) /\ JobIsProved(r, e, j)
      BY <1>1, OfOneJob
    <3>2. ASSUME j.at \in {"gate", "apply"}
          PROVE  e \in lost \/ main[j.rev].ledger[e] = gateway[e].effects
      <4>1. j.at \in Held /\ ~Unpushed(j)
        BY <3>1, <3>2 DEF JobIsStaged, Fresh, Unpushed, Held
      <4>2. e \in lost \/ Tip.ledger[e] = gateway[e].effects
        BY <1>1, <4>1, HolderOwes
      <4> QED
        BY <3>1, <3>2, <4>2 DEF JobKnows
    <3> QED
      BY <3>1, <3>2 DEF JobIsProved
  <2>2. DOMAIN runs = 1..Len(runs) /\ \A r \in 1..Len(runs) : DOMAIN job[r] = Env
    <3>1. DeployType
      BY <1>1 DEF DeployInv
    <3>2. runs \in Seq(RunType) /\ job \in [Run -> [Env -> Job]]
      BY <3>1 DEF DeployType
    <3>3. DOMAIN runs = 1..Len(runs)
      BY <3>2
    <3>4. 1..Len(runs) \subseteq Run
      BY <3>1, RunsAreRuns
    <3> QED
      BY <3>2, <3>3, <3>4
  <2>3. LedgerIsFresh
    BY <2>1, <2>2 DEF LedgerIsFresh
  <2>4. PromotedWasVerified
    BY <2>1, <2>2 DEF PromotedWasVerified
  <2> QED
    BY <2>3, <2>4 DEF JobsAreGrounded
<1> QED
  BY <1>1, DeployInductive, PTL

(* When nothing runs any more, an environment that does not serve the      *)
(* head's inputs had a job of the commit that brought them, and that job   *)
(* was not refused for being old.                                          *)
THEOREM EveryChangeIsAccounted == Spec => []Accounted
<1>1. ASSUME DeployInv PROVE Accounted
  <2> DEFINE Last(n) == /\ \A m \in n..Len(main) : main[m].inputs = Tip.inputs
                        /\ n = 1 \/ main[n - 1].inputs # Tip.inputs
             l == CHOOSE n \in 1..Len(main) : Last(n)
  <2>1. l \in 1..Len(main) /\ Last(l)
    <3>1. \E n \in 1..Len(main) : Last(n)
      BY <1>1 DEF DeployInv, RunsInv
    <3> HIDE DEF Last
    <3> QED
      BY <3>1
  <2>2. l = LastChange
    BY DEF LastChange
  <2> HIDE DEF l
  <2>3. SUFFICES ASSUME Quiet, NEW e \in Env, gateway[e].inputs # Tip.inputs
                 PROVE  EndedBy(e, {"success", "failed", "blocked", "cancelled", "skipped",
                                    "displaced"})
    BY DEF Accounted
  <2>4. Len(main) \in Nat /\ Len(main) >= 1 /\ 1..Len(runs) \subseteq Run
    BY <1>1, RunsAreRuns DEF DeployInv, DeployType
  <2>5. ASSUME NEW r \in 1..Len(runs), IsApply(r), runs[r].trigger = l
        PROVE  EndedBy(e, {"success", "failed", "blocked", "cancelled", "skipped", "displaced"})
    <3> DEFINE j == job[r][e]
    <3>1. j \in Job /\ JobIsOfRun(r, e, j) /\ JobIsStaged(j)
          /\ (j.verdict = "superseded" => Newer(r))
      BY <1>1, OfOneJob
    <3>2. j.verdict # "superseded"
      BY <2>1, <2>5, <3>1 DEF Newer
    <3>3. j.verdict \in {"success", "failed", "blocked", "cancelled", "skipped", "displaced"}
      BY <3>1, <3>2 DEF Job, Verdict
    <3> QED
      BY <2>2, <2>5, <3>3 DEF EndedBy
  <2>6. CASE l = 1
    <3>1. main[1].inputs = Tip.inputs
      BY <2>1, <2>4, <2>6
    <3>2. EnvInv(e)
      BY <1>1 DEF DeployInv
    <3>3. PICK r \in 1..Len(runs) : IsApply(r)
      BY <2>3, <3>1, <3>2 DEF EnvInv
    <3>4. Changes(runs[r].trigger)
      BY <1>1, <3>3 DEF DeployInv, RunsInv
    <3>5. runs[r].trigger \in 2..Len(main) /\ runs[r].trigger - 1 \in 1..Len(main)
          /\ main[runs[r].trigger].inputs # main[runs[r].trigger - 1].inputs
      BY <2>4, <3>4 DEF Changes
    <3> QED
      BY <2>1, <2>4, <2>6, <3>5
  <2>7. CASE l # 1
    <3>1. Changes(l)
      BY <2>1, <2>4, <2>7 DEF Changes
    <3>2. PICK r \in 1..Len(runs) : IsApply(r) /\ runs[r].trigger = l
      BY <1>1, <2>1, <3>1 DEF DeployInv, RunsInv
    <3> QED
      BY <2>5, <3>2
  <2> QED
    BY <2>6, <2>7
<1> QED
  BY <1>1, DeployInductive, PTL

-----------------------------------------------------------------------------
(* What no step undoes.                                                    *)

LEMMA OnlyOneMoves ==
    ASSUME DeployType, NEW r \in Run, NEW e \in Env, NEW x, Becomes(r, e, x)
    PROVE  /\ job'[r][e] = x
           /\ \A q \in Run, d \in Env : q # r \/ d # e => job'[q][d] = job[q][d]
<1>1. job \in [Run -> [Env -> Job]]
  BY DEF DeployType
<1> QED
  BY <1>1 DEF Becomes

(* A job that stages its ledger is not over, or had nothing to stage.      *)
LEMMA StageGreen ==
    ASSUME NEW r, NEW k \in Job
    PROVE  LET x == StageLedger(r, k) IN
           x.at = "ended" /\ x.verdict = "success" => k.mine = 0 /\ k.verdict = "success"
<1>1. CASE k.mine # 0
  BY <1>1 DEF StageLedger, Staged, Job
<1>2. CASE k.mine = 0
  <2>1. StageLedger(r, k) = End(r, k) /\ "failed" \in Verdict
    BY <1>2 DEF StageLedger, Staged, Verdict
  <2>2. Conclusion(r, k).verdict \in Verdict
    BY DEF Conclusion, Fault, Job, Verdict
  <2>3. StageLedger(r, k).verdict = Conclusion(r, k).verdict
    BY <2>1, <2>2, Endings
  <2>4. Conclusion(r, k).verdict = "success" => k.verdict = "success"
    BY <2>1, Endings
  <2> QED
    BY <1>2, <2>3, <2>4
<1> QED
  BY <1>1, <1>2

(* A job somebody faulted does not end green.                              *)
LEMMA FaultyEnd ==
    ASSUME NEW r, NEW k \in Job, NEW v \in Verdict \ {"success"}
    PROVE  Fault(k, v) \in Job /\ Fault(k, v).verdict # "success"
           /\ End(r, Fault(k, v)).verdict # "success"
<1>1. Fault(k, v) \in Job /\ Fault(k, v).verdict # "success"
  BY DEF Fault, Job
<1> DEFINE x == Fault(k, v)
<1> HIDE DEF x
<1>2. x \in Job /\ x.verdict # "success"
  BY <1>1 DEF x
<1>3. Conclusion(r, x).verdict \in Verdict /\ "failed" \in Verdict
  BY <1>2 DEF Conclusion, Fault, Job, Verdict
<1>4. End(r, x).verdict = Conclusion(r, x).verdict
  BY <1>2, <1>3, Endings
<1>5. Conclusion(r, x).verdict # "success"
  BY <1>2, <1>3, Endings
<1> QED
  BY <1>2, <1>4, <1>5 DEF x

(* Which step of a job that is not over ends it green: the push that       *)
(* landed.                                                                 *)
LEMMA OnlyPushEndsGreen ==
    ASSUME DeployInv, NEW r \in 1..Len(runs), NEW e \in Env,
           Cut(r, e) \/ Start(r, e) \/ HeldStep(r, e),
           job'[r][e].at = "ended", job'[r][e].verdict = "success"
    PROVE  Push(r, e)
<1> DEFINE j == job[r][e]
<1>0. /\ r \in Run /\ j \in Job /\ JobIsStaged(j) /\ DeployType
      /\ gateway[e].effects \in Nat /\ j.mine \in Nat
  BY OfOneJob DEF DeployInv
<1>1. {"cancelled", "superseded", "blocked", "failed"} \subseteq Verdict \ {"success"}
  BY DEF Verdict
<1>2. ASSUME Cut(r, e) PROVE FALSE
  <2>1. job'[r][e] = Ended("cancelled")
    BY <1>0, <1>2, OnlyOneMoves DEF Cut
  <2>2. job'[r][e].verdict = "cancelled"
    BY <2>1 DEF Ended, NewJob
  <2> QED
    BY <2>2
<1>3. ASSUME Start(r, e) PROVE FALSE
  <2> DEFINE x == Fault(j, "superseded")
  <2>1. x \in Job /\ x.verdict # "success"
    BY <1>0, <1>1, FaultyEnd
  <2>2. job'[r][e] = IF ~Superseded(runs[r].trigger, Revision(r))
                     THEN [j EXCEPT !.rev = Revision(r),
                                    !.at = IF IsApply(r) /\ e \in Promoted THEN "gate"
                                           ELSE "apply"]
                     ELSE IF IsApply(r) THEN [x EXCEPT !.at = "verify"]
                     ELSE StageLedger(r, x)
    BY <1>0, <1>3, OnlyOneMoves DEF Start
  <2> HIDE DEF x
  <2>3. job'[r][e] = StageLedger(r, x)
    BY <1>0, <2>1, <2>2 DEF Job
  <2> QED
    BY <2>1, <2>3, StageGreen
<1>4. ASSUME Gate(r, e) PROVE FALSE
  <2>1. Fault(j, "blocked") \in Job
    BY <1>0, <1>1, FaultyEnd
  <2>2. job'[r][e] \in {[j EXCEPT !.at = "apply"], [Fault(j, "blocked") EXCEPT !.at = "verify"]}
    BY <1>0, <1>4, OnlyOneMoves DEF Gate
  <2> QED
    BY <1>0, <2>1, <2>2 DEF Job
<1>5. ASSUME Act(r, e) PROVE FALSE
  <2>1. PICK k \in {[j EXCEPT !.mine = gateway[e].effects + 1, !.apply = "success"],
                    Fault([j EXCEPT !.mine = gateway[e].effects + 1], "failed"),
                    Fault(j, "failed")} :
           Becomes(r, e, IF IsApply(r) THEN [k EXCEPT !.at = "verify"] ELSE StageLedger(r, k))
    BY <1>5 DEF Act
  <2>2. k \in Job /\ (k.mine # 0 \/ k.verdict # "success")
    <3>1. gateway[e].effects + 1 \in Nat /\ gateway[e].effects + 1 # 0
      BY <1>0
    <3>2. /\ [j EXCEPT !.mine = gateway[e].effects + 1, !.apply = "success"] \in Job
          /\ [j EXCEPT !.mine = gateway[e].effects + 1, !.apply = "success"].mine # 0
      BY <1>0, <3>1 DEF Job
    <3>3. [j EXCEPT !.mine = gateway[e].effects + 1] \in Job
      BY <1>0, <3>1 DEF Job
    <3> QED
      BY <1>0, <1>1, <2>1, <3>2, <3>3, FaultyEnd
  <2>3. job'[r][e] = IF IsApply(r) THEN [k EXCEPT !.at = "verify"] ELSE StageLedger(r, k)
    BY <1>0, <2>1, OnlyOneMoves
  <2>4. job'[r][e] = StageLedger(r, k)
    BY <2>2, <2>3 DEF Job
  <2> QED
    BY <2>2, <2>4, StageGreen
<1>6. ASSUME VerifyTraffic(r, e) PROVE FALSE
  <2>1. PICK result : Becomes(r, e, [j EXCEPT !.at = "record", !.verify = result])
    BY <1>6 DEF VerifyTraffic
  <2>2. job'[r][e] = [j EXCEPT !.at = "record", !.verify = result]
    BY <1>0, <2>1, OnlyOneMoves
  <2> QED
    BY <1>0, <2>2 DEF Job
<1>7. ASSUME Record(r, e) PROVE FALSE
  <2>1. PICK k \in {j, Fault(j, "failed")} : Becomes(r, e, StageLedger(r, k))
    BY <1>7 DEF Record
  <2>2. k \in Job /\ k.mine = j.mine /\ (k.verdict = "success" => j.verdict = "success")
    BY <1>0, <2>1 DEF Fault, Job, Verdict
  <2>3. job'[r][e] = StageLedger(r, k)
    BY <1>0, <2>1, OnlyOneMoves
  <2>4. j.mine = 0 /\ j.verdict = "success"
    BY <2>2, <2>3, StageGreen
  <2> QED
    BY <1>0, <1>7, <2>4 DEF Record, JobIsStaged
<1>8. ASSUME Rebase(r, e) PROVE FALSE
  <2>1. job'[r][e] \in {[j EXCEPT !.base = Len(main), !.tries = @ + 1],
                        End(r, Fault(j, "failed"))} /\ j.at = "push"
    BY <1>0, <1>8, OnlyOneMoves DEF Rebase
  <2>2. End(r, Fault(j, "failed")).verdict # "success"
    BY <1>0, <1>1, FaultyEnd
  <2>3. [j EXCEPT !.base = Len(main), !.tries = @ + 1].at = "push"
    BY <1>0, <2>1 DEF Job
  <2> QED
    BY <2>1, <2>2, <2>3
<1>9. ASSUME LandUnanswered(r, e) PROVE FALSE
  <2> DEFINE l == [j EXCEPT !.landed = TRUE]
  <2>1. job'[r][e] \in {[j EXCEPT !.landed = TRUE, !.base = Len(main) + 1, !.tries = @ + 1],
                        End(r, Fault(l, "failed"))} /\ j.at = "push"
    BY <1>0, <1>9, OnlyOneMoves DEF LandUnanswered
  <2>2. l \in Job
    BY <1>0 DEF Job
  <2> HIDE DEF l
  <2>3. End(r, Fault(l, "failed")).verdict # "success"
    BY <1>1, <2>2, FaultyEnd
  <2>4. [j EXCEPT !.landed = TRUE, !.base = Len(main) + 1, !.tries = @ + 1].at = "push"
    BY <1>0, <2>1 DEF Job
  <2> QED
    BY <2>1, <2>3, <2>4
<1> QED
  BY <1>2, <1>3, <1>4, <1>5, <1>6, <1>7, <1>8, <1>9 DEF HeldStep

(* A job that ends green in a step.                                        *)
EndsGreen(r, e) ==
    job[r][e].at # "ended" /\ job'[r][e].at = "ended" /\ job'[r][e].verdict = "success"

LEMMA GreenStep ==
    ASSUME DeployInv, [Next]_vars, NEW q \in 1..Len(runs), NEW d \in Env, EndsGreen(q, d)
    PROVE  Push(q, d)
<1>0. /\ q \in Run /\ DeployType /\ job \in [Run -> [Env -> Job]]
      /\ Len(runs) \in Nat /\ 1..Len(runs) \subseteq Run
  BY RunsAreRuns DEF DeployInv, DeployType
<1>1. job'[q][d] # job[q][d]
  BY DEF EndsGreen
<1>2. ASSUME NEW kind, NEW t, NEW jobs, NewRun(kind, t, jobs) PROVE FALSE
  <2>1. q # Len(runs) + 1 /\ job' = [job EXCEPT ![Len(runs) + 1] = jobs]
    BY <1>0, <1>2 DEF NewRun
  <2> QED
    BY <1>0, <1>1, <2>1
<1>3. ASSUME NEW r \in 1..Len(runs), Rerun(r) PROVE FALSE
  <2>1. job'[q][d] = job[q][d] \/ job'[q][d].at \in {"needs", "listed"}
    <3>1. PICK again \in SUBSET Env :
             job' = [job EXCEPT ![r] = [e \in Env |->
                IF e \in again
                THEN NewJob(IF IsApply(r) /\ e \in Promoted THEN "needs" ELSE "listed")
                ELSE job[r][e]]]
      BY <1>3 DEF Rerun
    <3>2. job'[q][d] = job[q][d]
          \/ job'[q][d] = NewJob(IF IsApply(r) /\ d \in Promoted THEN "needs" ELSE "listed")
      BY <1>0, <3>1
    <3> QED
      BY <3>2 DEF NewJob
  <2> QED
    BY <1>1, <2>1 DEF EndsGreen
<1>4. ASSUME NEW r \in 1..Len(runs), Promote(r) PROVE FALSE
  <2>1. job'[q][d] = job[q][d] \/ job'[q][d] = [job[q][d] EXCEPT !.at = "listed"]
        \/ job'[q][d] = Ended("skipped")
    BY <1>0, <1>4 DEF Promote
  <2>2. job[q][d] \in Job
    BY <1>0
  <2> QED
    BY <1>1, <2>1, <2>2 DEF EndsGreen, Ended, NewJob, Job
<1>5. ASSUME NEW r \in 1..Len(runs), NEW e \in Env, Join(r, e) PROVE FALSE
  <2>1. job'[q][d] = job[q][d] \/ job'[q][d] = [job[q][d] EXCEPT !.at = "queued"]
        \/ job'[q][d] = Ended("displaced")
    <3>1. job' = [s \in Run |-> [job[s] EXCEPT ![e] = IF s = r THEN [@ EXCEPT !.at = "queued"]
                                                      ELSE Displace(@)]]
      BY <1>5 DEF Join
    <3>2. job'[q][d] = job[q][d] \/ job'[q][d] = [job[q][d] EXCEPT !.at = "queued"]
          \/ job'[q][d] = Displace(job[q][d])
      BY <1>0, <3>1
    <3> QED
      BY <3>2 DEF Displace
  <2>2. job[q][d] \in Job
    BY <1>0
  <2> QED
    BY <1>1, <2>1, <2>2 DEF EndsGreen, Ended, NewJob, Job
<1>6. ASSUME NEW r \in 1..Len(runs), NEW e \in Env, Cut(r, e) \/ Start(r, e) \/ HeldStep(r, e)
      PROVE  Push(q, d)
  <2>1. \E x : Becomes(r, e, x)
    BY <1>6 DEF HeldStep, Cut, Start, Gate, Act, VerifyTraffic, Record, Push, Rebase,
                LandUnanswered
  <2>2. q = r /\ d = e
    BY <1>0, <1>1, <2>1, OnlyOneMoves
  <2> QED
    BY <1>6, <2>2, OnlyPushEndsGreen DEF EndsGreen
<1>7. CASE UNCHANGED vars
  BY <1>1, <1>7 DEF vars
<1>8. CASE Unrelated
  BY <1>1, <1>8 DEF Unrelated
<1> QED
  BY <1>2, <1>3, <1>4, <1>5, <1>6, <1>7, <1>8 DEF Next, Done, Merge, Dispatch

(* No step takes an environment back behind the commit its last apply took *)
(* its inputs from.                                                        *)
LEMMA PositionsAdvance ==
    ASSUME DeployInv, [Next]_vars, NEW e \in Env
    PROVE  gateway'[e].pos >= gateway[e].pos
<1>0. /\ DeployType /\ gateway \in [Env -> Served] /\ gateway[e] \in Served
      /\ gateway[e].pos \in Nat
  BY DEF DeployInv, DeployType, Served
<1>1. ASSUME NEW r \in 1..Len(runs), NEW d \in Env, Act(r, d)
      PROVE  gateway'[e].pos >= gateway[e].pos
  <2>1. /\ job[r][d].rev \in Nat /\ gateway[d].pos <= job[r][d].rev /\ gateway[d] \in Served
        /\ gateway[d].pos \in Nat
    BY <1>1, OfOneJob DEF Act, JobKnows, Served
  <2>2. PICK i \in {main[job[r][d].rev].inputs, Mixed} :
           \/ gateway' = gateway
           \/ gateway' = [gateway EXCEPT ![d] =
                IF IsApply(r) THEN [inputs |-> i, effects |-> gateway[d].effects + 1,
                                    pos |-> job[r][d].rev]
                ELSE [@ EXCEPT !.effects = gateway[d].effects + 1]]
    BY <1>1 DEF Act
  <2>3. CASE gateway' = gateway
    BY <1>0, <2>3
  <2>4. CASE gateway' = [gateway EXCEPT ![d] =
                IF IsApply(r) THEN [inputs |-> i, effects |-> gateway[d].effects + 1,
                                    pos |-> job[r][d].rev]
                ELSE [@ EXCEPT !.effects = gateway[d].effects + 1]]
    <3>1. CASE e # d
      BY <1>0, <2>4, <3>1
    <3>2. CASE e = d /\ IsApply(r)
      BY <1>0, <2>1, <2>4, <3>2
    <3>3. CASE e = d /\ ~IsApply(r)
      <4>1. gateway'[e] = [gateway[e] EXCEPT !.effects = gateway[e].effects + 1]
        BY <1>0, <2>4, <3>3
      <4> QED
        BY <1>0, <4>1 DEF Served
    <3> QED
      BY <3>1, <3>2, <3>3
  <2> QED
    BY <2>2, <2>3, <2>4
<1>2. ASSUME NEW r \in 1..Len(runs), NEW d \in Env, Cut(r, d)
      PROVE  gateway'[e].pos >= gateway[e].pos
  <2>1. CASE UNCHANGED gateway
    BY <1>0, <2>1
  <2>2. CASE gateway' = [gateway EXCEPT ![d].effects = @ + 1,
                                        ![d].inputs = IF IsApply(r) THEN Mixed ELSE @]
    <3>1. gateway'[e].pos = gateway[e].pos
      BY <1>0, <2>2 DEF Served
    <3> QED
      BY <1>0, <3>1
  <2> QED
    BY <1>2, <2>1, <2>2 DEF Cut
<1>3. CASE UNCHANGED gateway
  BY <1>0, <1>3
<1>4. ASSUME NEW i \in Inputs, Merge(i) PROVE UNCHANGED gateway
  BY <1>4 DEF Merge
<1>5. ASSUME NEW d \in Env, Dispatch(d) PROVE UNCHANGED gateway
  BY <1>5 DEF Dispatch
<1>6. ASSUME NEW r \in 1..Len(runs), Rerun(r) \/ Promote(r) PROVE UNCHANGED gateway
  BY <1>6 DEF Rerun, Promote
<1>7. ASSUME NEW r \in 1..Len(runs), NEW d \in Env,
             Join(r, d) \/ Start(r, d) \/ HeldStep(r, d), ~Act(r, d)
      PROVE  UNCHANGED gateway
  BY <1>7 DEF Join, Start, HeldStep, Gate, VerifyTraffic, Record, Push, Rebase, LandUnanswered
<1>8. ASSUME Unrelated PROVE UNCHANGED gateway
  BY <1>8 DEF Unrelated
<1>9. ASSUME UNCHANGED vars PROVE UNCHANGED gateway
  BY <1>9 DEF vars
<1> QED
  BY <1>1, <1>2, <1>3, <1>4, <1>5, <1>6, <1>7, <1>8, <1>9 DEF Next, Done

(* No step takes from the branch what others put there.                    *)
LEMMA BranchKeepsOthers ==
    ASSUME DeployInv, [Next]_vars
    PROVE  PushKeepsOthers
<1>0. /\ DeployType /\ Len(runs) \in Nat /\ DOMAIN gateway = Env
      /\ Tip.inputs \in Inputs /\ Tip.ledger \in [Env -> Nat] /\ Tip.edits \in [Env -> Nat]
      /\ Tip = [inputs |-> Tip.inputs, ledger |-> Tip.ledger, edits |-> Tip.edits]
      /\ Tip \in Commit
  BY TipType, RunsAreRuns DEF DeployInv, DeployType
<1>1. CASE main' = main
  BY <1>0, <1>1, Standing DEF PushKeepsOthers
<1>2. ASSUME NEW r \in 1..Len(runs), NEW e \in Env, job[r][e].at = "push",
             FastForward(job[r][e]), main' = Pushed(job[r][e], e)
      PROVE  PushKeepsOthers
  <2>1. /\ Tip'.ledger[e] = gateway[e].effects
        /\ \A d \in Env : d # e => Tip'.ledger[d] = Tip.ledger[d]
        /\ Tip'.edits = Tip.edits /\ Tip'.inputs = Tip.inputs
    BY <1>2, PushedCommit
  <2>2. Tip.ledger[e] <= gateway[e].effects /\ gateway[e].effects \in Nat
    BY OfOneJob DEF EnvInv
  <2>3. ASSUME NEW d \in Env
        PROVE  Tip'.ledger[d] >= Tip.ledger[d] /\ Tip'.edits[d] >= Tip.edits[d]
    <3>1. Tip.ledger[d] \in Nat /\ Tip.edits[d] \in Nat
      BY <1>0
    <3> QED
      BY <2>1, <2>2, <3>1
  <2> QED
    BY <1>0, <2>1, <2>3 DEF PushKeepsOthers
<1>3. ASSUME NEW i \in Inputs, Merge(i) PROVE PushKeepsOthers
  <2> DEFINE c == [Tip EXCEPT !.inputs = i]
  <2>1. c = [inputs |-> i, ledger |-> Tip.ledger, edits |-> Tip.edits]
    BY <1>0
  <2>2. c \in Commit /\ c.ledger = Tip.ledger /\ c.edits = Tip.edits
    BY <1>0, <2>1 DEF Commit
  <2>3. main' = Append(main, c)
    BY <1>3 DEF Merge
  <2> HIDE DEF c
  <2>4. Tip' = c
    BY <1>0, <2>2, <2>3, Appending
  <2>5. \E x \in {"apply"} : \E t, y : runs' = Append(runs, [kind |-> x, trigger |-> t])
    BY <1>3 DEF Merge, NewRun
  <2>6. Len(runs') = Len(runs) + 1
    BY <1>0, <2>5 DEF DeployType
  <2> QED
    BY <1>0, <2>2, <2>4, <2>6 DEF PushKeepsOthers
<1>4. ASSUME Unrelated PROVE PushKeepsOthers
  <2>1. CASE main' = Append(main, Tip)
    <3>1. Tip' = Tip
      BY <1>0, <2>1, Appending
    <3> QED
      BY <1>0, <3>1 DEF PushKeepsOthers
  <2>2. ASSUME NEW e \in Env, main' = Append(main, [Tip EXCEPT !.edits[e] = @ + 1])
        PROVE  PushKeepsOthers
    <3> DEFINE d == [Tip.edits EXCEPT ![e] = @ + 1]
               c == [Tip EXCEPT !.edits = d]
    <3>1. d \in [Env -> Nat] /\ \A f \in Env : d[f] >= Tip.edits[f]
      BY <1>0
    <3>2. main' = Append(main, c)
      BY <2>2
    <3> HIDE DEF d
    <3>0. c = [Tip EXCEPT !.edits = d]
      OBVIOUS
    <3> HIDE DEF c
    <3>3. c = [inputs |-> Tip.inputs, ledger |-> Tip.ledger, edits |-> d]
      <4>1. Tip = [inputs |-> Tip.inputs, ledger |-> Tip.ledger, edits |-> Tip.edits]
        BY <1>0
      <4> QED
        BY <3>0, <4>1
    <3>4. c \in Commit /\ c.inputs = Tip.inputs /\ c.ledger = Tip.ledger /\ c.edits = d
      BY <1>0, <3>1, <3>3 DEF Commit
    <3>5. Tip' = c
      BY <1>0, <3>2, <3>4, Appending
    <3> QED
      BY <1>0, <3>1, <3>4, <3>5 DEF PushKeepsOthers
  <2> QED
    BY <1>4, <2>1, <2>2 DEF Unrelated
<1>5. ASSUME NEW r \in 1..Len(runs), NEW e \in Env, Push(r, e) \/ LandUnanswered(r, e)
      PROVE  PushKeepsOthers
  BY <1>1, <1>2, <1>5 DEF Push, LandUnanswered
<1>6. ASSUME NEW e \in Env, Dispatch(e) PROVE UNCHANGED main
  BY <1>6 DEF Dispatch
<1>7. ASSUME NEW r \in 1..Len(runs), Rerun(r) \/ Promote(r) PROVE UNCHANGED main
  BY <1>7 DEF Rerun, Promote
<1>8. ASSUME NEW r \in 1..Len(runs), NEW e \in Env,
             Cut(r, e) \/ Join(r, e) \/ Start(r, e) \/ HeldStep(r, e),
             ~(Push(r, e) \/ LandUnanswered(r, e))
      PROVE  UNCHANGED main
  BY <1>8 DEF Cut, Join, Start, HeldStep, Gate, Act, VerifyTraffic, Record, Rebase
<1>9. ASSUME UNCHANGED vars PROVE UNCHANGED main
  BY <1>9 DEF vars
<1> QED
  BY <1>1, <1>3, <1>4, <1>5, <1>6, <1>7, <1>8, <1>9 DEF Next, Done

LEMMA GreenKeeps ==
    ASSUME DeployInv, [Next]_vars
    PROVE  GreenIsRecorded
<1>1. ASSUME NEW r \in 1..Len(runs), NEW e \in Env, EndsGreen(r, e)
      PROVE  /\ Tip'.ledger[e] = gateway'[e].effects
             /\ IsApply(r) => job[r][e].apply = "success" /\ job[r][e].verify # "failure"
  <2> DEFINE j == job[r][e]
  <2>0. /\ r \in Run /\ j \in Job /\ JobKnows(e, j) /\ DeployType
    BY OfOneJob DEF DeployInv
  <2>1. Push(r, e)
    BY <1>1, GreenStep
  <2>2. Tip'.ledger[e] = gateway[e].effects /\ gateway' = gateway
    <3>1. CASE j.landed
      BY <2>0, <2>1, <3>1, Standing DEF Push, JobKnows
    <3>2. CASE ~j.landed
      BY <2>0, <2>1, <3>2, PushedCommit DEF Push
    <3> QED
      BY <2>1, <3>1, <3>2 DEF Push
  <2>3. job'[r][e] = End(r, j)
    BY <2>0, <2>1, OnlyOneMoves DEF Push
  <2>4. Conclusion(r, j).verdict = "success"
    <3>1. Conclusion(r, j).verdict \in Verdict
      BY <2>0 DEF Conclusion, Fault, Job, Verdict
    <3>2. End(r, j).verdict = Conclusion(r, j).verdict
      BY <2>0, <3>1, Endings
    <3> QED
      BY <1>1, <2>3, <3>2 DEF EndsGreen
  <2>5. "failed" \in Verdict
    BY DEF Verdict
  <2>6. IsApply(r) => j.apply = "success" /\ j.verify # "failure"
    BY <2>0, <2>4, <2>5, Endings
  <2> QED
    BY <2>2, <2>6
<1>2. DOMAIN runs = 1..Len(runs) /\ \A r \in 1..Len(runs) : DOMAIN job[r] = Env
  <2>1. DeployType
    BY DEF DeployInv
  <2>2. runs \in Seq(RunType) /\ job \in [Run -> [Env -> Job]]
    BY <2>1 DEF DeployType
  <2>3. DOMAIN runs = 1..Len(runs)
    BY <2>2
  <2>4. 1..Len(runs) \subseteq Run
    BY <2>1, RunsAreRuns
  <2> QED
    BY <2>2, <2>3, <2>4
<1> QED
  BY <1>1, <1>2 DEF GreenIsRecorded, EndsGreen

(* No apply rolls an environment back to an older commit, no push of a     *)
(* ledger undoes what others put on the branch, and a job that ends green  *)
(* has its effect on record and no check of its own failed.                *)
THEOREM NothingIsEverUndone == Spec => NothingIsUndone
<1>1. ASSUME DeployInv, [Next]_vars
      PROVE  [NeverRollsBack /\ PushKeepsOthers /\ GreenIsRecorded]_vars
  <2>1. DOMAIN gateway = Env
    BY <1>1 DEF DeployInv, DeployType
  <2>2. NeverRollsBack
    BY <1>1, <2>1, PositionsAdvance DEF NeverRollsBack
  <2> QED
    BY <1>1, <2>2, BranchKeepsOthers, GreenKeeps
<1> QED
  BY <1>1, DeployInductive, PTL DEF Spec, NothingIsUndone
=============================================================================
