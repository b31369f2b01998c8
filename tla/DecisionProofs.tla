--------------------------- MODULE DecisionProofs ---------------------------
(***************************************************************************)
(* Proofs about what the commands decide, for any world they run in.  The  *)
(* drift check (src/main.rs cmd_diff, src/config_export.rs): what each exit *)
(* code says is so; and, of checks that do not overlap, a changed secret    *)
(* stays reported until somebody acts on it.  The refusals that plan,       *)
(* review and apply share (src/verdict.rs): the three decide alike.  The    *)
(* override of a blocking finding by a pull request                         *)
(* (src/policy/github_override.rs): it is earned.                           *)
(***************************************************************************)
EXTENDS DriftCheck, SequenceTheorems, NaturalsInduction, WellFoundedInduction, TLAPS

Assumptions == DriftAssumption /\ OptionsAssumption /\ AbsenceAssumption

-----------------------------------------------------------------------------
(* The invariant of one run, which no other run and no change disturbs.    *)

IsRead(r) == \A n \in opt[r].scope : seen[r][n] \in Export

(* Nothing is known before the first answer, nor kept from another run.    *)
FreshInv(r) ==
    /\ pc[r] = "start" => \A n \in Namespace : seen[r][n] = NotRead
    /\ pc[r] # "done" => ~wrote[r] /\ ~inSync[r]
    /\ pc[r] # "start" /\ opt[r].read => opt[r].export \/ (pc[r] = "done" /\ exit[r] = 1)

(* A value is masked or unsealed around a declared secret, in an export.   *)
MaskInv(r) ==
    \A n \in Namespace : seen[r][n] # NotRead /\ seen[r][n].quality \in {"unsealed", "masked"} =>
                             n \in Consumers /\ opt[r].export

(* What the run ends with is said of everything it read.                   *)
EndInv(r) ==
    /\ pc[r] \in {"conclude", "rename"} => IsRead(r)
    /\ pc[r] = "rename" => ~Cached(r) /\ opt[r].write /\ ~Refused(r)
    /\ pc[r] = "done" =>
          /\ exit[r] # 1 => /\ IsRead(r) /\ exit[r] = Code(r)
                            /\ Cached(r) => ~opt[r].exitOnDrift
                            /\ opt[r].write => wrote[r] \/ Refused(r)
          /\ inSync[r] => IsRead(r) /\ InSync(r)
          /\ wrote[r] => IsRead(r) /\ ~Cached(r)

RunInv == \A r \in Run : FreshInv(r) /\ MaskInv(r) /\ EndInv(r)

-----------------------------------------------------------------------------
(* The invariant of the alarms, of checks that do not overlap: the file    *)
(* the run started with is there until it replaces it.                     *)

OneRun == \A r, s \in Run : r = s

(* No two secrets are of one version, and the absence of a fingerprint is  *)
(* none.                                                                   *)
Made == 0 .. made
MadeInv ==
    /\ \A n \in Namespace :
          live[n].secret \in Made /\ cache[n].secret \in Made /\ want[n] \in Made
    /\ \A n \in Namespace : Recorded(file, n) => file[n].secret \in Made \cup {Blank}
    /\ \A r \in Run, n \in Namespace :
          /\ seen[r][n] # NotRead => seen[r][n].secret \in Made
          /\ Recorded(held[r], n) => held[r][n].secret \in Made \cup {Blank}

FileInv ==
    \A r \in Run :
        /\ pc[r] \in {"read", "conclude", "rename"} =>
              base[r] = IF opt[r].read THEN file ELSE NoFile
        /\ pc[r] = "rename" => held[r] = file

(* An alarm is of a secret that differs from the recorded one; and a run    *)
(* that has read its namespace, and the file, sees that, or misses the     *)
(* fingerprint.                                                            *)
Sees(r, n) == Shown(seen[r][n]) # base[r][n] \/ Unsealed(r, n)

AlarmInv ==
    /\ alarm \subseteq Consumers
    /\ \A n \in alarm : /\ Recorded(file, n) /\ file[n].secret # 0
                        /\ live[n].secret # file[n].secret
    /\ \A r \in Run, n \in Namespace :
          n \in alarm /\ n \in opt[r].scope /\ opt[r].read /\ seen[r][n] # NotRead =>
              /\ Recorded(base[r], n) /\ base[r][n].secret # 0
              /\ seen[r][n].quality # "cached" => Sees(r, n)

-----------------------------------------------------------------------------
(* Types.                                                                  *)

LEMMA OptionTypes ==
    ASSUME Assumptions, NEW o \in Options
    PROVE  /\ o.export \in BOOLEAN /\ o.exitOnDrift \in BOOLEAN /\ o.read \in BOOLEAN
           /\ o.write \in BOOLEAN /\ o.force \in BOOLEAN /\ o.accept \in BOOLEAN
           /\ o.bundle \in BOOLEAN /\ o.scope \subseteq Namespace
  <1>1. o \in Option
    BY DEF Assumptions, OptionsAssumption
  <1>. QED
    BY <1>1 DEF Option

LEMMA NoOptionIsOne == ASSUME Assumptions PROVE NoOption \in Options
  BY DEF NoOption, Assumptions, OptionsAssumption

LEMMA InitTypeOK == ASSUME Assumptions, Init PROVE TypeOK
  <1>1. /\ MaxVersions \in Nat \ {0} /\ MaxKeys \in Nat \ {0} /\ MaxChanges \in Nat
        /\ 0 \in Version /\ 1 \in Version /\ 1 \in 1 .. MaxKeys /\ 0 \in 0 .. MaxChanges
    BY DEF Assumptions, DriftAssumption, Version
  <1>2. [secret |-> 1, plain |-> "same"] \in Live
    BY <1>1 DEF Live, Plain
  <1>3. live \in [Namespace -> Live] /\ cache \in [Namespace -> Live] /\ want \in [Namespace -> Version]
    BY <1>1, <1>2 DEF Init
  <1>4. /\ key \in 1 .. MaxKeys /\ made \in Version /\ changes \in 0 .. MaxChanges
        /\ file \in File \cup {NoFile}
    BY <1>1 DEF Init
  <1>5. /\ pc \in [Run -> Steps] /\ opt \in [Run -> Options] /\ base \in [Run -> File \cup {NoFile}]
        /\ desired \in [Run -> [Namespace -> Version]]
        /\ seen \in [Run -> [Namespace -> Export \cup {NotRead}]]
    BY <1>3, NoOptionIsOne DEF Init, Steps
  <1>6. /\ held \in [Run -> File \cup {NoFile}]
        /\ wrote \in [Run -> BOOLEAN] /\ exit \in [Run -> {-1, 0, 1, 2, 6}]
        /\ inSync \in [Run -> BOOLEAN] /\ alarm \subseteq Namespace
    BY DEF Init
  <1>. QED
    BY <1>3, <1>4, <1>5, <1>6 DEF TypeOK

LEMMA CodeIsExit == \A r \in Run : Code(r) \in {0, 1, 2, 6}
  BY DEF Code

(* What the record keeps of an answer.                                     *)
LEMMA ShownTypes ==
    ASSUME NEW a \in Export
    PROVE  /\ Shown(a) \in Entry /\ Shown(a).key = a.key
           /\ Shown(a).secret = IF a.quality = "unsealed" /\ a.secret # 0 THEN Blank ELSE a.secret
           /\ a.quality # "masked" => Shown(a).at = "itself"
  BY DEF Shown, Export, Entry, Place

LEMMA RecordIsFile ==
    ASSUME TypeOK, NEW r \in Run, IsRead(r)
    PROVE  Record(r) \in File
  <1>1. ASSUME NEW n \in Namespace
        PROVE  Record(r)[n] \in Entry \cup {NoEntry}
    <2>1. CASE n \in opt[r].scope
      <3>1. Record(r)[n] = Shown(seen[r][n])
        BY <2>1 DEF Record
      <3>2. seen[r][n] \in Export
        BY <2>1 DEF IsRead
      <3>. QED
        BY <3>1, <3>2, ShownTypes
    <2>2. CASE n \notin opt[r].scope /\ Recorded(held[r], n)
      <3>1. Record(r)[n] = held[r][n]
        BY <2>2 DEF Record
      <3>2. held[r] \in File
        BY <2>2 DEF TypeOK, Recorded
      <3>. QED
        BY <3>1, <3>2 DEF File
    <2>3. CASE n \notin opt[r].scope /\ ~Recorded(held[r], n)
      BY <2>3 DEF Record
    <2>. QED
      BY <2>1, <2>2, <2>3
  <1>2. Record(r) = [n \in Namespace |-> Record(r)[n]]
    BY DEF Record
  <1>. QED
    BY <1>1, <1>2 DEF File

LEMMA ChangeTypeOK ==
    ASSUME Assumptions, TypeOK,
           \/ \E n \in Namespace : Tamper(n) \/ Reconcile(n)
           \/ \E n \in Namespace, p \in Plain : Drift(n, p)
           \/ RotateKey
    PROVE  /\ TypeOK' /\ UNCHANGED <<file, runs>> /\ made <= made' /\ made \in Nat /\ made' \in Nat
  <1>1. MaxVersions \in Nat \ {0} /\ MaxKeys \in Nat \ {0} /\ MaxChanges \in Nat /\ Consumers \subseteq Namespace
    BY DEF Assumptions, DriftAssumption
  <1>2. /\ live \in [Namespace -> Live] /\ cache \in [Namespace -> Live] /\ want \in [Namespace -> Version]
        /\ key \in 1 .. MaxKeys /\ made \in Version /\ changes \in 0 .. MaxChanges /\ alarm \subseteq Namespace
    BY DEF TypeOK
  <1>3. UNCHANGED <<file, runs>>
    BY DEF Tamper, Reconcile, Drift, RotateKey, Changed
  <1>4. changes < MaxChanges /\ changes' = changes + 1 /\ changes' \in 0 .. MaxChanges
    BY <1>1, <1>2 DEF Tamper, Reconcile, Drift, RotateKey, Changed
  <1>5. ASSUME NEW n \in Namespace, NEW row \in Live, Changed(n, row)
        PROVE  live' \in [Namespace -> Live] /\ cache' \in [Namespace -> Live] /\ key' = key
    BY <1>2, <1>5 DEF Changed
  <1>6. \A n \in Namespace : live[n] \in Live
    BY <1>2
  <1>7. /\ live' \in [Namespace -> Live] /\ cache' \in [Namespace -> Live] /\ want' \in [Namespace -> Version]
        /\ key' \in 1 .. MaxKeys /\ made' \in Version /\ made <= made' /\ alarm' \subseteq Namespace
    <2>. DEFINE WorldOK ==
                  /\ live' \in [Namespace -> Live] /\ cache' \in [Namespace -> Live]
                  /\ want' \in [Namespace -> Version] /\ key' \in 1 .. MaxKeys
                  /\ made' \in Version /\ made <= made' /\ alarm' \subseteq Namespace
    <2>0. 0 \in Version /\ made \in Nat /\ (made < MaxVersions => made + 1 \in Version)
      BY <1>1, <1>2 DEF Version
    <2>1. ASSUME NEW n \in Namespace, Tamper(n)
          PROVE  WorldOK
      <3>1. PICK v \in Version : /\ Changed(n, [live[n] EXCEPT !.secret = v])
                                 /\ made' \in Version /\ made <= made'
        BY <2>0, <2>1, <1>2 DEF Tamper
      <3>2. [live[n] EXCEPT !.secret = v] \in Live
        BY <1>6 DEF Live
      <3>3. UNCHANGED <<want, alarm>>
        BY <2>1 DEF Tamper
      <3>. QED
        BY <1>2, <1>5, <3>1, <3>2, <3>3
    <2>2. ASSUME NEW n \in Namespace, NEW p \in Plain, Drift(n, p)
          PROVE  WorldOK
      <3>1. [live[n] EXCEPT !.plain = p] \in Live
        BY <1>6 DEF Live
      <3>. QED
        BY <1>2, <1>5, <2>0, <2>2, <3>1 DEF Drift
    <2>3. ASSUME NEW n \in Namespace, Reconcile(n)
          PROVE  WorldOK
      <3>1. want' \in [Namespace -> Version] /\ made' \in Version /\ made <= made'
        BY <1>2, <2>0, <2>3 DEF Reconcile
      <3>2. [secret |-> want'[n], plain |-> "same"] \in Live
        BY <3>1 DEF Live, Plain
      <3>. QED
        BY <1>2, <1>5, <2>3, <3>1, <3>2 DEF Reconcile
    <2>4. CASE RotateKey
      BY <1>1, <1>2, <2>0, <2>4 DEF RotateKey
    <2>. QED
      BY <2>1, <2>2, <2>3, <2>4
  <1>8. made \in Nat /\ made' \in Nat
    BY <1>1, <1>2, <1>7 DEF Version
  <1>. QED
    BY <1>3, <1>4, <1>7, <1>8 DEF TypeOK, runs

-----------------------------------------------------------------------------
(* What a run concludes is said of its options, its baseline and its       *)
(* answers, and of nothing else.                                           *)

SameAnswers(r) == /\ opt'[r] = opt[r] /\ base'[r] = base[r]
                  /\ desired'[r] = desired[r] /\ seen'[r] = seen[r]

LEMMA SameVerdict ==
    ASSUME NEW r \in Run, SameAnswers(r)
    PROVE  /\ IsRead(r)' <=> IsRead(r)
           /\ MaskInv(r)' <=> MaskInv(r)
           /\ Cached(r)' <=> Cached(r)
           /\ Refused(r)' <=> Refused(r)
           /\ Code(r)' = Code(r)
           /\ InSync(r)' <=> InSync(r)
  <1>. USE DEF SameAnswers
  <1>1. (IsRead(r)' <=> IsRead(r)) /\ (Cached(r)' <=> Cached(r))
    BY DEF IsRead, Cached
  <1>2. MaskInv(r)' <=> MaskInv(r)
    BY DEF MaskInv
  <1>3. Uncompared(r)' = Uncompared(r)
    BY DEF Uncompared
  <1>4. \A n : /\ NotYetRecorded(r, n)' <=> NotYetRecorded(r, n)
               /\ KeyChanged(r, n)' <=> KeyChanged(r, n)
               /\ Compared(r, n)' <=> Compared(r, n)
               /\ Unsealed(r, n)' <=> Unsealed(r, n)
               /\ SecretDiffers(r, n)' <=> SecretDiffers(r, n)
               /\ Visible(r, n)' <=> Visible(r, n)
    BY DEF NotYetRecorded, KeyChanged, Compared, Unsealed, SecretDiffers, Visible, Recorded
  <1>5. SecretChanges(r)' = SecretChanges(r)
    BY <1>4 DEF SecretChanges, Shown
  <1>6. Found(r)' = Found(r)
    BY <1>4 DEF Found
  <1>7. \A c : Alerted(r, c)' <=> Alerted(r, c)
    BY DEF Alerted
  <1>8. (Complete(r)' <=> Complete(r)) /\ (Invalidated(r)' <=> Invalidated(r))
        /\ (AnyKeyChanged(r)' <=> AnyKeyChanged(r)) /\ (Masked(r)' <=> Masked(r))
    BY <1>3, <1>4 DEF Complete, Invalidated, AnyKeyChanged, Masked, Recorded
  <1>9. Verified(r)' <=> Verified(r)
    BY <1>3, <1>8 DEF Verified
  <1>10. (Diffs(r)' <=> Diffs(r)) /\ (HasDrift(r)' <=> HasDrift(r))
    BY <1>4, <1>5, <1>6, <1>7 DEF Diffs, HasDrift
  <1>11. Refused(r)' <=> Refused(r)
    BY <1>5, <1>10 DEF Refused
  <1>12. Outcome(r)' = Outcome(r)
    BY <1>8, <1>9, <1>10 DEF Outcome
  <1>13. Code(r)' = Code(r)
    BY <1>11, <1>12 DEF Code
  <1>14. InSync(r)' <=> InSync(r)
    BY <1>1, <1>5, <1>6, <1>8, <1>9, <1>10 DEF InSync
  <1>. QED
    BY <1>1, <1>2, <1>11, <1>13, <1>14

Rests(r) == /\ SameAnswers(r) /\ pc'[r] = pc[r]
            /\ wrote'[r] = wrote[r] /\ exit'[r] = exit[r] /\ inSync'[r] = inSync[r]

LEMMA RunAtRest ==
    ASSUME NEW r \in Run, FreshInv(r) /\ MaskInv(r) /\ EndInv(r), Rests(r)
    PROVE  (FreshInv(r) /\ MaskInv(r) /\ EndInv(r))'
  <1>1. /\ IsRead(r)' <=> IsRead(r)
        /\ MaskInv(r)' <=> MaskInv(r)
        /\ Cached(r)' <=> Cached(r)
        /\ Refused(r)' <=> Refused(r)
        /\ Code(r)' = Code(r)
        /\ InSync(r)' <=> InSync(r)
    BY SameVerdict DEF Rests
  <1>2. FreshInv(r)'
    BY DEF FreshInv, Rests, SameAnswers
  <1>3. EndInv(r)'
    BY <1>1 DEF EndInv, Rests, SameAnswers
  <1>. QED
    BY <1>1, <1>2, <1>3

LEMMA OthersRest ==
    ASSUME RunInv, NEW q \in Run, \A r \in Run \ {q} : Rests(r),
           (FreshInv(q) /\ MaskInv(q) /\ EndInv(q))'
    PROVE  RunInv'
  <1>1. ASSUME NEW r \in Run
        PROVE  (FreshInv(r) /\ MaskInv(r) /\ EndInv(r))'
    <2>1. CASE r = q
      BY <2>1
    <2>2. CASE r # q
      BY <2>2, RunAtRest DEF RunInv
    <2>. QED
      BY <2>1, <2>2
  <1>. QED
    BY <1>1 DEF RunInv

(* The steps of a run.                                                     *)

LEMMA StartStep ==
    ASSUME Assumptions, TypeOK, RunInv, NEW q \in Run, Start(q)
    PROVE  TypeOK' /\ RunInv'
  <1>1. PICK o \in Options :
        /\ pc[q] = "start"
        /\ opt' = [opt EXCEPT ![q] = o]
        /\ IF ~o.export /\ ExportOnly(o)
           THEN /\ exit' = [exit EXCEPT ![q] = 1] /\ pc' = [pc EXCEPT ![q] = "done"]
                /\ UNCHANGED <<base, desired>>
           ELSE /\ base' = [base EXCEPT ![q] = IF o.read THEN file ELSE NoFile]
                /\ desired' = [desired EXCEPT ![q] = want]
                /\ pc' = [pc EXCEPT ![q] = "read"] /\ UNCHANGED exit
        /\ UNCHANGED <<world, file, seen, held, wrote, inSync, alarm>>
    BY DEF Start
  <1>2. UNCHANGED <<live, cache, want, key, made, changes>>
    BY <1>1 DEF world
  <1>3. TypeOK'
    <2>0. /\ pc \in [Run -> Steps] /\ opt \in [Run -> Options] /\ exit \in [Run -> {-1, 0, 1, 2, 6}]
          /\ base \in [Run -> File \cup {NoFile}] /\ file \in File \cup {NoFile}
          /\ desired \in [Run -> [Namespace -> Version]] /\ want \in [Namespace -> Version]
          /\ "done" \in Steps /\ "read" \in Steps
      BY DEF TypeOK, Steps
    <2>1. /\ pc' \in [Run -> Steps] /\ opt' \in [Run -> Options]
          /\ base' \in [Run -> File \cup {NoFile}]
          /\ desired' \in [Run -> [Namespace -> Version]] /\ exit' \in [Run -> {-1, 0, 1, 2, 6}]
      <3>1. CASE ~o.export /\ ExportOnly(o)
        BY <1>1, <2>0, <3>1
      <3>2. CASE ~(~o.export /\ ExportOnly(o))
        BY <1>1, <2>0, <3>2
      <3>. QED
        BY <3>1, <3>2
    <2>. QED
      BY <1>1, <1>2, <2>1 DEF TypeOK
  <1>4. \A r \in Run \ {q} : Rests(r)
    BY <1>1 DEF TypeOK, Rests, SameAnswers
  <1>5. (FreshInv(q) /\ MaskInv(q) /\ EndInv(q))'
    <2>1. FreshInv(q) /\ \A n \in Namespace : seen[q][n] = NotRead
      BY <1>1 DEF RunInv, FreshInv
    <2>2. /\ opt'[q] = o /\ wrote'[q] = wrote[q] /\ inSync'[q] = inSync[q] /\ seen' = seen
          /\ ~wrote[q] /\ ~inSync[q]
      BY <1>1, <2>1 DEF TypeOK, FreshInv
    <2>3. \/ pc'[q] = "done" /\ exit'[q] = 1
          \/ pc'[q] = "read" /\ (o.read => o.export)
      BY <1>1 DEF TypeOK, ExportOnly
    <2>4. FreshInv(q)'
      BY <2>2, <2>3 DEF FreshInv
    <2>5. MaskInv(q)'
      BY <2>1, <2>2 DEF MaskInv
    <2>6. EndInv(q)'
      BY <2>2, <2>3 DEF EndInv
    <2>. QED
      BY <2>4, <2>5, <2>6
  <1>. QED
    BY <1>3, <1>4, <1>5, OthersRest

LEMMA ReadStep ==
    ASSUME Assumptions, TypeOK, RunInv, NEW q \in Run, Read(q)
    PROVE  TypeOK' /\ RunInv'
  <1>1. PICK n \in opt[q].scope, k \in Quality :
        /\ pc[q] = "read" /\ seen[q][n] = NotRead
        /\ k \in {"unsealed", "masked"} => n \in Consumers /\ opt[q].export
        /\ seen' = [seen EXCEPT ![q][n] = Answer(n, k)]
        /\ pc' = [pc EXCEPT ![q] =
            IF \A m \in opt[q].scope \ {n} : seen[q][m] # NotRead THEN "conclude" ELSE "read"]
        /\ UNCHANGED <<world, file, opt, base, desired, held, wrote, exit, inSync, alarm>>
    BY DEF Read
  <1>2. UNCHANGED <<live, cache, want, key, made, changes>> /\ n \in Namespace
        /\ opt[q].scope \subseteq Namespace
    BY <1>1, OptionTypes DEF world, TypeOK
  <1>3. Answer(n, k) \in Export /\ Answer(n, k).quality = k
    BY <1>1, <1>2 DEF TypeOK, Answer, Export, Live
  <1>4. /\ seen' \in [Run -> [Namespace -> Export \cup {NotRead}]] /\ pc' \in [Run -> Steps]
        /\ seen'[q][n] = Answer(n, k) /\ \A m \in Namespace \ {n} : seen'[q][m] = seen[q][m]
        /\ \A r \in Run \ {q} : seen'[r] = seen[r] /\ pc'[r] = pc[r]
        /\ pc'[q] = IF \A m \in opt[q].scope \ {n} : seen[q][m] # NotRead
                    THEN "conclude" ELSE "read"
    BY <1>1, <1>2, <1>3 DEF TypeOK, Steps
  <1>5. TypeOK'
    BY <1>1, <1>2, <1>4 DEF TypeOK
  <1>6. \A r \in Run \ {q} : Rests(r)
    BY <1>1, <1>4 DEF Rests, SameAnswers
  <1>7. (FreshInv(q) /\ MaskInv(q) /\ EndInv(q))'
    <2>1. FreshInv(q) /\ MaskInv(q) /\ EndInv(q)
      BY DEF RunInv
    <2>2. FreshInv(q)'
      BY <1>1, <1>4, <2>1 DEF FreshInv
    <2>3. MaskInv(q)'
      BY <1>1, <1>3, <1>4, <2>1 DEF MaskInv
    <2>4. pc'[q] = "conclude" => IsRead(q)'
      <3>1. ASSUME pc'[q] = "conclude", NEW m \in opt[q].scope
            PROVE  seen'[q][m] \in Export
        <4>1. CASE m = n
          BY <1>3, <1>4, <4>1
        <4>2. CASE m # n
          <5>1. m \in Namespace /\ seen[q][m] # NotRead /\ seen'[q][m] = seen[q][m]
            BY <1>2, <1>4, <3>1, <4>2
          <5>. QED
            BY <5>1 DEF TypeOK
        <4>. QED
          BY <4>1, <4>2
      <3>. QED
        BY <1>1, <3>1 DEF IsRead
    <2>5. EndInv(q)'
      BY <1>1, <1>4, <2>1, <2>4 DEF EndInv
    <2>. QED
      BY <2>2, <2>3, <2>5
  <1>. QED
    BY <1>5, <1>6, <1>7, OthersRest

(* A run that ends: with an error of its own, or with its verdict.         *)
LEMMA EndStep ==
    ASSUME Assumptions, TypeOK, RunInv, NEW q \in Run, NEW code \in {1, Code(q)}, End(q, code),
           pc[q] # "start", pc[q] # "done", UNCHANGED <<world, opt, base, desired, seen>>,
           code # 1 => pc[q] \in {"conclude", "rename"},
           \A r \in Run \ {q} : wrote'[r] = wrote[r] /\ inSync'[r] = inSync[r],
           code # 1 => (Cached(q) => ~opt[q].exitOnDrift),
           code # 1 => (opt[q].write => wrote'[q] \/ Refused(q)),
           inSync'[q] => IsRead(q) /\ InSync(q), wrote'[q] => IsRead(q) /\ ~Cached(q)
    PROVE  RunInv' /\ pc' \in [Run -> Steps] /\ exit' \in [Run -> {-1, 0, 1, 2, 6}]
  <1>1. exit' = [exit EXCEPT ![q] = code] /\ pc' = [pc EXCEPT ![q] = "done"]
    BY DEF End
  <1>2. code \in {0, 1, 2, 6}
    BY CodeIsExit
  <1>3. /\ pc' \in [Run -> Steps] /\ exit' \in [Run -> {-1, 0, 1, 2, 6}]
        /\ pc'[q] = "done" /\ exit'[q] = code
        /\ \A r \in Run \ {q} : pc'[r] = pc[r] /\ exit'[r] = exit[r]
    BY <1>1, <1>2 DEF TypeOK, Steps
  <1>4. \A r \in Run \ {q} : Rests(r)
    BY <1>3 DEF Rests, SameAnswers
  <1>5. /\ IsRead(q)' <=> IsRead(q)
        /\ MaskInv(q)' <=> MaskInv(q)
        /\ Cached(q)' <=> Cached(q)
        /\ Refused(q)' <=> Refused(q)
        /\ Code(q)' = Code(q)
        /\ InSync(q)' <=> InSync(q)
    BY SameVerdict DEF SameAnswers
  <1>6. FreshInv(q) /\ MaskInv(q) /\ EndInv(q)
    BY DEF RunInv
  <1>7. opt' = opt /\ seen' = seen
    OBVIOUS
  <1>8. FreshInv(q)'
    BY <1>3, <1>6, <1>7 DEF FreshInv
  <1>9. code # 1 => IsRead(q)
    BY <1>6 DEF EndInv
  <1>10. EndInv(q)'
    BY <1>3, <1>5, <1>7, <1>9 DEF EndInv
  <1>11. RunInv'
    BY <1>4, <1>5, <1>6, <1>8, <1>10, OthersRest
  <1>. QED
    BY <1>3, <1>11

LEMMA FailStep ==
    ASSUME Assumptions, TypeOK, RunInv, NEW q \in Run, ReadFails(q) \/ RefuseCached(q)
    PROVE  TypeOK' /\ RunInv'
  <1>1. /\ pc[q] \in {"read", "conclude"} /\ End(q, 1)
        /\ UNCHANGED <<world, file, opt, base, desired, seen, held, wrote, inSync, alarm>>
    BY DEF ReadFails, RefuseCached
  <1>2. ~wrote[q] /\ ~inSync[q]
    BY <1>1 DEF RunInv, FreshInv
  <1>3. RunInv' /\ pc' \in [Run -> Steps] /\ exit' \in [Run -> {-1, 0, 1, 2, 6}]
    BY <1>1, <1>2, EndStep
  <1>. QED
    BY <1>1, <1>3 DEF TypeOK, world

LEMMA ConcludeStep ==
    ASSUME Assumptions, TypeOK, RunInv, NEW q \in Run, Conclude(q)
    PROVE  TypeOK' /\ RunInv'
  <1>1. PICK empty \in BOOLEAN :
        /\ pc[q] = "conclude"
        /\ ~(Cached(q) /\ (opt[q].exitOnDrift \/ opt[q].write))
        /\ ~opt[q].write \/ Refused(q)
        /\ Report(q) /\ End(q, IF empty THEN 1 ELSE Code(q))
        /\ UNCHANGED <<world, file, opt, base, desired, seen, held, wrote>>
    BY DEF Conclude
  <1>2. ~wrote[q] /\ ~inSync[q] /\ IsRead(q)
    BY <1>1 DEF RunInv, FreshInv, EndInv
  <1>3. /\ inSync' \in [Run -> BOOLEAN] /\ inSync'[q] = InSync(q)
        /\ \A r \in Run \ {q} : inSync'[r] = inSync[r]
    BY <1>1 DEF Report, TypeOK, InSync
  <1>4. RunInv' /\ pc' \in [Run -> Steps] /\ exit' \in [Run -> {-1, 0, 1, 2, 6}]
    <2>. DEFINE code == IF empty THEN 1 ELSE Code(q)
    <2>1. code \in {1, Code(q)} /\ End(q, code)
      BY <1>1
    <2>. HIDE DEF code
    <2>. QED
      BY <1>1, <1>2, <1>3, <2>1, EndStep
  <1>5. alarm' \subseteq Namespace
    <2>1. opt[q].scope \subseteq Namespace
      BY OptionTypes DEF TypeOK
    <2>. QED
      BY <1>1, <2>1 DEF Report, Alarming, SecretChanges, TypeOK
  <1>. QED
    BY <1>1, <1>3, <1>4, <1>5 DEF TypeOK, world

LEMMA LoadStep ==
    ASSUME Assumptions, TypeOK, RunInv, NEW q \in Run, LoadExisting(q)
    PROVE  TypeOK' /\ RunInv'
  <1>1. /\ pc[q] = "conclude" /\ ~Cached(q) /\ opt[q].write /\ ~Refused(q)
        /\ held' = [held EXCEPT ![q] = file]
        /\ pc' = [pc EXCEPT ![q] = "rename"]
        /\ UNCHANGED <<world, file, opt, base, desired, seen, wrote, exit, inSync, alarm>>
    BY DEF LoadExisting
  <1>2. /\ pc' \in [Run -> Steps] /\ held' \in [Run -> File \cup {NoFile}] /\ pc'[q] = "rename"
        /\ \A r \in Run \ {q} : pc'[r] = pc[r]
    BY <1>1 DEF TypeOK, Steps
  <1>3. \A r \in Run \ {q} : Rests(r)
    BY <1>1, <1>2 DEF Rests, SameAnswers
  <1>4. /\ IsRead(q)' <=> IsRead(q)
        /\ MaskInv(q)' <=> MaskInv(q)
        /\ Cached(q)' <=> Cached(q)
        /\ Refused(q)' <=> Refused(q)
    BY <1>1, SameVerdict DEF SameAnswers
  <1>5. FreshInv(q) /\ MaskInv(q) /\ EndInv(q)
    BY DEF RunInv
  <1>6. FreshInv(q)'
    BY <1>1, <1>2, <1>5 DEF FreshInv
  <1>7. EndInv(q)'
    BY <1>1, <1>2, <1>4, <1>5 DEF EndInv
  <1>8. RunInv'
    BY <1>3, <1>4, <1>5, <1>6, <1>7, OthersRest
  <1>. QED
    BY <1>1, <1>2, <1>8 DEF TypeOK, world

LEMMA RenameStep ==
    ASSUME Assumptions, TypeOK, RunInv, NEW q \in Run, Rename(q)
    PROVE  TypeOK' /\ RunInv'
  <1>1. PICK empty \in BOOLEAN :
        /\ pc[q] = "rename" /\ file' = Record(q)
        /\ wrote' = [wrote EXCEPT ![q] = TRUE]
        /\ inSync' = [inSync EXCEPT ![q] = InSync(q)]
        /\ alarm' = {n \in alarm : n \in opt[q].scope => Record(q)[n] = file[n]}
        /\ End(q, IF empty THEN 1 ELSE Code(q))
        /\ UNCHANGED <<world, opt, base, desired, seen, held>>
    BY DEF Rename
  <1>2. IsRead(q) /\ ~Cached(q) /\ opt[q].write /\ ~Refused(q)
    BY <1>1 DEF RunInv, EndInv
  <1>3. /\ inSync' \in [Run -> BOOLEAN] /\ inSync'[q] = InSync(q)
        /\ wrote' \in [Run -> BOOLEAN] /\ wrote'[q]
        /\ \A r \in Run \ {q} : inSync'[r] = inSync[r] /\ wrote'[r] = wrote[r]
    BY <1>1 DEF TypeOK, InSync
  <1>4. RunInv' /\ pc' \in [Run -> Steps] /\ exit' \in [Run -> {-1, 0, 1, 2, 6}]
    <2>. DEFINE code == IF empty THEN 1 ELSE Code(q)
    <2>1. code \in {1, Code(q)} /\ End(q, code)
      BY <1>1
    <2>. HIDE DEF code
    <2>. QED
      BY <1>1, <1>2, <1>3, <2>1, EndStep
  <1>5. file' \in File \cup {NoFile} /\ alarm' \subseteq Namespace
    BY <1>1, <1>2, RecordIsFile DEF TypeOK
  <1>. QED
    BY <1>1, <1>3, <1>4, <1>5 DEF TypeOK, world

LEMMA AgainStep ==
    ASSUME Assumptions, TypeOK, RunInv, NEW q \in Run, Again(q)
    PROVE  TypeOK' /\ RunInv'
  <1>1. /\ pc[q] = "done"
        /\ pc' = [pc EXCEPT ![q] = "start"] /\ opt' = [opt EXCEPT ![q] = NoOption]
        /\ base' = [base EXCEPT ![q] = NoFile] /\ held' = [held EXCEPT ![q] = NoFile]
        /\ desired' = [desired EXCEPT ![q] = [n \in Namespace |-> 1]]
        /\ seen' = [seen EXCEPT ![q] = [n \in Namespace |-> NotRead]]
        /\ wrote' = [wrote EXCEPT ![q] = FALSE] /\ exit' = [exit EXCEPT ![q] = -1]
        /\ inSync' = [inSync EXCEPT ![q] = FALSE]
        /\ UNCHANGED <<world, file, alarm>>
    BY DEF Again
  <1>2. [n \in Namespace |-> 1] \in [Namespace -> Version] /\ NoOption \in Options
    BY NoOptionIsOne DEF Version, Assumptions, DriftAssumption
  <1>3. /\ pc' \in [Run -> Steps] /\ opt' \in [Run -> Options]
        /\ base' \in [Run -> File \cup {NoFile}] /\ held' \in [Run -> File \cup {NoFile}]
        /\ desired' \in [Run -> [Namespace -> Version]]
        /\ seen' \in [Run -> [Namespace -> Export \cup {NotRead}]]
        /\ wrote' \in [Run -> BOOLEAN] /\ inSync' \in [Run -> BOOLEAN]
        /\ exit' \in [Run -> {-1, 0, 1, 2, 6}]
    BY <1>1, <1>2 DEF TypeOK, Steps
  <1>4. \A r \in Run \ {q} : Rests(r)
    BY <1>1 DEF TypeOK, Rests, SameAnswers
  <1>5. /\ pc'[q] = "start" /\ ~wrote'[q] /\ ~inSync'[q]
        /\ \A n \in Namespace : seen'[q][n] = NotRead
    BY <1>1 DEF TypeOK
  <1>6. (FreshInv(q) /\ MaskInv(q) /\ EndInv(q))'
    BY <1>5 DEF FreshInv, MaskInv, EndInv
  <1>7. RunInv'
    BY <1>4, <1>6, OthersRest
  <1>. QED
    BY <1>1, <1>3, <1>7 DEF TypeOK, world

-----------------------------------------------------------------------------

RunStep(r) == \/ Start(r) \/ Read(r) \/ ReadFails(r) \/ RefuseCached(r) \/ Conclude(r)
              \/ LoadExisting(r) \/ Rename(r) \/ Again(r)
WorldStep == \/ \E n \in Namespace : Tamper(n) \/ Reconcile(n)
             \/ \E n \in Namespace, p \in Plain : Drift(n, p)
             \/ RotateKey

LEMMA NextCases == Next => WorldStep \/ \E r \in Run : RunStep(r)
  BY DEF Next, WorldStep, RunStep

LEMMA RunInvStep ==
    ASSUME Assumptions, TypeOK, RunInv, [Next]_vars
    PROVE  TypeOK' /\ RunInv'
  <1>1. CASE WorldStep
    <2>1. TypeOK' /\ UNCHANGED <<file, runs>>
      BY <1>1, ChangeTypeOK DEF WorldStep
    <2>2. \A r \in Run : Rests(r)
      BY <2>1 DEF runs, Rests, SameAnswers
    <2>. QED
      BY <2>1, <2>2, RunAtRest DEF RunInv
  <1>2. ASSUME NEW r \in Run, RunStep(r)
        PROVE  TypeOK' /\ RunInv'
    BY <1>2, StartStep, ReadStep, FailStep, ConcludeStep, LoadStep, RenameStep, AgainStep
       DEF RunStep
  <1>3. CASE UNCHANGED vars
    <2>1. UNCHANGED <<live, cache, want, key, made, changes, file, held, alarm>>
          /\ UNCHANGED <<pc, opt, base, desired, seen, wrote, exit, inSync>>
      BY <1>3 DEF vars, world, runs
    <2>2. \A r \in Run : Rests(r)
      BY <2>1 DEF Rests, SameAnswers
    <2>. QED
      BY <2>1, <2>2, RunAtRest DEF RunInv, TypeOK
  <1>. QED
    BY <1>1, <1>2, <1>3, NextCases

LEMMA InitRunInv == ASSUME Init PROVE RunInv
  <1>1. \A r \in Run : /\ pc[r] = "start" /\ ~wrote[r] /\ ~inSync[r]
                        /\ \A n \in Namespace : seen[r][n] = NotRead
    BY DEF Init
  <1>. QED
    BY <1>1 DEF RunInv, FreshInv, MaskInv, EndInv

-----------------------------------------------------------------------------
(* What the verdict of a run says of its answers.                          *)

LEMMA AnswerTypes ==
    ASSUME Assumptions, TypeOK, NEW r \in Run, IsRead(r), NEW n \in opt[r].scope
    PROVE  /\ n \in Namespace /\ seen[r][n] \in Export /\ seen[r][n] # NotRead
           /\ seen[r][n].quality \in Quality /\ seen[r][n].plain \in Plain
           /\ opt[r].export \in BOOLEAN /\ opt[r].scope \subseteq Namespace
  <1>1. opt[r] \in Options /\ opt[r].export \in BOOLEAN /\ opt[r].scope \subseteq Namespace
    BY OptionTypes DEF TypeOK
  <1>2. seen[r][n] \in Export /\ seen[r][n] # NotRead
    BY DEF IsRead, Assumptions, AbsenceAssumption
  <1>3. seen[r][n].quality \in Quality /\ seen[r][n].plain \in Plain
    BY <1>2 DEF Export
  <1>. QED
    BY <1>1, <1>2, <1>3

(* A run that found no difference has none it alerts on in any namespace,  *)
(* but for one the export hid inside a masked value.                       *)
LEMMA WithoutDrift ==
    ASSUME Assumptions, TypeOK, NEW r \in Run, IsRead(r), ~HasDrift(r), NEW n \in opt[r].scope
    PROVE  /\ Differs(r, n) => \/ seen[r][n].quality = "cached"
                               \/ /\ seen[r][n].plain = "buried" /\ opt[r].export
                                  /\ seen[r][n].quality = "masked" /\ seen[r][n].secret # 0
           /\ n \in Consumers /\ Alerted(r, "managed_modified") =>
                  /\ seen[r][n].secret # 0 /\ n \notin SecretChanges(r)
                  /\ ~opt[r].export /\ opt[r].bundle => seen[r][n].secret = desired[r][n]
  <1>1. /\ seen[r][n].plain \in Plain /\ opt[r].export \in BOOLEAN
    BY AnswerTypes
  <1>2. Visible(r, n) => seen[r][n].plain \in Found(r)
    BY DEF Found
  <1>3. Visible(r, n) => ~Differs(r, n)
    <2>1. /\ Alerted(r, "managed_modified") => Found(r) \cap {"modified", "buried", "missing"} = {}
          /\ Alerted(r, "managed_deleted") => "prunable" \notin Found(r)
          /\ Alerted(r, "unmanaged_added") => "unmanaged" \notin Found(r)
          /\ "conflict" \notin Found(r)
      BY DEF HasDrift
    <2>. QED
      BY <1>1, <1>2, <2>1 DEF Differs
  <1>4. Differs(r, n) => seen[r][n].plain # "same"
    BY DEF Differs
  <1>5. Differs(r, n) /\ ~Visible(r, n) =>
            \/ seen[r][n].quality = "cached"
            \/ /\ seen[r][n].plain = "buried" /\ opt[r].export
               /\ seen[r][n].quality = "masked" /\ seen[r][n].secret # 0
    BY <1>1, <1>4 DEF Differs, Visible
  <1>6. ASSUME n \in Consumers, Alerted(r, "managed_modified")
        PROVE  /\ seen[r][n].secret # 0 /\ n \notin SecretChanges(r)
               /\ ~opt[r].export /\ opt[r].bundle => seen[r][n].secret = desired[r][n]
    <2>1. ~SecretDiffers(r, n) /\ SecretChanges(r) = {}
      BY <1>6 DEF HasDrift
    <2>. QED
      BY <1>6, <2>1 DEF SecretDiffers
  <1>. QED
    BY <1>3, <1>5, <1>6

(* Secrets an export verified are the ones its baseline recorded.          *)
LEMMA VerifiedSecret ==
    ASSUME Assumptions, TypeOK, NEW r \in Run, IsRead(r), Verified(r), NEW n \in opt[r].scope,
           n \in Consumers, opt[r].export, seen[r][n].secret # 0, n \notin SecretChanges(r),
           ~Masked(r)
    PROVE  /\ Recorded(base[r], n) /\ ~Unsealed(r, n) /\ seen[r][n].quality # "cached"
           /\ base[r][n] = Sealed(seen[r][n])
  <1>1. n \in Uncompared(r)
    BY DEF Uncompared
  <1>2. Complete(r)
    BY <1>1 DEF Verified
  <1>3. Compared(r, n) /\ ~Unsealed(r, n) /\ ~NotYetRecorded(r, n)
    BY <1>2 DEF Complete
  <1>4. Recorded(base[r], n) /\ base[r][n].key = seen[r][n].key /\ seen[r][n].quality # "cached"
    BY <1>3 DEF Compared, KeyChanged
  <1>5. base[r][n].secret # 0
    BY <1>3 DEF NotYetRecorded
  <1>6. base[r][n] = Shown(seen[r][n])
    BY <1>3, <1>5 DEF SecretChanges
  <1>7. seen[r][n].quality \notin {"unsealed", "masked"}
    BY <1>1, <1>3 DEF Unsealed, Masked
  <1>8. Shown(seen[r][n]) = Sealed(seen[r][n])
    BY <1>7 DEF Shown, Sealed
  <1>. QED
    BY <1>3, <1>4, <1>6, <1>8

(* A decided run that ends with 0 or 6 met nothing of this.                *)
LEMMA Unalarmed ==
    ASSUME Assumptions, TypeOK, RunInv, NEW r \in Run, Decided(r), exit[r] \in {0, 6}
    PROVE  /\ IsRead(r) /\ ~Cached(r) /\ ~HasDrift(r) /\ ~Refused(r) /\ ~(opt[r].export /\ Masked(r))
           /\ exit[r] = 0 => Verified(r) \/ opt[r].accept
           /\ exit[r] = 6 => ~Verified(r) /\ ~opt[r].accept /\ ~Invalidated(r)
           /\ \A n \in opt[r].scope : seen[r][n].quality # "cached"
  <1>1. EndInv(r) /\ pc[r] = "done" /\ opt[r].exitOnDrift /\ exit[r] # 1
    BY DEF RunInv, Decided
  <1>2. IsRead(r) /\ exit[r] = Code(r) /\ ~Cached(r)
    BY <1>1 DEF EndInv
  <1>3. Outcome(r) \notin {"drift", "masked", "invalidated"} /\ ~Refused(r)
    BY <1>1, <1>2 DEF Code
  <1>4. (exit[r] = 0 => Outcome(r) = "insync") /\ (exit[r] = 6 => Outcome(r) # "insync")
    BY <1>1, <1>2, <1>3 DEF Code
  <1>. QED
    BY <1>2, <1>3, <1>4 DEF Outcome, Cached

LEMMA ZeroEarned == ASSUME Assumptions, TypeOK, RunInv PROVE ZeroIsEarned
  <1>1. SUFFICES ASSUME NEW r \in Run, Decided(r), exit[r] = 0, NEW n \in opt[r].scope
                 PROVE  /\ seen[r][n].quality # "cached"
                        /\ ~Differs(r, n)
                        /\ (n \in Consumers /\ Alerted(r, "managed_modified")) =>
                            IF opt[r].export
                            THEN opt[r].accept \/
                                 /\ Recorded(base[r], n)
                                 /\ base[r][n] = Sealed(seen[r][n])
                            ELSE opt[r].bundle => seen[r][n].secret = desired[r][n]
    BY DEF ZeroIsEarned
  <1>2. /\ IsRead(r) /\ ~HasDrift(r) /\ ~(opt[r].export /\ Masked(r))
        /\ Verified(r) \/ opt[r].accept
        /\ seen[r][n].quality # "cached"
    BY <1>1, Unalarmed
  <1>3. n \in Namespace /\ seen[r][n] # NotRead
    BY <1>2, AnswerTypes
  <1>4. ~Differs(r, n)
    <2>1. seen[r][n].quality = "masked" => n \in Consumers
      BY <1>3 DEF RunInv, MaskInv
    <2>2. opt[r].export => ~(seen[r][n].quality = "masked" /\ seen[r][n].secret # 0)
      BY <1>2, <2>1 DEF Masked, Uncompared
    <2>. QED
      BY <1>2, <2>2, WithoutDrift
  <1>5. ASSUME n \in Consumers, Alerted(r, "managed_modified"), opt[r].export, ~opt[r].accept
        PROVE  /\ Recorded(base[r], n)
               /\ base[r][n] = Sealed(seen[r][n])
    BY <1>2, <1>5, WithoutDrift, VerifiedSecret
  <1>6. n \in Consumers /\ Alerted(r, "managed_modified") /\ ~opt[r].export /\ opt[r].bundle
            => seen[r][n].secret = desired[r][n]
    BY <1>2, WithoutDrift
  <1>. QED
    BY <1>2, <1>4, <1>5, <1>6

LEMMA DriftReported == ASSUME Assumptions, TypeOK, RunInv PROVE DriftIsReported
  <1>1. SUFFICES ASSUME NEW r \in Run, Decided(r), exit[r] \in {0, 6}, NEW n \in opt[r].scope
                 PROVE  /\ Differs(r, n) => seen[r][n].plain = "buried" /\ seen[r][n].quality = "masked"
                        /\ seen[r][n].secret = 0 => ~Alerted(r, "managed_modified") \/ n \notin Consumers
    BY DEF DriftIsReported
  <1>2. IsRead(r) /\ ~HasDrift(r) /\ seen[r][n].quality # "cached"
    BY <1>1, Unalarmed
  <1>. QED
    BY <1>2, WithoutDrift

LEMMA CachedDecides == ASSUME Assumptions, TypeOK, RunInv PROVE CachedDecidesNothing
  <1>1. SUFFICES ASSUME NEW r \in Run, pc[r] = "done", NEW n \in opt[r].scope, seen[r][n] # NotRead,
                        seen[r][n].quality = "cached"
                 PROVE  (opt[r].exitOnDrift => exit[r] = 1) /\ ~inSync[r] /\ ~wrote[r]
    BY DEF CachedDecidesNothing
  <1>2. Cached(r)
    BY <1>1 DEF Cached
  <1>. QED
    BY <1>1, <1>2 DEF RunInv, EndInv, InSync

LEMMA SixIncremental == ASSUME Assumptions, TypeOK, RunInv PROVE SixIsIncremental
  <1>1. SUFFICES ASSUME NEW r \in Run, Decided(r), exit[r] = 6, opt[r].read
                 PROVE  /\ base[r] # NoFile
                        /\ \A n \in opt[r].scope : base[r][n] # NoEntry =>
                            /\ base[r][n].key = seen[r][n].key
                            /\ ~(n \in Consumers /\ seen[r][n].secret # 0 /\ seen[r][n].quality = "unsealed")
    BY DEF SixIsIncremental
  <1>2. ~Invalidated(r) /\ \A n \in opt[r].scope : seen[r][n].quality # "cached"
    BY <1>1, Unalarmed
  <1>3. base[r] # NoFile
    BY <1>1, <1>2 DEF Invalidated
  <1>4. ASSUME NEW n \in opt[r].scope, base[r][n] # NoEntry
        PROVE  /\ base[r][n].key = seen[r][n].key
               /\ ~(n \in Consumers /\ seen[r][n].secret # 0 /\ seen[r][n].quality = "unsealed")
    <2>1. Recorded(base[r], n)
      BY <1>3, <1>4 DEF Recorded
    <2>2. ~KeyChanged(r, n) /\ ~Unsealed(r, n)
      BY <1>1, <1>2, <2>1 DEF Invalidated
    <2>. QED
      BY <2>1, <2>2 DEF KeyChanged, Unsealed
  <1>. QED
    BY <1>3, <1>4

LEMMA RecordedOr == ASSUME Assumptions, TypeOK, RunInv PROVE RecordedOrRefused
  <1>1. SUFFICES ASSUME NEW r \in Run, pc[r] = "done", opt[r].write, exit[r] \in {0, 6}
                 PROVE  wrote[r]
    BY DEF RecordedOrRefused
  <1>2. EndInv(r) /\ exit[r] # 1
    BY <1>1 DEF RunInv
  <1>3. exit[r] = Code(r) /\ (wrote[r] \/ Refused(r))
    BY <1>1, <1>2 DEF EndInv
  <1>4. Refused(r) => Code(r) \in {1, 2}
    BY DEF Code
  <1>. QED
    BY <1>1, <1>3, <1>4

LEMMA InSyncWhole == ASSUME Assumptions, TypeOK, RunInv PROVE InSyncIsWhole
  <1>1. SUFFICES ASSUME NEW r \in Run, pc[r] = "done", inSync[r], NEW n \in opt[r].scope
                 PROVE  /\ seen[r][n].quality \in {"good", "unsealed"}
                        /\ seen[r][n].plain \in {"same"} \cup (IF opt[r].export THEN {"conflict"} ELSE {})
                        /\ (n \in Consumers /\ opt[r].export) =>
                            /\ seen[r][n].quality = "good" /\ Recorded(base[r], n)
                            /\ base[r][n] = Sealed(seen[r][n])
    BY DEF InSyncIsWhole
  <1>2. IsRead(r) /\ InSync(r)
    BY <1>1 DEF RunInv, EndInv
  <1>3. /\ n \in Namespace /\ seen[r][n] # NotRead
        /\ seen[r][n].quality \in Quality /\ seen[r][n].plain \in Plain /\ opt[r].export \in BOOLEAN
    BY <1>2, AnswerTypes
  <1>4. seen[r][n].quality \in {"unsealed", "masked"} => n \in Consumers /\ opt[r].export
    BY <1>3 DEF RunInv, MaskInv
  <1>5. /\ ~Diffs(r) /\ Found(r) \cap {"unmanaged", "conflict"} = {}
        /\ SecretChanges(r) = {} /\ Verified(r) /\ ~(opt[r].export /\ Masked(r))
        /\ seen[r][n].quality # "cached"
    BY <1>2 DEF InSync, Cached
  <1>6. n \in Consumers => seen[r][n].secret # 0
    BY <1>5 DEF Diffs, SecretDiffers
  <1>7. ~(opt[r].export /\ seen[r][n].quality = "masked")
    BY <1>4, <1>5, <1>6 DEF Masked, Uncompared
  <1>8. seen[r][n].quality \in {"good", "unsealed"}
    BY <1>3, <1>4, <1>5, <1>7 DEF Quality
  <1>9. seen[r][n].plain \in {"same"} \cup (IF opt[r].export THEN {"conflict"} ELSE {})
    <2>1. Visible(r, n) => seen[r][n].plain \in Found(r)
      BY DEF Found
    <2>2. Found(r) \cap {"modified", "buried", "missing", "prunable"} = {}
      BY <1>5 DEF Diffs
    <2>3. Visible(r, n) => seen[r][n].plain = "same"
      BY <1>3, <1>5, <2>1, <2>2 DEF Plain
    <2>. QED
      BY <1>3, <1>5, <1>7, <2>3 DEF Visible
  <1>10. n \in Consumers /\ opt[r].export =>
            /\ seen[r][n].quality = "good" /\ Recorded(base[r], n)
            /\ base[r][n] = Sealed(seen[r][n])
    BY <1>2, <1>5, <1>6, <1>8, VerifiedSecret DEF Unsealed
  <1>. QED
    BY <1>8, <1>9, <1>10

(* The verdicts of drift checks are earned, for any checks that overlap,   *)
(* any command lines, and whatever others do to the gateway meanwhile.     *)
THEOREM VerdictsAlwaysEarned ==
    ASSUME Assumptions PROVE Spec => []VerdictsAreEarned
  <1>1. Init => TypeOK /\ RunInv
    BY InitTypeOK, InitRunInv
  <1>2. TypeOK /\ RunInv /\ [Next]_vars => (TypeOK /\ RunInv)'
    BY RunInvStep
  <1>3. TypeOK /\ RunInv => VerdictsAreEarned
    BY ZeroEarned, DriftReported, CachedDecides, SixIncremental, RecordedOr, InSyncWhole
       DEF VerdictsAreEarned
  <1>. QED
    BY <1>1, <1>2, <1>3, PTL DEF Spec

-----------------------------------------------------------------------------
(* Versions.                                                               *)

LEMMA InitMadeInv == ASSUME Assumptions, Init PROVE MadeInv /\ FileInv /\ AlarmInv
  <1>1. /\ \A n \in Namespace : live[n].secret = 1 /\ cache[n].secret = 1 /\ want[n] = 1
        /\ made = 1 /\ file = NoFile /\ alarm = {}
        /\ \A r \in Run : /\ pc[r] = "start" /\ held[r] = NoFile
                           /\ \A n \in Namespace : seen[r][n] = NotRead
    BY DEF Init
  <1>2. 1 \in Made
    BY <1>1 DEF Made
  <1>. QED
    BY <1>1, <1>2 DEF MadeInv, FileInv, AlarmInv, Recorded

LEMMA ChangedRows ==
    ASSUME TypeOK, NEW n \in Namespace, NEW row, Changed(n, row)
    PROVE  /\ \A m \in Namespace : live'[m] = IF m = n THEN row ELSE live[m]
           /\ \A m \in Namespace : cache'[m] = IF m = n THEN live[n] ELSE cache[m]
  BY DEF Changed, TypeOK

LEMMA WorldMade ==
    ASSUME Assumptions, TypeOK, MadeInv, WorldStep
    PROVE  MadeInv'
  <1>1. /\ UNCHANGED <<file, runs>> /\ made <= made' /\ made \in Nat /\ made' \in Nat
    BY ChangeTypeOK DEF WorldStep
  <1>2. UNCHANGED <<file, seen, held>>
    BY <1>1 DEF runs
  <1>3. Made \subseteq Made' /\ 0 \in Made' /\ made' \in Made'
    BY <1>1 DEF Made
  <1>. DEFINE WorldOK == \A m \in Namespace :
                 live'[m].secret \in Made' /\ cache'[m].secret \in Made' /\ want'[m] \in Made'
  <1>4. \A m \in Namespace : live[m].secret \in Made' /\ cache[m].secret \in Made' /\ want[m] \in Made'
    BY <1>3 DEF MadeInv
  <1>5. ASSUME NEW n \in Namespace, NEW row, row.secret \in Made', Changed(n, row),
               \A m \in Namespace : want'[m] \in Made'
        PROVE  WorldOK
    BY <1>4, <1>5, ChangedRows
  <1>6. WorldOK
    <2>1. ASSUME NEW n \in Namespace, Tamper(n)
          PROVE  WorldOK
      <3>1. PICK v \in {0, made'} : Changed(n, [live[n] EXCEPT !.secret = v])
        BY <2>1 DEF Tamper
      <3>2. [live[n] EXCEPT !.secret = v].secret = v
        <4>1. live[n] \in Live
          BY DEF TypeOK
        <4>. QED
          BY <4>1 DEF Live
      <3>3. want' = want
        BY <2>1 DEF Tamper
      <3>4. [live[n] EXCEPT !.secret = v].secret \in Made'
        BY <1>3, <3>2
      <3>. QED
        BY <1>4, <1>5, <3>1, <3>3, <3>4
    <2>2. ASSUME NEW n \in Namespace, NEW p \in Plain, Drift(n, p)
          PROVE  WorldOK
      <3>1. Changed(n, [live[n] EXCEPT !.plain = p]) /\ want' = want
        BY <2>2 DEF Drift
      <3>2. [live[n] EXCEPT !.plain = p].secret = live[n].secret
        <4>1. live[n] \in Live
          BY DEF TypeOK
        <4>. QED
          BY <4>1 DEF Live
      <3>. QED
        BY <1>4, <1>5, <3>1, <3>2
    <2>3. ASSUME NEW n \in Namespace, Reconcile(n)
          PROVE  WorldOK
      <3>1. Changed(n, [secret |-> want'[n], plain |-> "same"])
        BY <2>3 DEF Reconcile
      <3>2. \A m \in Namespace : want'[m] = want[m] \/ want'[m] = made'
        BY <2>3 DEF Reconcile, TypeOK
      <3>3. \A m \in Namespace : want'[m] \in Made'
        BY <1>3, <1>4, <3>2
      <3>. QED
        BY <1>5, <3>1, <3>3
    <2>4. CASE RotateKey
      BY <1>4, <2>4 DEF RotateKey
    <2>. QED
      BY <2>1, <2>2, <2>3, <2>4 DEF WorldStep
  <1>7. \A n \in Namespace : Recorded(file', n) => file'[n].secret \in Made' \cup {Blank}
    BY <1>2, <1>3 DEF MadeInv
  <1>8. \A r \in Run, n \in Namespace :
          /\ seen'[r][n] # NotRead => seen'[r][n].secret \in Made'
          /\ Recorded(held'[r], n) => held'[r][n].secret \in Made' \cup {Blank}
    BY <1>2, <1>3 DEF MadeInv
  <1>. QED
    BY <1>6, <1>7, <1>8 DEF MadeInv

LEMMA RunMade ==
    ASSUME Assumptions, TypeOK, RunInv, MadeInv, NEW q \in Run, RunStep(q)
    PROVE  MadeInv'
  <1>1. UNCHANGED <<live, cache, want, key, made, changes>>
    BY DEF RunStep, Start, Read, ReadFails, RefuseCached, Conclude, LoadExisting, Rename, Again,
           world
  <1>0. Made' = Made
    BY <1>1 DEF Made
  <1>2. CASE Start(q) \/ ReadFails(q) \/ RefuseCached(q) \/ Conclude(q)
    <2>1. UNCHANGED <<file, seen, held>>
      BY <1>2 DEF Start, ReadFails, RefuseCached, Conclude
    <2>. QED
      BY <1>0, <1>1, <2>1 DEF MadeInv
  <1>3. CASE Read(q)
    <2>1. PICK n \in opt[q].scope, k \in Quality :
              /\ seen' = [seen EXCEPT ![q][n] = Answer(n, k)] /\ UNCHANGED <<file, held>>
      BY <1>3 DEF Read
    <2>2. n \in Namespace /\ Answer(n, k).secret \in Made
      BY <2>1, OptionTypes DEF MadeInv, Answer, TypeOK
    <2>3. \A r \in Run, m \in Namespace :
              seen'[r][m] = IF r = q /\ m = n THEN Answer(n, k) ELSE seen[r][m]
      BY <2>1, <2>2 DEF TypeOK
    <2>4. \A r \in Run, m \in Namespace : seen'[r][m] # NotRead => seen'[r][m].secret \in Made
      BY <2>2, <2>3 DEF MadeInv
    <2>. QED
      BY <1>0, <1>1, <2>1, <2>4 DEF MadeInv
  <1>4. CASE LoadExisting(q)
    <2>1. held' = [held EXCEPT ![q] = file] /\ UNCHANGED <<file, seen>>
      BY <1>4 DEF LoadExisting
    <2>2. \A r \in Run : held'[r] = IF r = q THEN file ELSE held[r]
      BY <2>1 DEF TypeOK
    <2>. QED
      BY <1>0, <1>1, <2>1, <2>2 DEF MadeInv
  <1>5. CASE Rename(q)
    <2>1. file' = Record(q) /\ UNCHANGED <<seen, held>> /\ IsRead(q)
      BY <1>5 DEF Rename, RunInv, EndInv
    <2>2. ASSUME NEW n \in Namespace, Recorded(file', n)
          PROVE  file'[n].secret \in Made \cup {Blank}
      <3>1. CASE n \in opt[q].scope
        <4>1. seen[q][n] \in Export /\ seen[q][n] # NotRead /\ file'[n] = Shown(seen[q][n])
          BY <2>1, <3>1, AnswerTypes DEF Record
        <4>2. file'[n].secret \in {seen[q][n].secret, Blank}
          BY <4>1, ShownTypes
        <4>. QED
          BY <4>1, <4>2 DEF MadeInv
      <3>2. CASE n \notin opt[q].scope
        <4>1. Recorded(held[q], n) /\ file'[n] = held[q][n]
          BY <2>1, <2>2, <3>2 DEF Record, Recorded
        <4>. QED
          BY <4>1 DEF MadeInv
      <3>. QED
        BY <3>1, <3>2
    <2>. QED
      BY <1>0, <1>1, <2>1, <2>2 DEF MadeInv
  <1>6. CASE Again(q)
    <2>1. /\ UNCHANGED file
          /\ \A r \in Run \ {q} : seen'[r] = seen[r] /\ held'[r] = held[r]
          /\ held'[q] = NoFile /\ \A n \in Namespace : seen'[q][n] = NotRead
      BY <1>6 DEF Again, TypeOK
    <2>. QED
      BY <1>0, <1>1, <2>1 DEF MadeInv, Recorded
  <1>. QED
    BY <1>2, <1>3, <1>4, <1>5, <1>6 DEF RunStep

-----------------------------------------------------------------------------
(* Alarms.                                                                 *)

(* A version written now is no recorded one.                               *)
LEMMA FreshVersion ==
    ASSUME Assumptions, TypeOK
    PROVE  made + 1 \notin Made \cup {Blank}
  <1>1. made \in Nat
    BY DEF Assumptions, DriftAssumption, TypeOK, Version
  <1>. QED
    BY <1>1 DEF Made, Blank

LEMMA WorldAlarm ==
    ASSUME Assumptions, TypeOK, MadeInv, FileInv, AlarmInv, WorldStep
    PROVE  FileInv' /\ AlarmInv'
  <1>1. UNCHANGED <<file, pc, opt, base, seen, held>>
    BY ChangeTypeOK DEF WorldStep, runs
  <1>2. FileInv'
    BY <1>1 DEF FileInv
  <1>3. alarm' \subseteq alarm
    BY DEF WorldStep, Tamper, Drift, Reconcile, RotateKey
  <1>4. ASSUME NEW m \in alarm'
        PROVE  live'[m].secret # file[m].secret
    <2>0. /\ m \in Namespace /\ Recorded(file, m) /\ file[m].secret # 0
          /\ live[m].secret # file[m].secret /\ file[m].secret \in Made \cup {Blank}
      <3>1. m \in alarm /\ m \in Namespace
        BY <1>3, <1>4 DEF TypeOK
      <3>. QED
        BY <3>1 DEF AlarmInv, MadeInv
    <2>1. ASSUME NEW n \in Namespace, Tamper(n)
          PROVE  live'[m].secret # file[m].secret
      <3>1. PICK v \in {0, made + 1} : Changed(n, [live[n] EXCEPT !.secret = v])
        BY <2>1 DEF Tamper
      <3>2. [live[n] EXCEPT !.secret = v].secret = v
        <4>1. live[n] \in Live
          BY DEF TypeOK
        <4>. QED
          BY <4>1 DEF Live
      <3>3. v # file[m].secret
        BY <2>0, FreshVersion
      <3>4. live'[m] = IF m = n THEN [live[n] EXCEPT !.secret = v] ELSE live[m]
        BY <2>0, <3>1, ChangedRows
      <3>5. CASE m = n
        BY <3>2, <3>3, <3>4, <3>5
      <3>6. CASE m # n
        BY <2>0, <3>4, <3>6
      <3>. QED
        BY <3>5, <3>6
    <2>2. ASSUME NEW n \in Namespace, NEW p \in Plain, Drift(n, p)
          PROVE  live'[m].secret # file[m].secret
      <3>1. Changed(n, [live[n] EXCEPT !.plain = p])
        BY <2>2 DEF Drift
      <3>2. [live[n] EXCEPT !.plain = p].secret = live[n].secret
        <4>1. live[n] \in Live
          BY DEF TypeOK
        <4>. QED
          BY <4>1 DEF Live
      <3>. QED
        BY <2>0, <3>1, <3>2, ChangedRows
    <2>3. ASSUME NEW n \in Namespace, Reconcile(n)
          PROVE  live'[m].secret # file[m].secret
      <3>1. Changed(n, [secret |-> want'[n], plain |-> "same"]) /\ m # n
        BY <1>4, <2>3 DEF Reconcile
      <3>. QED
        BY <2>0, <3>1, ChangedRows
    <2>4. CASE RotateKey
      BY <2>0, <2>4 DEF RotateKey
    <2>. QED
      BY <2>1, <2>2, <2>3, <2>4 DEF WorldStep
  <1>5. \A n \in alarm' : /\ Recorded(file', n) /\ file'[n].secret # 0
                          /\ live'[n].secret # file'[n].secret
    BY <1>1, <1>3, <1>4 DEF AlarmInv
  <1>6. \A r \in Run, n \in Namespace :
          n \in alarm' /\ n \in opt'[r].scope /\ opt'[r].read /\ seen'[r][n] # NotRead =>
              /\ Recorded(base'[r], n) /\ base'[r][n].secret # 0
              /\ seen'[r][n].quality # "cached" => Sees(r, n)'
    BY <1>1, <1>3 DEF AlarmInv, Sees, Shown, Unsealed
  <1>7. alarm' \subseteq Consumers
    BY <1>3 DEF AlarmInv
  <1>. QED
    BY <1>2, <1>5, <1>6, <1>7 DEF AlarmInv

(* The steps of the one run that neither report nor record.                *)
LEMMA QuietAlarm ==
    ASSUME Assumptions, TypeOK, RunInv, FileInv, AlarmInv, NEW q \in Run, Run = {q},
           Start(q) \/ ReadFails(q) \/ RefuseCached(q) \/ LoadExisting(q) \/ Again(q)
    PROVE  FileInv' /\ AlarmInv'
  <1>1. UNCHANGED <<live, file, alarm>>
    BY DEF Start, ReadFails, RefuseCached, LoadExisting, Again, world
  <1>2. CASE Start(q)
    <2>1. PICK o \in Options :
            /\ pc[q] = "start" /\ opt' = [opt EXCEPT ![q] = o]
            /\ \/ pc' = [pc EXCEPT ![q] = "done"]
               \/ /\ base' = [base EXCEPT ![q] = IF o.read THEN file ELSE NoFile]
                  /\ pc' = [pc EXCEPT ![q] = "read"]
            /\ UNCHANGED <<seen, held>>
      BY <1>2 DEF Start
    <2>2. /\ opt'[q] = o
          /\ \/ pc'[q] = "done"
             \/ pc'[q] = "read" /\ base'[q] = IF o.read THEN file ELSE NoFile
      BY <2>1 DEF TypeOK
    <2>3. \A n \in Namespace : seen'[q][n] = NotRead
      BY <2>1 DEF RunInv, FreshInv
    <2>4. FileInv'
      BY <1>1, <2>2 DEF FileInv
    <2>. QED
      BY <1>1, <2>3, <2>4 DEF AlarmInv
  <1>3. CASE ReadFails(q) \/ RefuseCached(q)
    <2>1. pc'[q] = "done" /\ UNCHANGED <<opt, base, seen>>
      BY <1>3 DEF ReadFails, RefuseCached, End, TypeOK
    <2>. QED
      BY <1>1, <2>1 DEF FileInv, AlarmInv, Sees, Shown, Unsealed
  <1>4. CASE LoadExisting(q)
    <2>1. /\ pc[q] = "conclude" /\ pc'[q] = "rename" /\ held'[q] = file
          /\ UNCHANGED <<opt, base, seen>>
      BY <1>4 DEF LoadExisting, TypeOK
    <2>2. FileInv'
      BY <1>1, <2>1 DEF FileInv
    <2>. QED
      BY <1>1, <2>1, <2>2 DEF AlarmInv, Sees, Shown, Unsealed
  <1>5. CASE Again(q)
    <2>1. pc'[q] = "start" /\ \A n \in Namespace : seen'[q][n] = NotRead
      BY <1>5 DEF Again, TypeOK
    <2>2. FileInv'
      BY <2>1 DEF FileInv
    <2>. QED
      BY <1>1, <2>1, <2>2 DEF AlarmInv
  <1>. QED
    BY <1>2, <1>3, <1>4, <1>5

LEMMA ReadAlarm ==
    ASSUME Assumptions, TypeOK, FileInv, AlarmInv, NEW q \in Run, Run = {q}, Read(q)
    PROVE  FileInv' /\ AlarmInv'
  <1>1. PICK n \in opt[q].scope, k \in Quality :
          /\ pc[q] = "read"
          /\ seen' = [seen EXCEPT ![q][n] = Answer(n, k)]
          /\ pc' = [pc EXCEPT ![q] =
                IF \A m \in opt[q].scope \ {n} : seen[q][m] # NotRead THEN "conclude" ELSE "read"]
          /\ UNCHANGED <<world, file, opt, base, held, alarm>>
    BY DEF Read
  <1>2. UNCHANGED <<live, file, opt, base, held, alarm>>
    BY <1>1 DEF world
  <1>3. pc'[q] \in {"read", "conclude"}
    BY <1>1 DEF TypeOK
  <1>4. base[q] = IF opt[q].read THEN file ELSE NoFile
    BY <1>1 DEF FileInv
  <1>5. FileInv'
    BY <1>2, <1>3, <1>4 DEF FileInv
  <1>6. n \in Namespace
    BY <1>1, OptionTypes DEF TypeOK
  <1>7. \A m \in Namespace : seen'[q][m] = IF m = n THEN Answer(n, k) ELSE seen[q][m]
    BY <1>1, <1>6 DEF TypeOK
  <1>8. Answer(n, k).quality = k /\ (k # "cached" => Answer(n, k).secret = live[n].secret)
    BY DEF Answer
  <1>9. ASSUME n \in alarm, opt[q].read
        PROVE  /\ Recorded(base[q], n) /\ base[q][n].secret # 0
               /\ k # "cached" => \/ Shown(Answer(n, k)) # base[q][n]
                                  \/ k = "unsealed" /\ Answer(n, k).secret # 0
    <2>1. base[q] = file
      BY <1>4, <1>9
    <2>2. /\ Recorded(base[q], n) /\ base[q][n].secret # 0
          /\ k # "cached" => Answer(n, k).secret # base[q][n].secret
      BY <1>8, <1>9, <2>1 DEF AlarmInv
    <2>3. ~(k = "unsealed" /\ Answer(n, k).secret # 0) => Shown(Answer(n, k)).secret = Answer(n, k).secret
      BY <1>8 DEF Shown
    <2>. QED
      BY <2>2, <2>3
  <1>10. \A m \in Namespace :
          m \in alarm' /\ m \in opt'[q].scope /\ opt'[q].read /\ seen'[q][m] # NotRead =>
              /\ Recorded(base'[q], m) /\ base'[q][m].secret # 0
              /\ seen'[q][m].quality # "cached" => Sees(q, m)'
    <2>1. ASSUME NEW m \in Namespace, m \in alarm', m \in opt'[q].scope, opt'[q].read,
                 seen'[q][m] # NotRead
          PROVE  /\ Recorded(base'[q], m) /\ base'[q][m].secret # 0
                 /\ seen'[q][m].quality # "cached" => Sees(q, m)'
      <3>1. CASE m = n
        BY <1>2, <1>7, <1>8, <1>9, <2>1, <3>1 DEF Sees, Unsealed
      <3>2. CASE m # n
        <4>1. seen'[q][m] = seen[q][m] /\ base'[q] = base[q]
          BY <1>2, <1>7, <3>2
        <4>2. /\ Recorded(base[q], m) /\ base[q][m].secret # 0
              /\ seen[q][m].quality # "cached" => Sees(q, m)
          BY <1>2, <2>1, <4>1 DEF AlarmInv
        <4>3. Sees(q, m)' <=> Sees(q, m)
          BY <4>1 DEF Sees, Shown, Unsealed
        <4>. QED
          BY <4>1, <4>2, <4>3
      <3>. QED
        BY <3>1, <3>2
    <2>. QED
      BY <2>1
  <1>11. \A m \in alarm' : /\ Recorded(file', m) /\ file'[m].secret # 0
                           /\ live'[m].secret # file'[m].secret
    BY <1>2 DEF AlarmInv
  <1>12. alarm' \subseteq Consumers
    BY <1>2 DEF AlarmInv
  <1>. QED
    BY <1>5, <1>10, <1>11, <1>12 DEF AlarmInv

LEMMA ConcludeAlarm ==
    ASSUME Assumptions, TypeOK, FileInv, AlarmInv, NEW q \in Run, Run = {q}, Conclude(q)
    PROVE  FileInv' /\ AlarmInv'
  <1>1. /\ pc[q] = "conclude" /\ pc'[q] = "done"
        /\ UNCHANGED <<live, file, opt, base, seen, held>>
        /\ alarm' = alarm \cup Alarming(q)
    BY DEF Conclude, Report, End, TypeOK, world
  <1>2. FileInv'
    BY <1>1 DEF FileInv
  <1>3. base[q] = IF opt[q].read THEN file ELSE NoFile
    BY <1>1 DEF FileInv
  <1>4. ASSUME NEW n \in Alarming(q)
        PROVE  /\ n \in Consumers /\ Recorded(file, n) /\ file[n].secret # 0
               /\ live[n].secret # file[n].secret
               /\ Recorded(base[q], n) /\ base[q][n].secret # 0
               /\ Sees(q, n)
    <2>1. /\ n \in Consumers /\ Recorded(base[q], n) /\ base[q][n].secret # 0
          /\ Sees(q, n) /\ live[n].secret # base[q][n].secret
      BY <1>4 DEF Alarming, SecretChanges, Compared, Sees
    <2>2. base[q] = file
      BY <1>3, <2>1 DEF Recorded
    <2>. QED
      BY <2>1, <2>2
  <1>5. alarm' \subseteq Consumers
    BY <1>1, <1>4 DEF AlarmInv
  <1>6. \A n \in alarm' : /\ Recorded(file', n) /\ file'[n].secret # 0
                          /\ live'[n].secret # file'[n].secret
    BY <1>1, <1>4 DEF AlarmInv
  <1>7. \A n \in Namespace :
          n \in alarm' /\ n \in opt'[q].scope /\ opt'[q].read /\ seen'[q][n] # NotRead =>
              /\ Recorded(base'[q], n) /\ base'[q][n].secret # 0
              /\ seen'[q][n].quality # "cached" => Sees(q, n)'
    BY <1>1, <1>4 DEF AlarmInv, Sees, Shown, Unsealed
  <1>. QED
    BY <1>2, <1>5, <1>6, <1>7 DEF AlarmInv

(* What the one run records of a namespace outside its scope is what the   *)
(* file held of it.                                                        *)
LEMMA RecordKeeps ==
    ASSUME Assumptions, TypeOK, RunInv, FileInv, NEW q \in Run, pc[q] = "rename",
           NEW n \in Namespace
    PROVE  /\ Recorded(file, n) => Recorded(Record(q), n)
           /\ Recorded(file, n) /\ n \notin opt[q].scope => Record(q)[n] = file[n]
  <1>1. held[q] = file
    BY DEF FileInv
  <1>2. IsRead(q)
    BY DEF RunInv, EndInv
  <1>3. Record(q) \in File /\ Record(q) # NoFile
    BY <1>2, RecordIsFile DEF Assumptions, AbsenceAssumption
  <1>4. Recorded(file, n) /\ n \notin opt[q].scope => Record(q)[n] = file[n]
    BY <1>1 DEF Record
  <1>5. CASE n \in opt[q].scope
    <2>1. Record(q)[n] = Shown(seen[q][n])
      BY <1>5 DEF Record
    <2>2. seen[q][n] \in Export
      BY <1>2, <1>5 DEF IsRead
    <2>3. Record(q)[n] \in Entry
      BY <2>1, <2>2, ShownTypes
    <2>4. Record(q)[n] # NoEntry
      BY <2>3 DEF Assumptions, AbsenceAssumption
    <2>. QED
      BY <1>3, <1>5, <2>4 DEF Recorded
  <1>6. CASE n \notin opt[q].scope
    BY <1>3, <1>4, <1>6 DEF Recorded
  <1>. QED
    BY <1>4, <1>5, <1>6

LEMMA RenameAlarm ==
    ASSUME Assumptions, TypeOK, RunInv, FileInv, AlarmInv, NEW q \in Run, Run = {q}, Rename(q)
    PROVE  FileInv' /\ AlarmInv'
  <1>1. /\ pc[q] = "rename" /\ pc'[q] = "done" /\ file' = Record(q)
        /\ UNCHANGED <<live, opt, base, seen, held>>
        /\ alarm' = {n \in alarm : n \in opt[q].scope => Record(q)[n] = file[n]}
    BY DEF Rename, End, TypeOK, world
  <1>2. FileInv'
    BY <1>1 DEF FileInv
  <1>3. ASSUME NEW n \in alarm'
        PROVE  /\ Recorded(file', n) /\ file'[n].secret # 0
               /\ live'[n].secret # file'[n].secret
    <2>1. n \in alarm /\ n \in Namespace /\ (n \in opt[q].scope => Record(q)[n] = file[n])
      BY <1>1, <1>3 DEF TypeOK
    <2>2. Recorded(file, n) /\ file[n].secret # 0 /\ live[n].secret # file[n].secret
      BY <2>1 DEF AlarmInv
    <2>3. Recorded(file', n) /\ file'[n] = file[n]
      BY <1>1, <2>1, <2>2, RecordKeeps
    <2>. QED
      BY <1>1, <2>2, <2>3
  <1>4. alarm' \subseteq Consumers
    BY <1>1 DEF AlarmInv
  <1>5. alarm' \subseteq alarm
    BY <1>1
  <1>6. \A n \in Namespace :
          n \in alarm' /\ n \in opt'[q].scope /\ opt'[q].read /\ seen'[q][n] # NotRead =>
              /\ Recorded(base'[q], n) /\ base'[q][n].secret # 0
              /\ seen'[q][n].quality # "cached" => Sees(q, n)'
    BY <1>1, <1>5 DEF AlarmInv, Sees, Shown, Unsealed
  <1>. QED
    BY <1>2, <1>3, <1>4, <1>6 DEF AlarmInv

AllInv == TypeOK /\ RunInv /\ MadeInv /\ FileInv /\ AlarmInv

LEMMA OneOnly == ASSUME OneRun, NEW q \in Run PROVE Run = {q}
  BY DEF OneRun

LEMMA AllInvStep ==
    ASSUME Assumptions, OneRun, AllInv, [Next]_vars
    PROVE  AllInv'
  <1>. USE DEF AllInv
  <1>1. TypeOK' /\ RunInv'
    BY RunInvStep
  <1>2. CASE WorldStep
    BY <1>1, <1>2, WorldMade, WorldAlarm
  <1>3. ASSUME NEW q \in Run, RunStep(q)
        PROVE  AllInv'
    <2>1. MadeInv'
      BY <1>3, RunMade
    <2>2. Run = {q}
      BY OneOnly
    <2>3. FileInv' /\ AlarmInv'
      BY <1>3, <2>2, QuietAlarm, ReadAlarm, ConcludeAlarm, RenameAlarm DEF RunStep
    <2>. QED
      BY <1>1, <2>1, <2>3
  <1>4. CASE UNCHANGED vars
    <2>1. UNCHANGED <<live, cache, want, made, file, alarm, pc, opt, base, seen, held>>
      BY <1>4 DEF vars, world, runs
    <2>2. MadeInv'
      BY <2>1 DEF MadeInv, Made
    <2>3. FileInv' /\ AlarmInv'
      BY <2>1 DEF FileInv, AlarmInv, Sees, Shown, Unsealed
    <2>. QED
      BY <1>1, <2>2, <2>3
  <1>. QED
    BY <1>2, <1>3, <1>4, NextCases

LEMMA AlarmStands == ASSUME Assumptions, AllInv PROVE AlarmPersists
  <1>. USE DEF AllInv
  <1>1. SUFFICES ASSUME NEW r \in Run, Decided(r), opt[r].read, ~opt[r].accept,
                        Alerted(r, "managed_modified"), NEW n \in alarm \cap opt[r].scope,
                        exit[r] \in {0, 6}
                 PROVE  FALSE
    BY DEF AlarmPersists
  <1>2. /\ IsRead(r) /\ ~HasDrift(r) /\ seen[r][n].quality # "cached"
        /\ exit[r] = 0 => Verified(r)
        /\ exit[r] = 6 => ~Invalidated(r)
    BY <1>1, Unalarmed
  <1>3. n \in Namespace /\ seen[r][n] # NotRead /\ n \in Consumers
    BY <1>1, <1>2, AnswerTypes DEF AlarmInv
  <1>4. seen[r][n].secret # 0 /\ n \notin SecretChanges(r)
    BY <1>1, <1>2, <1>3, WithoutDrift
  <1>5. Recorded(base[r], n) /\ base[r][n].secret # 0 /\ Sees(r, n)
    BY <1>1, <1>2, <1>3 DEF AlarmInv
  <1>6. KeyChanged(r, n) \/ Unsealed(r, n)
    BY <1>1, <1>2, <1>3, <1>4, <1>5 DEF SecretChanges, Compared, Sees
  <1>7. Invalidated(r) /\ (AnyKeyChanged(r) \/ ~Complete(r))
    BY <1>1, <1>2, <1>5, <1>6 DEF AnyKeyChanged, Invalidated, Complete
  <1>8. opt[r].export /\ n \in Uncompared(r)
    BY <1>1, <1>3, <1>4 DEF RunInv, FreshInv, Decided, Uncompared
  <1>. QED
    BY <1>1, <1>2, <1>7, <1>8 DEF Verified

(* The checks of a gateway do not overlap.  Then, for any namespaces and   *)
(* command lines, each exit code is earned, and no check that alerts on it *)
(* ends well while a reported change of a secret stands.                   *)
THEOREM ExitCodesAlwaysEarned ==
    ASSUME Assumptions, OneRun PROVE Spec => []ExitCodesAreEarned
  <1>1. Init => AllInv
    BY InitTypeOK, InitRunInv, InitMadeInv DEF AllInv
  <1>2. AllInv /\ [Next]_vars => AllInv'
    BY AllInvStep
  <1>3. AllInv => ExitCodesAreEarned
    BY AlarmStands, ZeroEarned, DriftReported, CachedDecides, SixIncremental, RecordedOr, InSyncWhole
       DEF AllInv, ExitCodesAreEarned, VerdictsAreEarned
  <1>. QED
    BY <1>1, <1>2, <1>3, PTL DEF Spec

(* What can end an alarm.                                                  *)
LEMMA EndedKnowingly ==
    ASSUME Assumptions, OneRun, AllInv, [Next]_vars, NEW n \in alarm \ alarm'
    PROVE  \/ live'[n] = [secret |-> want'[n], plain |-> "same"]
           \/ \E r \in Run : /\ pc[r] = "rename" /\ pc'[r] = "done"
                             /\ \/ opt[r].force \/ ~opt[r].read
                                \/ file[n].key # seen[r][n].key
  <1>. USE DEF AllInv
  <1>0. n \in Namespace /\ n \in Consumers
    BY DEF TypeOK, AlarmInv
  <1>1. \/ \E m \in Namespace : Reconcile(m)
        \/ \E r \in Run : Rename(r)
    <2>1. ASSUME NEW r \in Run, RunStep(r)
          PROVE  Rename(r)
      BY <2>1 DEF RunStep, Start, Read, ReadFails, RefuseCached, Conclude, Report, LoadExisting, Again
    <2>2. WorldStep => \E m \in Namespace : Reconcile(m)
      BY DEF WorldStep, Tamper, Drift, RotateKey
    <2>3. ~UNCHANGED vars
      BY DEF vars
    <2>. QED
      BY <2>1, <2>2, <2>3, NextCases
  <1>2. ASSUME NEW m \in Namespace, Reconcile(m)
        PROVE  live'[n] = [secret |-> want'[n], plain |-> "same"]
    <2>1. Changed(m, [secret |-> want'[m], plain |-> "same"]) /\ m = n
      BY <1>2 DEF Reconcile
    <2>. QED
      BY <1>0, <2>1, ChangedRows
  <1>3. ASSUME NEW r \in Run, Rename(r), ~opt[r].force, opt[r].read
        PROVE  file[n].key # seen[r][n].key
    <2>1. pc[r] = "rename" /\ n \in opt[r].scope /\ Record(r)[n] # file[n]
      BY <1>3 DEF Rename
    <2>2. IsRead(r) /\ ~Cached(r) /\ opt[r].write /\ ~Refused(r)
      BY <2>1 DEF RunInv, EndInv
    <2>3. ~Diffs(r) /\ SecretChanges(r) = {}
      BY <1>3, <2>2 DEF Refused
    <2>4. seen[r][n] # NotRead /\ seen[r][n].quality # "cached" /\ seen[r][n].secret # 0
      BY <1>0, <2>1, <2>2, <2>3, AnswerTypes DEF Diffs, SecretDiffers, Cached
    <2>5. Recorded(base[r], n) /\ base[r][n].secret # 0
      BY <1>0, <1>3, <2>1, <2>4 DEF AlarmInv
    <2>6. base[r] = file
      BY <1>3, <2>1 DEF FileInv
    <2>7. Shown(seen[r][n]) # base[r][n]
      BY <1>0, <2>1, <2>6 DEF Record
    <2>8. KeyChanged(r, n)
      BY <1>0, <2>1, <2>3, <2>4, <2>5, <2>7 DEF SecretChanges, Compared
    <2>. QED
      BY <2>6, <2>8 DEF KeyChanged
  <1>4. \A r \in Run : Rename(r) => pc[r] = "rename" /\ pc'[r] = "done"
    BY DEF Rename, End, TypeOK
  <1>. QED
    BY <1>1, <1>2, <1>3, <1>4

LEMMA EntryKept ==
    ASSUME Assumptions, OneRun, AllInv, [Next]_vars, NEW n \in Namespace, Recorded(file, n)
    PROVE  Recorded(file', n)
  <1>. USE DEF AllInv
  <1>1. UNCHANGED file \/ \E r \in Run : Rename(r)
    <2>1. ASSUME NEW r \in Run, RunStep(r)
          PROVE  UNCHANGED file \/ Rename(r)
      BY <2>1 DEF RunStep, Start, Read, ReadFails, RefuseCached, Conclude, LoadExisting, Again
    <2>2. WorldStep => UNCHANGED file
      BY ChangeTypeOK DEF WorldStep
    <2>3. UNCHANGED vars => UNCHANGED file
      BY DEF vars
    <2>. QED
      BY <2>1, <2>2, <2>3, NextCases
  <1>2. ASSUME NEW r \in Run, Rename(r)
        PROVE  Recorded(file', n)
    <2>1. pc[r] = "rename" /\ file' = Record(r)
      BY <1>2 DEF Rename
    <2>. QED
      BY <2>1, RecordKeeps
  <1>. QED
    BY <1>1, <1>2 DEF Recorded

(* Of checks that do not overlap, only an apply, or a record that is        *)
(* forced, under another key or without a baseline, ends the alarm of a    *)
(* changed secret; a record of an answer without the fingerprint, over an  *)
(* entry without one, goes through and ends none; and no record drops what *)
(* the baseline holds of a namespace.                                      *)
THEOREM AlarmsAreAlwaysKept ==
    ASSUME Assumptions, OneRun PROVE Spec => AlarmsAreKept
  <1>1. Init => AllInv
    BY InitTypeOK, InitRunInv, InitMadeInv DEF AllInv
  <1>2. AllInv /\ [Next]_vars => AllInv'
    BY AllInvStep
  <1>3. AllInv /\ [Next]_vars =>
          [\A n \in alarm \ alarm' :
             \/ live'[n] = [secret |-> want'[n], plain |-> "same"]
             \/ \E r \in Run : /\ pc[r] = "rename" /\ pc'[r] = "done"
                               /\ \/ opt[r].force \/ ~opt[r].read
                                  \/ file[n].key # seen[r][n].key]_vars
    BY EndedKnowingly
  <1>4. AllInv /\ [Next]_vars =>
          [\A n \in Namespace : Recorded(file, n) => Recorded(file', n)]_vars
    BY EntryKept
  <1>5. Spec => AlarmsEndKnowingly
    BY <1>1, <1>2, <1>3, PTL DEF Spec, AlarmsEndKnowingly
  <1>6. Spec => EntriesAreKept
    BY <1>1, <1>2, <1>4, PTL DEF Spec, EntriesAreKept
  <1>. QED
    BY <1>5, <1>6 DEF AlarmsAreKept

-----------------------------------------------------------------------------
(* The refusals plan, review and apply share.  The variables are those of   *)
(* Gates; `ending` is its exit.                                             *)
CONSTANTS MaxFacts, MaxCommentRetries
VARIABLES mode, facts, accepted, policyFile, pr, github, stage, planned, at, approved,
          touched, refusedBy, required, strict, shown, attempt, delivery, fallback,
          comments, ending
G == INSTANCE Gates WITH exit <- ending

(* The gates that come before any effect, and those before any change.     *)
AuditGates == {"prNumber", "selection", "narrowed", "paths", "smoke", "allowlist", "scope",
               "lookup", "security", "policy"}
PreviewGates == AuditGates \cup {"remap", "resolvedPolicy", "required", "validation", "mesh",
                                 "provisioning"}
Gate == PreviewGates \cup {"evidence"}
Before(n) == {G!Steps[i] : i \in 1 .. (n - 1)}

(* The order of apply's steps, in either mode.                              *)
LEMMA FileOrder ==
    ASSUME mode = "file"
    PROVE /\ Len(G!Steps) = 22
          /\ G!Steps[1] = "prNumber" /\ G!Steps[2] = "selection" /\ G!Steps[3] = "narrowed"
          /\ G!Steps[4] = "paths" /\ G!Steps[5] = "smoke" /\ G!Steps[6] = "allowlist"
          /\ G!Steps[7] = "scope" /\ G!Steps[8] = "lookup" /\ G!Steps[9] = "security"
          /\ G!Steps[10] = "policy" /\ G!Steps[11] = "lock" /\ G!Steps[12] = "bundle"
          /\ G!Steps[13] = "remap" /\ G!Steps[14] = "resolvedPolicy" /\ G!Steps[15] = "required"
          /\ G!Steps[16] = "validation" /\ G!Steps[17] = "mesh" /\ G!Steps[18] = "approval"
          /\ G!Steps[19] = "provisioning" /\ G!Steps[20] = "publish" /\ G!Steps[21] = "allocate"
          /\ G!Steps[22] = "record"
  BY DEF G!Steps, G!Audits, G!Resolved

LEMMA ApiOrder ==
    ASSUME mode = "api"
    PROVE /\ Len(G!Steps) = 24
          /\ G!Steps[1] = "prNumber" /\ G!Steps[2] = "selection" /\ G!Steps[3] = "narrowed"
          /\ G!Steps[4] = "paths" /\ G!Steps[5] = "smoke" /\ G!Steps[6] = "allowlist"
          /\ G!Steps[7] = "scope" /\ G!Steps[8] = "lookup" /\ G!Steps[9] = "security"
          /\ G!Steps[10] = "policy" /\ G!Steps[11] = "lock" /\ G!Steps[12] = "bundle"
          /\ G!Steps[13] = "remap" /\ G!Steps[14] = "resolvedPolicy" /\ G!Steps[15] = "required"
          /\ G!Steps[16] = "validation" /\ G!Steps[17] = "mesh" /\ G!Steps[18] = "read"
          /\ G!Steps[19] = "evidence" /\ G!Steps[20] = "approval" /\ G!Steps[21] = "provisioning"
          /\ G!Steps[22] = "allocate" /\ G!Steps[23] = "write" /\ G!Steps[24] = "record"
  BY DEF G!Steps, G!Audits, G!Resolved

LEMMA Earlier == ASSUME NEW n, NEW j \in 1 .. (n - 1) PROVE G!Steps[j] \in Before(n)
  BY DEF Before

(* What stands before an effect, and before a change.                       *)
LEMMA StepOrder ==
    ASSUME mode \in {"api", "file"}, NEW i \in 1 .. Len(G!Steps)
    PROVE  /\ Len(G!Steps) \in 22 .. 24
           /\ G!Steps[i] \in Gate \cup G!Effects \cup {"approval"}
           /\ G!Steps[i] \in G!Effects => AuditGates \subseteq Before(i)
           /\ G!Steps[i] \in G!Changes => PreviewGates \cup {"approval"} \subseteq Before(i)
           /\ G!Steps[i] = "evidence" => mode = "api"
           /\ G!Steps[i] = "write" => mode = "api"
  <1>1. CASE mode = "file"
    <2>1. Len(G!Steps) = 22
      BY <1>1, FileOrder, SMTT(60)
    <2>. USE DEF AuditGates, PreviewGates, Gate, G!Effects, G!Changes
    <2>2. /\ G!Steps[i] \in Gate \cup G!Effects \cup {"approval"}
          /\ G!Steps[i] \in G!Effects => i \in 11 .. 22
          /\ G!Steps[i] \in G!Changes => i \in 20 .. 22
          /\ G!Steps[i] # "evidence" /\ G!Steps[i] # "write"
      <3>1. CASE i \in 1 .. 10
        <4>1. i = 1 \/ i = 2 \/ i = 3 \/ i = 4 \/ i = 5 \/ i = 6 \/ i = 7 \/ i = 8 \/ i = 9 \/ i = 10
          BY <3>1
        <4>2. \/ G!Steps[i] = "prNumber" \/ G!Steps[i] = "selection" \/ G!Steps[i] = "narrowed" \/ G!Steps[i] = "paths"
              \/ G!Steps[i] = "smoke" \/ G!Steps[i] = "allowlist" \/ G!Steps[i] = "scope" \/ G!Steps[i] = "lookup"
              \/ G!Steps[i] = "security" \/ G!Steps[i] = "policy"
          BY <1>1, <4>1, FileOrder, SMTT(60)
        <4>. QED
          BY <4>2, <3>1
      <3>2. CASE i \in 11 .. 19
        <4>1. i = 11 \/ i = 12 \/ i = 13 \/ i = 14 \/ i = 15 \/ i = 16 \/ i = 17 \/ i = 18 \/ i = 19
          BY <3>2
        <4>2. \/ G!Steps[i] = "lock" \/ G!Steps[i] = "bundle" \/ G!Steps[i] = "remap" \/ G!Steps[i] = "resolvedPolicy"
              \/ G!Steps[i] = "required" \/ G!Steps[i] = "validation" \/ G!Steps[i] = "mesh" \/ G!Steps[i] = "approval"
              \/ G!Steps[i] = "provisioning"
          BY <1>1, <4>1, FileOrder, SMTT(60)
        <4>. QED
          BY <4>2, <3>2
      <3>3. CASE i \in 20 .. 22
        <4>1. i = 20 \/ i = 21 \/ i = 22
          BY <3>3
        <4>2. \/ G!Steps[i] = "publish" \/ G!Steps[i] = "allocate" \/ G!Steps[i] = "record"
          BY <1>1, <4>1, FileOrder, SMTT(60)
        <4>. QED
          BY <4>2, <3>3
      <3>. QED
        BY <2>1, <3>1, <3>2, <3>3
    <2>3. ASSUME i \in 11 .. 22 PROVE AuditGates \subseteq Before(i)
      <3>0. \A j \in 1 .. 10 : G!Steps[j] \in Before(i)
        BY <2>3, Earlier
      <3>1.
            /\ G!Steps[1] \in Before(i) /\ G!Steps[2] \in Before(i) /\ G!Steps[3] \in Before(i) /\ G!Steps[4] \in Before(i)
            /\ G!Steps[5] \in Before(i) /\ G!Steps[6] \in Before(i) /\ G!Steps[7] \in Before(i) /\ G!Steps[8] \in Before(i)
            /\ G!Steps[9] \in Before(i) /\ G!Steps[10] \in Before(i)
        BY <3>0
      <3>. QED
        BY <1>1, <3>1, FileOrder, SMTT(60)
    <2>4. ASSUME i \in 20 .. 22 PROVE PreviewGates \cup {"approval"} \subseteq Before(i)
      <3>0. \A j \in 1 .. 19 : G!Steps[j] \in Before(i)
        BY <2>4, Earlier
      <3>1.
            /\ G!Steps[1] \in Before(i) /\ G!Steps[2] \in Before(i) /\ G!Steps[3] \in Before(i) /\ G!Steps[4] \in Before(i)
            /\ G!Steps[5] \in Before(i) /\ G!Steps[6] \in Before(i) /\ G!Steps[7] \in Before(i) /\ G!Steps[8] \in Before(i)
            /\ G!Steps[9] \in Before(i) /\ G!Steps[10] \in Before(i) /\ G!Steps[13] \in Before(i) /\ G!Steps[14] \in Before(i)
            /\ G!Steps[15] \in Before(i) /\ G!Steps[16] \in Before(i) /\ G!Steps[17] \in Before(i) /\ G!Steps[18] \in Before(i)
            /\ G!Steps[19] \in Before(i)
        BY <3>0
      <3>. QED
        BY <1>1, <3>1, FileOrder, SMTT(60)
    <2>. QED
      BY <1>1, <2>1, <2>2, <2>3, <2>4
  <1>2. CASE mode = "api"
    <2>1. Len(G!Steps) = 24
      BY <1>2, ApiOrder, SMTT(60)
    <2>. USE DEF AuditGates, PreviewGates, Gate, G!Effects, G!Changes
    <2>2. /\ G!Steps[i] \in Gate \cup G!Effects \cup {"approval"}
          /\ G!Steps[i] \in G!Effects => i \in 11 .. 24
          /\ G!Steps[i] \in G!Changes => i \in 22 .. 24
      <3>1. CASE i \in 1 .. 10
        <4>1. i = 1 \/ i = 2 \/ i = 3 \/ i = 4 \/ i = 5 \/ i = 6 \/ i = 7 \/ i = 8 \/ i = 9 \/ i = 10
          BY <3>1
        <4>2. \/ G!Steps[i] = "prNumber" \/ G!Steps[i] = "selection" \/ G!Steps[i] = "narrowed" \/ G!Steps[i] = "paths"
              \/ G!Steps[i] = "smoke" \/ G!Steps[i] = "allowlist" \/ G!Steps[i] = "scope" \/ G!Steps[i] = "lookup"
              \/ G!Steps[i] = "security" \/ G!Steps[i] = "policy"
          BY <1>2, <4>1, ApiOrder, SMTT(60)
        <4>. QED
          BY <4>2, <3>1
      <3>2. CASE i \in 11 .. 21
        <4>1. i = 11 \/ i = 12 \/ i = 13 \/ i = 14 \/ i = 15 \/ i = 16 \/ i = 17 \/ i = 18 \/ i = 19 \/ i = 20 \/ i = 21
          BY <3>2
        <4>2. \/ G!Steps[i] = "lock" \/ G!Steps[i] = "bundle" \/ G!Steps[i] = "remap" \/ G!Steps[i] = "resolvedPolicy"
              \/ G!Steps[i] = "required" \/ G!Steps[i] = "validation" \/ G!Steps[i] = "mesh" \/ G!Steps[i] = "read"
              \/ G!Steps[i] = "evidence" \/ G!Steps[i] = "approval" \/ G!Steps[i] = "provisioning"
          BY <1>2, <4>1, ApiOrder, SMTT(60)
        <4>. QED
          BY <4>2, <3>2
      <3>3. CASE i \in 22 .. 24
        <4>1. i = 22 \/ i = 23 \/ i = 24
          BY <3>3
        <4>2. \/ G!Steps[i] = "allocate" \/ G!Steps[i] = "write" \/ G!Steps[i] = "record"
          BY <1>2, <4>1, ApiOrder, SMTT(60)
        <4>. QED
          BY <4>2, <3>3
      <3>. QED
        BY <2>1, <3>1, <3>2, <3>3
    <2>3. ASSUME i \in 11 .. 24 PROVE AuditGates \subseteq Before(i)
      <3>0. \A j \in 1 .. 10 : G!Steps[j] \in Before(i)
        BY <2>3, Earlier
      <3>1.
            /\ G!Steps[1] \in Before(i) /\ G!Steps[2] \in Before(i) /\ G!Steps[3] \in Before(i) /\ G!Steps[4] \in Before(i)
            /\ G!Steps[5] \in Before(i) /\ G!Steps[6] \in Before(i) /\ G!Steps[7] \in Before(i) /\ G!Steps[8] \in Before(i)
            /\ G!Steps[9] \in Before(i) /\ G!Steps[10] \in Before(i)
        BY <3>0
      <3>. QED
        BY <1>2, <3>1, ApiOrder, SMTT(60)
    <2>4. ASSUME i \in 22 .. 24 PROVE PreviewGates \cup {"approval"} \subseteq Before(i)
      <3>0. \A j \in 1 .. 21 : G!Steps[j] \in Before(i)
        BY <2>4, Earlier
      <3>1.
            /\ G!Steps[1] \in Before(i) /\ G!Steps[2] \in Before(i) /\ G!Steps[3] \in Before(i) /\ G!Steps[4] \in Before(i)
            /\ G!Steps[5] \in Before(i) /\ G!Steps[6] \in Before(i) /\ G!Steps[7] \in Before(i) /\ G!Steps[8] \in Before(i)
            /\ G!Steps[9] \in Before(i) /\ G!Steps[10] \in Before(i) /\ G!Steps[13] \in Before(i) /\ G!Steps[14] \in Before(i)
            /\ G!Steps[15] \in Before(i) /\ G!Steps[16] \in Before(i) /\ G!Steps[17] \in Before(i) /\ G!Steps[19] \in Before(i)
            /\ G!Steps[20] \in Before(i) /\ G!Steps[21] \in Before(i)
        BY <3>0
      <3>. QED
        BY <1>2, <3>1, ApiOrder, SMTT(60)
    <2>. QED
      BY <1>2, <2>1, <2>2, <2>3, <2>4
  <1>. QED
    BY <1>1, <1>2

(* All gates are before the end.                                            *)
LEMMA AllBefore ==
    ASSUME mode \in {"api", "file"}
    PROVE  /\ Len(G!Steps) \in Nat \ {0}
           /\ PreviewGates \subseteq Before(Len(G!Steps) + 1)
           /\ mode = "api" => "evidence" \in Before(Len(G!Steps) + 1)
  <1>1. CASE mode = "file"
    <2>1. Len(G!Steps) = 22
      BY <1>1, FileOrder, SMTT(60)
    <2>2.
            /\ G!Steps[1] \in Before(Len(G!Steps) + 1) /\ G!Steps[2] \in Before(Len(G!Steps) + 1) /\ G!Steps[3] \in Before(Len(G!Steps) + 1) /\ G!Steps[4] \in Before(Len(G!Steps) + 1)
            /\ G!Steps[5] \in Before(Len(G!Steps) + 1) /\ G!Steps[6] \in Before(Len(G!Steps) + 1) /\ G!Steps[7] \in Before(Len(G!Steps) + 1) /\ G!Steps[8] \in Before(Len(G!Steps) + 1)
            /\ G!Steps[9] \in Before(Len(G!Steps) + 1) /\ G!Steps[10] \in Before(Len(G!Steps) + 1) /\ G!Steps[13] \in Before(Len(G!Steps) + 1) /\ G!Steps[14] \in Before(Len(G!Steps) + 1)
            /\ G!Steps[15] \in Before(Len(G!Steps) + 1) /\ G!Steps[16] \in Before(Len(G!Steps) + 1) /\ G!Steps[17] \in Before(Len(G!Steps) + 1) /\ G!Steps[18] \in Before(Len(G!Steps) + 1)
            /\ G!Steps[19] \in Before(Len(G!Steps) + 1)
      BY <2>1, Earlier
    <2>. QED
      BY <1>1, <2>1, <2>2, FileOrder DEF PreviewGates, AuditGates
  <1>2. CASE mode = "api"
    <2>1. Len(G!Steps) = 24
      BY <1>2, ApiOrder, SMTT(60)
    <2>2.
            /\ G!Steps[1] \in Before(Len(G!Steps) + 1) /\ G!Steps[2] \in Before(Len(G!Steps) + 1) /\ G!Steps[3] \in Before(Len(G!Steps) + 1) /\ G!Steps[4] \in Before(Len(G!Steps) + 1)
            /\ G!Steps[5] \in Before(Len(G!Steps) + 1) /\ G!Steps[6] \in Before(Len(G!Steps) + 1) /\ G!Steps[7] \in Before(Len(G!Steps) + 1) /\ G!Steps[8] \in Before(Len(G!Steps) + 1)
            /\ G!Steps[9] \in Before(Len(G!Steps) + 1) /\ G!Steps[10] \in Before(Len(G!Steps) + 1) /\ G!Steps[13] \in Before(Len(G!Steps) + 1) /\ G!Steps[14] \in Before(Len(G!Steps) + 1)
            /\ G!Steps[15] \in Before(Len(G!Steps) + 1) /\ G!Steps[16] \in Before(Len(G!Steps) + 1) /\ G!Steps[17] \in Before(Len(G!Steps) + 1) /\ G!Steps[19] \in Before(Len(G!Steps) + 1)
            /\ G!Steps[20] \in Before(Len(G!Steps) + 1) /\ G!Steps[21] \in Before(Len(G!Steps) + 1)
      BY <2>1, Earlier
    <2>. QED
      BY <1>2, <2>1, <2>2, ApiOrder DEF PreviewGates, AuditGates
  <1>. QED
    BY <1>1, <1>2
-----------------------------------------------------------------------------
WorldInv ==
    /\ mode \in {"api", "file"} /\ facts \subseteq G!Fact /\ accepted \subseteq G!Acceptable
    /\ policyFile \in BOOLEAN /\ pr \in {"none", "malformed", "known"}
    /\ github \in {"active", "inactive", "error"}
    /\ G!Possible(facts, mode, policyFile)

VerdictOfPlan ==
    /\ stage = "plan" <=> planned = "none"
    /\ planned = "refused" => G!PlanRefuses
    /\ planned = "clean" => ~G!PlanRefuses

(* What apply has behind it refused nothing, and what it had effect on is   *)
(* behind it.                                                               *)
Passed(g) == (g \in Gate => ~G!Refuses(g)) /\ (g = "approval" => ~G!AsksFirst)
ApplyInv ==
    /\ \A g \in Before(at) : Passed(g)
    /\ touched \subseteq Before(at) \cap G!Effects
    /\ "allocate" \in touched => G!Allocatable
    /\ stage \in {"plan", "between"} => at = 1 /\ touched = {}

EndOfApply ==
    stage = "ended" /\ ending = "running" =>
        \/ refusedBy \in Gate /\ G!Refuses(refusedBy)
        \/ refusedBy = "unapproved"
        \/ at = Len(G!Steps) + 1 /\ refusedBy = (IF G!Withheld THEN "conflict" ELSE "none")

(* A review that got to its gate has shown its text.                        *)
Delivered ==
    /\ fallback \/ delivery = "posted"
    /\ delivery = "none" => pr # "known"
ReviewInv ==
    /\ ending # "running" => stage = "ended"
    /\ stage \in {"plan", "between", "apply", "compose", "post"} =>
          delivery = "none" /\ ~fallback /\ comments = 0
    /\ stage \in {"compose", "post", "fallback", "enforce"} => (required => pr = "known")
    /\ stage = "post" => pr = "known"
    /\ stage = "fallback" => delivery = "failed"
    /\ stage = "enforce" => Delivered
    /\ stage \in {"post", "fallback", "enforce"} \/ delivery # "none" \/ fallback =>
          shown = G!ReviewBlockers /\ ~G!Holds("scope")
    /\ delivery = "posted" => comments = 1
    /\ comments \in {0, 1}
    /\ ending # "running" =>
          \/ required /\ pr # "known"
          \/ G!Holds("scope") \/ (G!ReviewLooksUp /\ github = "error")
          \/ Delivered \/ (ending = "error" /\ delivery = "failed")
    /\ ending = "zero" => Delivered /\ ~G!ReviewFails /\ (required => pr = "known")

GatesInv == G!TypeOK /\ WorldInv /\ VerdictOfPlan /\ ApplyInv /\ EndOfApply /\ ReviewInv

(* The commands change nothing of the world they decide about.              *)
LEMMA SameWorld ==
    ASSUME UNCHANGED G!world
    PROVE  /\ WorldInv => WorldInv'
           /\ G!Steps' = G!Steps /\ (G!PlanRefuses' <=> G!PlanRefuses)
           /\ \A g : G!Refuses(g)' = G!Refuses(g)
           /\ (G!Withheld' <=> G!Withheld) /\ (G!Allocatable' <=> G!Allocatable)
           /\ (G!Compared' <=> G!Compared) /\ (G!ReviewLooksUp' <=> G!ReviewLooksUp)
           /\ (G!Holds("scope")' <=> G!Holds("scope"))
           /\ (G!Holds("validatorDown")' <=> G!Holds("validatorDown"))
           /\ G!ReviewBlockers' = G!ReviewBlockers
  <1>. UNCHANGED <<mode, facts, accepted, policyFile, pr, github>>
    BY DEF G!world
  <1>1. WorldInv => WorldInv'
    BY DEF WorldInv, G!Possible
  <1>2. G!Steps' = G!Steps
    BY DEF G!Steps
  <1>3. /\ G!InvalidPreview' = G!InvalidPreview /\ G!InvalidApply' = G!InvalidApply
        /\ G!Unprovisioned' = G!Unprovisioned /\ (G!Active' <=> G!Active) /\ (G!Compared' <=> G!Compared)
        /\ (G!Pending' <=> G!Pending) /\ (G!Withheld' <=> G!Withheld) /\ (G!LooksUp' <=> G!LooksUp)
        /\ (G!ReviewLooksUp' <=> G!ReviewLooksUp) /\ (G!PreflightRefuses' <=> G!PreflightRefuses)
        /\ \A f : (G!Holds(f)' <=> G!Holds(f)) /\ (G!Stands(f)' <=> G!Stands(f))
    BY DEF G!InvalidPreview, G!InvalidApply, G!Unprovisioned, G!Active, G!Compared, G!Pending, G!Withheld,
           G!LooksUp, G!ReviewLooksUp, G!PreflightRefuses, G!Holds, G!Stands
  <1>4. \A b : G!Findings(b)' = G!Findings(b)
    BY DEF G!Findings
  <1>5. \A b, x : G!Blockers(b, x)' = G!Blockers(b, x)
    BY <1>3, <1>4 DEF G!Blockers
  <1>6. (G!PlanAsks' <=> G!PlanAsks) /\ (G!PlanOverridden' <=> G!PlanOverridden)
    BY <1>3, <1>4 DEF G!PlanAsks, G!PlanOverridden
  <1>7. G!PlanRefuses' <=> G!PlanRefuses
    <2>1. G!PlanOverridden' = G!PlanOverridden
      BY <1>3, <1>6 DEF G!PlanOverridden
    <2>2. G!Blockers(G!PlanOverridden, G!InvalidPreview)' = G!Blockers(G!PlanOverridden, G!InvalidPreview)
      BY <1>3, <1>5, <2>1
    <2>. QED
      BY <1>3, <1>6, <2>2 DEF G!PlanRefuses
  <1>8. \A g : G!Refuses(g)' = G!Refuses(g)
    BY <1>3 DEF G!Refuses
  <1>9. G!ReviewBlockers' = G!ReviewBlockers
    BY <1>3, <1>5 DEF G!ReviewBlockers
  <1>10. G!Allocatable' <=> G!Allocatable
    BY <1>3 DEF G!Allocatable
  <1>. QED
    BY <1>1, <1>2, <1>3, <1>7, <1>8, <1>9, <1>10

LEMMA GatesInit == ASSUME G!GatesAssumption, G!Init PROVE GatesInv
  <1>1. mode \in {"api", "file"} /\ facts \subseteq G!Fact
    BY DEF G!Init, G!kSubset
  <1>2. Len(G!Steps) \in Nat
    BY <1>1, AllBefore
  <1>3. WorldInv
    BY <1>1 DEF G!Init, WorldInv, G!Acceptable
  <1>4. G!TypeOK
    <2>1. policyFile \in BOOLEAN /\ approved \in BOOLEAN /\ required \in BOOLEAN /\ strict \in BOOLEAN
          /\ fallback \in BOOLEAN
      BY DEF G!Init
    <2>2. at \in 1..(Len(G!Steps) + 1) /\ attempt \in 0..MaxCommentRetries /\ comments \in Nat
      BY <1>2 DEF G!Init, G!GatesAssumption
    <2>3. touched \subseteq G!Effects /\ shown \subseteq G!Fact
      BY DEF G!Init
    <2>4. /\ planned \in {"none", "clean", "refused"} /\ delivery \in {"none", "posted", "failed"}
          /\ ending \in {"running", "zero", "error"}
          /\ stage \in {"plan", "between", "apply", "compose", "post", "fallback", "enforce", "ended"}
      BY DEF G!Init
    <2>. QED
      BY <1>3, <2>1, <2>2, <2>3, <2>4 DEF G!TypeOK, WorldInv
  <1>5. VerdictOfPlan /\ EndOfApply
    BY DEF G!Init, VerdictOfPlan, EndOfApply
  <1>6. ApplyInv
    <2>1. at = 1 /\ touched = {} /\ Before(1) = {}
      BY DEF G!Init, Before
    <2>. QED
      BY <2>1 DEF ApplyInv
  <1>7. ReviewInv
    BY DEF G!Init, ReviewInv
  <1>. QED
    BY <1>3, <1>4, <1>5, <1>6, <1>7 DEF GatesInv

-----------------------------------------------------------------------------
(* Steps that leave the apply, or the review, where it is.                  *)
LEMMA ApplyAtRest ==
    ASSUME GatesInv, UNCHANGED <<G!world, at, touched>>, approved' = approved \/ at = 1,
           stage' \in {"plan", "between"} => stage' = stage
    PROVE  ApplyInv'
  <1>1. G!Steps' = G!Steps /\ \A g : G!Refuses(g)' = G!Refuses(g)
    BY SameWorld
  <1>2. G!Allocatable' <=> G!Allocatable
    BY SameWorld
  <1>3. Before(at)' = Before(at)
    BY <1>1 DEF Before
  <1>4. approved' = approved => (G!AsksFirst' <=> G!AsksFirst)
    BY DEF G!AsksFirst, G!world, G!Pending
  <1>5. \A g \in Before(at) : Passed(g)'
    <2>1. CASE approved' = approved
      BY <1>1, <1>4, <2>1 DEF GatesInv, ApplyInv, Passed
    <2>2. CASE at = 1
      BY <2>2 DEF Before
    <2>. QED
      BY <2>1, <2>2
  <1>. QED
    BY <1>2, <1>3, <1>5 DEF GatesInv, ApplyInv

LEMMA ReviewAtRest ==
    ASSUME GatesInv, UNCHANGED <<G!world, G!reviewing>>, stage' = "between" \/ stage' = "apply" \/ stage' = "ended",
           stage \in {"plan", "between", "apply"}
    PROVE  ReviewInv'
  <1>1. UNCHANGED <<required, strict, shown, attempt, delivery, fallback, comments, ending>>
    BY DEF G!reviewing
  <1>2. stage' \notin {"compose", "post", "fallback", "enforce"} /\ ending = "running"
        /\ delivery = "none" /\ ~fallback /\ comments = 0
    BY DEF GatesInv, ReviewInv, G!TypeOK
  <1>. QED
    BY <1>1, <1>2 DEF ReviewInv

(* An action that passes a step.                                            *)
LEMMA StepPassed ==
    ASSUME GatesInv, UNCHANGED <<G!world, approved, stage>>, stage = "apply", at <= Len(G!Steps), at' = at + 1,
           Passed(G!Steps[at]),
           \/ touched' = touched
           \/ /\ G!Steps[at] \in G!Effects /\ touched' = touched \cup {G!Steps[at]}
              /\ G!Steps[at] = "allocate" => G!Allocatable
    PROVE  ApplyInv'
  <1>1. G!Steps' = G!Steps /\ (\A g : G!Refuses(g)' = G!Refuses(g)) /\ (G!Allocatable' <=> G!Allocatable)
    BY SameWorld
  <1>2. at \in Nat \ {0} /\ Len(G!Steps) \in Nat
    BY AllBefore DEF GatesInv, G!TypeOK, WorldInv
  <1>3. Before(at)' = Before(at) \cup {G!Steps[at]}
    <2>1. 1 .. (at' - 1) = (1 .. (at - 1)) \cup {at}
      BY <1>2
    <2>. QED
      BY <1>1, <2>1 DEF Before
  <1>4. G!AsksFirst' <=> G!AsksFirst
    BY DEF G!AsksFirst, G!world, G!Pending
  <1>5. \A g \in Before(at)' : Passed(g)'
    BY <1>1, <1>3, <1>4 DEF GatesInv, ApplyInv, Passed
  <1>6. touched' \subseteq Before(at)' \cap G!Effects
    BY <1>3 DEF GatesInv, ApplyInv
  <1>7. "allocate" \in touched' => G!Allocatable'
    BY <1>1 DEF GatesInv, ApplyInv
  <1>. QED
    BY <1>5, <1>6, <1>7 DEF ApplyInv

(* What every step but those of one command leaves.                         *)
LEMMA PlanAtRest ==
    ASSUME GatesInv, UNCHANGED <<G!world, planned>>, stage # "plan", stage' # "plan"
    PROVE  VerdictOfPlan' /\ WorldInv'
  BY SameWorld DEF GatesInv, VerdictOfPlan

LEMMA PlanStep == ASSUME G!GatesAssumption, GatesInv, G!Plan PROVE GatesInv'
  <1>1. /\ stage = "plan" /\ stage' = "between" /\ planned' = IF G!PlanRefuses THEN "refused" ELSE "clean"
        /\ UNCHANGED <<G!world, at, approved, touched, refusedBy, G!reviewing>>
    BY DEF G!Plan, G!applying
  <1>2. WorldInv' /\ G!Steps' = G!Steps /\ (G!PlanRefuses' <=> G!PlanRefuses)
    BY <1>1, SameWorld DEF GatesInv
  <1>3. G!TypeOK'
    BY <1>1, <1>2 DEF GatesInv, G!TypeOK, G!world, G!reviewing
  <1>4. VerdictOfPlan'
    BY <1>1, <1>2 DEF VerdictOfPlan
  <1>5. ApplyInv'
    <2>1. at = 1 /\ touched = {}
      BY <1>1 DEF GatesInv, ApplyInv
    <2>2. Before(at)' = {}
      BY <1>1, <2>1 DEF Before
    <2>. QED
      BY <1>1, <2>1, <2>2 DEF ApplyInv
  <1>6. EndOfApply'
    BY <1>1 DEF EndOfApply
  <1>7. ReviewInv'
    BY <1>1, ReviewAtRest
  <1>. QED
    BY <1>2, <1>3, <1>4, <1>5, <1>6, <1>7 DEF GatesInv

LEMMA StartApplyStep == ASSUME G!GatesAssumption, GatesInv, G!StartApply PROVE GatesInv'
  <1>1. /\ stage = "between" /\ stage' = "apply" /\ approved' \in BOOLEAN
        /\ UNCHANGED <<G!world, planned, at, touched, refusedBy, G!reviewing>>
    BY DEF G!StartApply
  <1>2. WorldInv' /\ G!Steps' = G!Steps
    BY <1>1, SameWorld DEF GatesInv
  <1>3. G!TypeOK'
    BY <1>1, <1>2 DEF GatesInv, G!TypeOK, G!world, G!reviewing
  <1>4. at = 1
    BY <1>1 DEF GatesInv, ApplyInv
  <1>5. ApplyInv'
    BY <1>1, <1>4, ApplyAtRest
  <1>6. EndOfApply'
    BY <1>1 DEF EndOfApply
  <1>7. ReviewInv'
    BY <1>1, ReviewAtRest
  <1>8. VerdictOfPlan'
    BY <1>1, PlanAtRest
  <1>. QED
    BY <1>2, <1>3, <1>5, <1>6, <1>7, <1>8 DEF GatesInv

(* The steps of apply: on, or to its end.                                   *)
LEMMA OnStep ==
    ASSUME G!GatesAssumption, GatesInv, UNCHANGED <<G!world, planned, approved, refusedBy, stage, G!reviewing>>,
           stage = "apply", at <= Len(G!Steps), at' = at + 1, Passed(G!Steps[at]),
           \/ touched' = touched
           \/ /\ G!Steps[at] \in G!Effects /\ touched' = touched \cup {G!Steps[at]}
              /\ G!Steps[at] = "allocate" => G!Allocatable
    PROVE  GatesInv'
  <1>1. WorldInv' /\ G!Steps' = G!Steps
    BY SameWorld DEF GatesInv
  <1>2. at' \in 1..(Len(G!Steps) + 1)
    <2>1. Len(G!Steps) \in Nat /\ at \in 1..(Len(G!Steps) + 1)
      BY AllBefore DEF GatesInv, G!TypeOK, WorldInv
    <2>. QED
      BY <2>1
  <1>3. touched' \subseteq G!Effects
    BY DEF GatesInv, G!TypeOK
  <1>4. G!TypeOK'
    BY <1>1, <1>2, <1>3 DEF GatesInv, G!TypeOK, G!world, G!reviewing
  <1>5. ApplyInv'
    BY StepPassed
  <1>6. EndOfApply'
    BY DEF EndOfApply
  <1>7. ReviewInv'
    BY ReviewAtRest
  <1>8. VerdictOfPlan'
    BY PlanAtRest
  <1>. QED
    BY <1>1, <1>4, <1>5, <1>6, <1>7, <1>8 DEF GatesInv

LEMMA StopStep ==
    ASSUME G!GatesAssumption, GatesInv, UNCHANGED <<G!world, planned, approved, at, touched, G!reviewing>>,
           stage = "apply", stage' = "ended",
           \/ refusedBy' \in Gate /\ G!Refuses(refusedBy')
           \/ refusedBy' = "unapproved"
           \/ at = Len(G!Steps) + 1 /\ refusedBy' = (IF G!Withheld THEN "conflict" ELSE "none")
    PROVE  GatesInv'
  <1>1. WorldInv' /\ G!Steps' = G!Steps /\ (\A g : G!Refuses(g)' = G!Refuses(g)) /\ (G!Withheld' <=> G!Withheld)
    BY SameWorld DEF GatesInv
  <1>2. G!TypeOK'
    BY <1>1 DEF GatesInv, G!TypeOK, G!world, G!reviewing
  <1>3. ApplyInv'
    BY ApplyAtRest
  <1>4. EndOfApply'
    <2>1. G!Refuses(refusedBy)' = G!Refuses(refusedBy')
      BY <1>1 DEF G!Refuses, G!Holds, G!Stands, G!LooksUp, G!Active, G!InvalidApply, G!InvalidPreview, G!Compared,
                  G!Unprovisioned, G!Withheld, G!world
    <2>. QED
      BY <1>1, <2>1 DEF EndOfApply
  <1>5. ReviewInv'
    BY ReviewAtRest
  <1>6. VerdictOfPlan'
    BY PlanAtRest
  <1>. QED
    BY <1>1, <1>2, <1>3, <1>4, <1>5, <1>6 DEF GatesInv

LEMMA ApplySteps ==
    ASSUME G!GatesAssumption, GatesInv,
           G!PassGate \/ G!RefuseAtGate \/ G!Approval \/ G!Effect \/ G!EndApply
    PROVE  GatesInv'
  <1>1. mode \in {"api", "file"} /\ Len(G!Steps) \in Nat /\ at \in 1..(Len(G!Steps) + 1)
    BY AllBefore DEF GatesInv, G!TypeOK, WorldInv
  <1>2. ASSUME at <= Len(G!Steps), G!Steps[at] \notin G!Effects \cup {"approval"}
        PROVE  G!Steps[at] \in Gate /\ G!Steps[at] # "approval"
    BY <1>1, <1>2, StepOrder
  <1>3. "approval" \notin Gate /\ Gate \cap G!Effects = {} /\ "approval" \notin G!Effects
    BY DEF Gate, PreviewGates, AuditGates, G!Effects
  <1>4. CASE G!PassGate
    <2>1. Passed(G!Steps[at])
      BY <1>2, <1>4 DEF G!PassGate, Passed
    <2>. QED
      BY <1>4, <2>1, OnStep DEF G!PassGate
  <1>5. CASE G!RefuseAtGate
    BY <1>2, <1>5, StopStep DEF G!RefuseAtGate
  <1>6. CASE G!Approval
    <2>1. CASE G!AsksFirst
      BY <1>6, <2>1, StopStep DEF G!Approval, G!AtStep
    <2>2. CASE ~G!AsksFirst
      <3>1. Passed(G!Steps[at])
        BY <1>3, <1>6, <2>2 DEF G!Approval, G!AtStep, Passed
      <3>. QED
        BY <1>6, <2>2, <3>1, OnStep DEF G!Approval, G!AtStep
    <2>. QED
      BY <2>1, <2>2
  <1>7. CASE G!Effect
    <2>1. Passed(G!Steps[at])
      BY <1>3, <1>7 DEF G!Effect, Passed
    <2>2. \/ touched' = touched
          \/ touched' = touched \cup {G!Steps[at]} /\ (G!Steps[at] = "allocate" => G!Allocatable)
      BY <1>7 DEF G!Effect
    <2>. QED
      BY <1>7, <2>1, <2>2, OnStep DEF G!Effect
  <1>8. CASE G!EndApply
    BY <1>1, <1>8, StopStep DEF G!EndApply
  <1>. QED
    BY <1>4, <1>5, <1>6, <1>7, <1>8

-----------------------------------------------------------------------------
(* The steps of a review leave the apply at rest.                           *)
LEMMA ReviewFrame ==
    ASSUME GatesInv, UNCHANGED <<G!world, planned, G!applying>>,
           stage \in {"between", "compose", "post", "fallback", "enforce"},
           stage' \in {"compose", "post", "fallback", "enforce", "ended"},
           stage' = "ended" => ending' # "running",
           required' \in BOOLEAN, strict' \in BOOLEAN, shown' \subseteq G!Fact,
           attempt' \in 0..MaxCommentRetries, delivery' \in {"none", "posted", "failed"},
           fallback' \in BOOLEAN, comments' \in {0, 1}, ending' \in {"running", "zero", "error"},
           ReviewInv'
    PROVE  GatesInv'
  <1>1. UNCHANGED <<at, approved, touched, refusedBy>>
    BY DEF G!applying
  <1>2. WorldInv' /\ G!Steps' = G!Steps
    BY SameWorld DEF GatesInv
  <1>3. G!TypeOK'
    BY <1>1, <1>2 DEF GatesInv, G!TypeOK, G!world
  <1>4. ApplyInv'
    BY <1>1, ApplyAtRest
  <1>5. VerdictOfPlan'
    BY PlanAtRest
  <1>6. EndOfApply'
    BY DEF EndOfApply
  <1>. QED
    BY <1>2, <1>3, <1>4, <1>5, <1>6 DEF GatesInv

LEMMA ReviewBlockersAreFacts == ASSUME GatesInv PROVE G!ReviewBlockers \subseteq G!Fact
  BY DEF GatesInv, G!TypeOK, G!ReviewBlockers, G!Blockers, G!Findings, G!InvalidPreview, G!Unprovisioned, G!Stands,
         G!Fact, G!Acceptable

LEMMA ReviewSteps ==
    ASSUME G!GatesAssumption, GatesInv,
           \/ G!StartReview \/ G!ReviewAborts \/ G!Compose \/ G!PostAccepted \/ G!PostBusy
           \/ G!PostRefused \/ G!PostLost \/ G!Fallback \/ G!Enforce
    PROVE  GatesInv'
  <1>0. /\ required \in BOOLEAN /\ strict \in BOOLEAN /\ shown \subseteq G!Fact
        /\ attempt \in 0..MaxCommentRetries /\ delivery \in {"none", "posted", "failed"}
        /\ fallback \in BOOLEAN /\ comments \in {0, 1} /\ ending \in {"running", "zero", "error"}
        /\ ReviewInv /\ MaxCommentRetries \in Nat
    BY DEF GatesInv, G!TypeOK, ReviewInv, G!GatesAssumption
  <1>1. CASE G!StartReview
    <2>1. /\ stage = "between" /\ required' \in BOOLEAN /\ strict' \in BOOLEAN
          /\ UNCHANGED <<G!world, planned, G!applying, shown, attempt, delivery, fallback, comments>>
          /\ \/ required' /\ pr # "known" /\ stage' = "ended" /\ ending' = "error"
             \/ ~(required' /\ pr # "known") /\ stage' = "compose" /\ ending' = ending
      BY <1>1 DEF G!StartReview
    <2>2. pr' = pr /\ G!ReviewBlockers' = G!ReviewBlockers /\ (G!Holds("scope")' <=> G!Holds("scope"))
      BY <2>1, SameWorld DEF G!world
    <2>3. ReviewInv'
      BY <1>0, <2>1, <2>2 DEF ReviewInv
    <2>. QED
      BY <1>0, <2>1, <2>3, ReviewFrame DEF ReviewInv
  <1>2. CASE G!ReviewAborts
    <2>1. /\ stage = "compose" /\ stage' = "ended" /\ ending' = "error"
          /\ UNCHANGED <<G!world, planned, G!applying, required, strict, shown, attempt,
                         delivery, fallback, comments>>
          /\ G!Holds("scope") \/ (G!ReviewLooksUp /\ github = "error")
      BY <1>2 DEF G!ReviewAborts
    <2>2. pr' = pr /\ github' = github /\ (G!Holds("scope")' <=> G!Holds("scope"))
          /\ G!ReviewBlockers' = G!ReviewBlockers /\ (G!ReviewLooksUp' <=> G!ReviewLooksUp)
      BY <2>1, SameWorld DEF G!world
    <2>3. ReviewInv'
      BY <1>0, <2>1, <2>2 DEF ReviewInv
    <2>. QED
      BY <1>0, <2>1, <2>3, ReviewFrame
  <1>3. CASE G!Compose
    <2>1. /\ stage = "compose" /\ shown' = G!ReviewBlockers
          /\ UNCHANGED <<G!world, planned, G!applying, required, strict, attempt, delivery, comments, ending>>
          /\ ~G!Holds("scope")
          /\ \/ pr = "known" /\ stage' = "post" /\ fallback' = fallback
             \/ pr # "known" /\ stage' = "enforce" /\ fallback' = TRUE
      BY <1>3 DEF G!Compose
    <2>2. pr' = pr /\ G!ReviewBlockers' = G!ReviewBlockers /\ (G!Holds("scope")' <=> G!Holds("scope"))
      BY <2>1, SameWorld DEF G!world
    <2>3. ReviewInv'
      BY <1>0, <2>1, <2>2 DEF ReviewInv, Delivered
    <2>. QED
      BY <1>0, <2>1, <2>3, ReviewFrame, ReviewBlockersAreFacts
  <1>4. CASE G!PostAccepted
    <2>1. /\ stage = "post" /\ comments' = comments + 1 /\ delivery' = "posted" /\ stage' = "enforce"
          /\ UNCHANGED <<G!world, planned, G!applying, required, strict, shown, attempt, fallback, ending>>
      BY <1>4 DEF G!PostAccepted
    <2>2. pr' = pr /\ G!ReviewBlockers' = G!ReviewBlockers /\ (G!Holds("scope")' <=> G!Holds("scope"))
      BY <2>1, SameWorld DEF G!world
    <2>3. comments' = 1
      BY <1>0, <2>1 DEF ReviewInv
    <2>4. ReviewInv'
      BY <1>0, <2>1, <2>2, <2>3 DEF ReviewInv, Delivered
    <2>. QED
      BY <1>0, <2>1, <2>3, <2>4, ReviewFrame
  <1>5. CASE G!PostBusy
    <2>1. /\ stage = "post" /\ attempt < MaxCommentRetries /\ attempt' = attempt + 1
          /\ UNCHANGED <<G!world, stage, planned, G!applying, required, strict, shown,
                         delivery, fallback, comments, ending>>
      BY <1>5 DEF G!PostBusy
    <2>2. pr' = pr /\ G!ReviewBlockers' = G!ReviewBlockers /\ (G!Holds("scope")' <=> G!Holds("scope"))
      BY <2>1, SameWorld DEF G!world
    <2>3. attempt' \in 0..MaxCommentRetries
      BY <1>0, <2>1
    <2>4. ReviewInv'
      BY <1>0, <2>1, <2>2 DEF ReviewInv
    <2>. QED
      BY <1>0, <2>1, <2>3, <2>4, ReviewFrame
  <1>6. CASE G!PostRefused \/ G!PostLost
    <2>1. /\ stage = "post" /\ delivery' = "failed" /\ stage' = "fallback"
          /\ UNCHANGED <<G!world, planned, G!applying, required, strict, shown, attempt, fallback, ending>>
      BY <1>6 DEF G!PostRefused, G!PostLost
    <2>2. comments' \in {0, 1}
      <3>1. comments = 0
        BY <1>0, <2>1 DEF ReviewInv
      <3>2. comments' = comments \/ \E arrived \in {0, 1} : comments' = comments + arrived
        BY <1>6 DEF G!PostRefused, G!PostLost
      <3>. QED
        BY <3>1, <3>2
    <2>3. pr' = pr /\ G!ReviewBlockers' = G!ReviewBlockers /\ (G!Holds("scope")' <=> G!Holds("scope"))
      BY <2>1, SameWorld DEF G!world
    <2>4. ReviewInv'
      BY <1>0, <2>1, <2>2, <2>3 DEF ReviewInv
    <2>. QED
      BY <1>0, <2>1, <2>2, <2>4, ReviewFrame
  <1>7. CASE G!Fallback
    <2>1. /\ stage = "fallback"
          /\ \/ fallback' = TRUE /\ stage' = "enforce" /\ ending' = ending
             \/ fallback' = fallback /\ stage' = "ended" /\ ending' = "error"
          /\ UNCHANGED <<G!world, planned, G!applying, required, strict, shown, attempt,
                         delivery, comments>>
      BY <1>7 DEF G!Fallback
    <2>2. pr' = pr /\ G!ReviewBlockers' = G!ReviewBlockers /\ (G!Holds("scope")' <=> G!Holds("scope"))
      BY <2>1, SameWorld DEF G!world
    <2>3. ReviewInv'
      BY <1>0, <2>1, <2>2 DEF ReviewInv, Delivered
    <2>. QED
      BY <1>0, <2>1, <2>3, ReviewFrame
  <1>8. CASE G!Enforce
    <2>1. /\ stage = "enforce" /\ stage' = "ended"
          /\ ending' = IF G!ReviewFails THEN "error" ELSE "zero"
          /\ UNCHANGED <<G!world, planned, G!applying, required, strict, shown, attempt,
                         delivery, fallback, comments>>
      BY <1>8 DEF G!Enforce
    <2>2. pr' = pr /\ G!ReviewBlockers' = G!ReviewBlockers /\ (G!Compared' <=> G!Compared)
          /\ (G!Holds("scope")' <=> G!Holds("scope")) /\ (G!Holds("validatorDown")' <=> G!Holds("validatorDown"))
      BY <2>1, SameWorld DEF G!world
    <2>3. G!ReviewFails' <=> G!ReviewFails
      BY <2>1, <2>2 DEF G!ReviewFails
    <2>4. Delivered' /\ ending' # "running" /\ (ending' = "zero" => ~G!ReviewFails)
      BY <1>0, <2>1, <2>2 DEF ReviewInv, Delivered
    <2>5. ReviewInv'
      BY <1>0, <2>1, <2>2, <2>3, <2>4 DEF ReviewInv
    <2>. QED
      BY <1>0, <2>1, <2>4, <2>5, ReviewFrame
  <1>. QED
    BY <1>1, <1>2, <1>3, <1>4, <1>5, <1>6, <1>7, <1>8

LEMMA GatesStep == ASSUME G!GatesAssumption, GatesInv, [G!Next]_G!vars PROVE GatesInv'
  <1>1. CASE UNCHANGED G!vars
    <2>1. UNCHANGED <<G!world, stage, planned, at, approved, touched, refusedBy, G!reviewing>>
      BY <1>1 DEF G!vars, G!applying
    <2>2. UNCHANGED <<required, strict, shown, attempt, delivery, fallback, comments, ending>>
      BY <2>1 DEF G!reviewing
    <2>3. WorldInv' /\ G!Steps' = G!Steps /\ (G!PlanRefuses' <=> G!PlanRefuses)
      BY <2>1, SameWorld DEF GatesInv
    <2>4. G!TypeOK'
      BY <2>1, <2>2, <2>3 DEF GatesInv, G!TypeOK, G!world
    <2>5. ApplyInv'
      BY <2>1, ApplyAtRest
    <2>6. VerdictOfPlan'
      BY <2>1, <2>3 DEF GatesInv, VerdictOfPlan
    <2>7. EndOfApply'
      <3>1. G!Refuses(refusedBy)' = G!Refuses(refusedBy) /\ (G!Withheld' <=> G!Withheld)
        BY <2>1, SameWorld DEF G!Refuses, G!Holds, G!Stands, G!LooksUp, G!Active, G!InvalidApply, G!InvalidPreview,
             G!Compared, G!Unprovisioned, G!Withheld, G!world
      <3>. QED
        BY <2>1, <2>2, <2>3, <3>1 DEF GatesInv, EndOfApply
    <2>8. ReviewInv'
      <3>1. /\ (G!ReviewFails' <=> G!ReviewFails) /\ (Delivered' <=> Delivered) /\ G!ReviewBlockers' = G!ReviewBlockers
            /\ pr' = pr /\ github' = github /\ (G!Holds("scope")' <=> G!Holds("scope"))
            /\ (G!ReviewLooksUp' <=> G!ReviewLooksUp)
        BY <2>1, <2>2, SameWorld DEF G!ReviewFails, Delivered, G!world
      <3>. QED
        BY <2>1, <2>2, <3>1 DEF GatesInv, ReviewInv
    <2>. QED
      BY <2>3, <2>4, <2>5, <2>6, <2>7, <2>8 DEF GatesInv
  <1>. QED
    BY <1>1, PlanStep, StartApplyStep, ApplySteps, ReviewSteps DEF G!Next, G!Done

-----------------------------------------------------------------------------
(* What each gate asks.                                                     *)
LEMMA GatesAsk ==
    /\ G!Refuses("prNumber") <=> pr = "malformed"
    /\ G!Refuses("selection") <=> G!Stands("emptySelection")
    /\ \A g \in {"narrowed", "paths", "smoke", "allowlist", "scope", "required"} :
          G!Refuses(g) <=> G!Holds(g)
    /\ G!Refuses("lookup") <=> G!LooksUp /\ github = "error"
    /\ \A g \in {"security", "policy"} : G!Refuses(g) <=> G!Holds(g) /\ ~G!Active
    /\ G!Refuses("remap") <=> G!Stands("remap")
    /\ G!Refuses("resolvedPolicy") <=> mode = "api" /\ G!Holds("resolvedPolicy")
    /\ G!Refuses("validation") <=> G!InvalidApply \ {"meshInvalid"} # {}
    /\ G!Refuses("mesh") <=> G!Holds("meshInvalid")
    /\ G!Refuses("evidence") <=> ~G!Compared
    /\ G!Refuses("provisioning") <=> G!Unprovisioned # {} /\ ~G!Withheld
  BY DEF G!Refuses, G!Stands, G!Holds, G!LooksUp, G!Active, G!Compared, G!Withheld

(* Once the preview's gates are behind, what still blocks is a pending      *)
(* allocation that is withheld.                                             *)
LEMMA PassedUnblocked ==
    ASSUME GatesInv, PreviewGates \subseteq Before(at)
    PROVE  G!Blockers(G!Active, G!InvalidApply) \subseteq (IF G!Withheld THEN G!Unprovisioned ELSE {})
  <1>1. \A g \in PreviewGates : ~G!Refuses(g)
    BY DEF GatesInv, ApplyInv, Passed, Gate
  <1>2. /\ ~G!Stands("remap") /\ ~G!Holds("meshInvalid")
        /\ \A g \in {"narrowed", "paths", "smoke", "allowlist", "scope", "required"} : ~G!Holds(g)
        /\ \A g \in {"security", "policy"} : ~G!Holds(g) \/ G!Active
        /\ ~(mode = "api" /\ G!Holds("resolvedPolicy"))
        /\ G!InvalidApply \ {"meshInvalid"} = {}
        /\ G!Unprovisioned = {} \/ G!Withheld
    BY <1>1, GatesAsk DEF PreviewGates, AuditGates
  <1>3. G!Findings(G!Active) = {}
    BY <1>2 DEF G!Findings, G!Holds
  <1>4. G!InvalidApply = {}
    BY <1>2 DEF G!InvalidApply, G!InvalidPreview, G!Holds
  <1>5. G!Blockers(G!Active, G!InvalidApply) \subseteq G!Unprovisioned
    BY <1>2, <1>3, <1>4 DEF G!Blockers, G!Holds, G!Stands
  <1>. QED
    BY <1>2, <1>5

LEMMA EffectsFollow ==
    ASSUME GatesInv
    PROVE  /\ touched # {} => AuditGates \subseteq Before(at)
           /\ touched \cap G!Changes # {} => PreviewGates \cup {"approval"} \subseteq Before(at)
           /\ "write" \in touched => mode = "api"
  <1>1. at \in 1..(Len(G!Steps) + 1) /\ Len(G!Steps) \in Nat /\ mode \in {"api", "file"}
    BY AllBefore DEF GatesInv, G!TypeOK, WorldInv
  <1>2. ASSUME NEW e \in touched
        PROVE  \E i \in 1 .. (at - 1) : i \in 1 .. Len(G!Steps) /\ G!Steps[i] = e /\ Before(i) \subseteq Before(at)
    <2>1. PICK i \in 1 .. (at - 1) : G!Steps[i] = e
      BY <1>2 DEF GatesInv, ApplyInv, Before
    <2>2. i \in 1 .. Len(G!Steps) /\ 1 .. (i - 1) \subseteq 1 .. (at - 1)
      BY <1>1
    <2>. QED
      BY <2>1, <2>2 DEF Before
  <1>3. touched \subseteq G!Effects
    BY DEF GatesInv, ApplyInv
  <1>4. ASSUME NEW e \in touched
        PROVE  /\ AuditGates \subseteq Before(at)
               /\ e \in G!Changes => PreviewGates \cup {"approval"} \subseteq Before(at)
               /\ e = "write" => mode = "api"
    <2>1. PICK i \in 1 .. Len(G!Steps) : G!Steps[i] = e /\ Before(i) \subseteq Before(at)
      BY <1>2, <1>4
    <2>. QED
      BY <1>1, <1>3, <2>1, StepOrder
  <1>. QED
    BY <1>4

LEMMA ApplyAgrees ==
    ASSUME GatesInv
    PROVE  G!AuditedFirst /\ G!BlockersStopChanges /\ G!UnapprovedAllocatesNothing
  <1>1. G!AuditedFirst
    <2>1. ASSUME touched # {} PROVE G!Findings(G!Active) \ {"resolvedPolicy"} = {}
      <3>1. ~G!Refuses("security") /\ ~G!Refuses("policy")
        BY <2>1, EffectsFollow DEF GatesInv, ApplyInv, Passed, Gate, PreviewGates, AuditGates
      <3>2. \A g \in {"security", "policy"} : ~G!Holds(g) \/ G!Active
        BY <3>1, GatesAsk
      <3>. QED
        BY <3>2 DEF G!Findings, G!Holds
    <2>. QED
      BY <2>1 DEF G!AuditedFirst
  <1>2. G!BlockersStopChanges
    BY EffectsFollow, PassedUnblocked DEF G!BlockersStopChanges
  <1>3. G!UnapprovedAllocatesNothing
    <2>1. ASSUME touched \cap {"allocate", "write"} # {} PROVE approved
      <3>1. "approval" \in Before(at)
        BY <2>1, EffectsFollow DEF G!Changes
      <3>2. ~G!AsksFirst
        BY <3>1 DEF GatesInv, ApplyInv, Passed
      <3>3. mode = "api" \/ G!Pending
        BY <2>1, EffectsFollow DEF GatesInv, ApplyInv, G!Allocatable
      <3>. QED
        BY <3>2, <3>3 DEF G!AsksFirst
    <2>. QED
      BY <2>1 DEF G!UnapprovedAllocatesNothing
  <1>. QED
    BY <1>1, <1>2, <1>3

(* Whatever apply finds refused without asking anybody, plan refused.       *)
LEMMA PlanCovers ==
    ASSUME GatesInv, NEW g \in Gate \ {"evidence", "prNumber", "lookup"}, G!Refuses(g)
    PROVE  G!PlanRefuses
  <1>. DEFINE B == G!Blockers(G!PlanOverridden, G!InvalidPreview)
  <1>1. CASE g = "selection"
    BY <1>1, GatesAsk DEF G!PlanRefuses
  <1>2. CASE g \in {"paths", "smoke", "allowlist", "scope"}
    <2>1. G!Holds(g)
      BY <1>2, GatesAsk
    <2>. QED
      BY <1>2, <2>1 DEF G!PlanRefuses, G!PreflightRefuses, G!Holds
  <1>3. CASE g \in {"narrowed", "required"}
    <2>1. G!Holds(g)
      BY <1>3, GatesAsk
    <2>2. g \in B
      BY <1>3, <2>1 DEF G!Blockers, G!Holds
    <2>. QED
      BY <2>2 DEF G!PlanRefuses
  <1>4. CASE g \in {"security", "policy"}
    <2>1. G!Holds(g) /\ ~G!Active
      BY <1>4, GatesAsk
    <2>2. ~G!PlanOverridden
      BY <2>1 DEF G!PlanOverridden
    <2>3. g \in B
      BY <1>4, <2>1, <2>2 DEF G!Blockers, G!Findings, G!Holds
    <2>. QED
      BY <2>3 DEF G!PlanRefuses
  <1>5. CASE g = "remap"
    <2>1. G!Stands("remap")
      BY <1>5, GatesAsk
    <2>2. "remap" \in B
      BY <2>1 DEF G!Blockers
    <2>. QED
      BY <2>2 DEF G!PlanRefuses
  <1>6. CASE g = "resolvedPolicy"
    <2>1. mode = "api" /\ G!Holds("resolvedPolicy")
      BY <1>6, GatesAsk
    <2>2. "resolvedPolicy" \in B
      BY <2>1 DEF G!Blockers, G!Findings, G!Holds
    <2>. QED
      BY <2>2 DEF G!PlanRefuses
  <1>7. CASE g \in {"validation", "mesh"}
    <2>1. G!InvalidPreview # {}
      BY <1>7, GatesAsk DEF G!InvalidApply, G!InvalidPreview, G!Holds
    <2>2. G!InvalidPreview \subseteq B
      BY DEF G!Blockers
    <2>. QED
      BY <2>1, <2>2 DEF G!PlanRefuses
  <1>8. CASE g = "provisioning"
    <2>1. G!Unprovisioned # {}
      BY <1>8, GatesAsk
    <2>2. G!Unprovisioned \subseteq B
      BY DEF G!Blockers
    <2>. QED
      BY <2>1, <2>2 DEF G!PlanRefuses
  <1>. QED
    BY <1>1, <1>2, <1>3, <1>4, <1>5, <1>6, <1>7, <1>8 DEF Gate, PreviewGates, AuditGates

LEMMA CleanHonoured == ASSUME GatesInv PROVE G!CleanPlanIsHonoured
  <1>. SUFFICES ASSUME G!Applied, planned = "clean"
                PROVE  refusedBy \in {"none", "unapproved", "evidence", "prNumber", "lookup"}
                       \/ (refusedBy = "conflict" /\ ~G!Compared)
    BY DEF G!CleanPlanIsHonoured
  <1>1. ~G!PlanRefuses
    BY DEF GatesInv, VerdictOfPlan
  <1>2. CASE refusedBy \in Gate /\ G!Refuses(refusedBy)
    BY <1>1, <1>2, PlanCovers
  <1>3. CASE refusedBy = "unapproved"
    BY <1>3
  <1>4. CASE refusedBy = (IF G!Withheld THEN "conflict" ELSE "none")
    BY <1>1, <1>4 DEF G!PlanRefuses, G!Withheld
  <1>. QED
    BY <1>2, <1>3, <1>4 DEF GatesInv, EndOfApply, G!Applied, G!Ended

LEMMA RefusedReal == ASSUME GatesInv PROVE G!RefusedPlanIsReal
  <1>. SUFFICES ASSUME G!Applied, planned = "refused", approved, refusedBy = "none"
                PROVE  mode = "file" /\ G!Holds("storedInvalid")
    BY DEF G!RefusedPlanIsReal
  <1>1. G!PlanRefuses
    BY DEF GatesInv, VerdictOfPlan
  <1>2. at = Len(G!Steps) + 1 /\ ~G!Withheld
    BY DEF GatesInv, EndOfApply, G!Applied, G!Ended, Gate, PreviewGates, AuditGates
  <1>3. /\ PreviewGates \subseteq Before(at) /\ mode \in {"api", "file"}
        /\ mode = "api" => "evidence" \in Before(at)
    BY <1>2, AllBefore DEF GatesInv, WorldInv
  <1>4. G!Blockers(G!Active, G!InvalidApply) = {}
    BY <1>2, <1>3, PassedUnblocked
  <1>5. /\ pr # "malformed" /\ ~G!Stands("emptySelection")
        /\ \A g \in {"paths", "smoke", "allowlist", "scope"} : ~G!Holds(g)
    BY <1>3, GatesAsk DEF GatesInv, ApplyInv, Passed, Gate, PreviewGates, AuditGates
  <1>6. ~G!PreflightRefuses /\ ~G!Holds("conflict")
    BY <1>2, <1>5 DEF G!PreflightRefuses, G!Holds, G!Withheld
  <1>7. G!Blockers(G!PlanOverridden, G!InvalidPreview) # {}
    BY <1>1, <1>5, <1>6 DEF G!PlanRefuses
  <1>8. G!Findings(G!PlanOverridden) = {}
    <2>1. G!Findings(G!Active) = {}
      BY <1>4 DEF G!Blockers
    <2>2. facts \cap {"security", "policy"} = {} \/ (G!PlanAsks /\ G!Active)
      BY <2>1 DEF G!Findings, G!PlanAsks
    <2>. QED
      BY <2>1, <2>2 DEF G!Findings, G!PlanOverridden
  <1>9. G!InvalidPreview # {}
    BY <1>4, <1>7, <1>8 DEF G!Blockers
  <1>10. G!InvalidApply = {}
    BY <1>4 DEF G!Blockers
  <1>. QED
    BY <1>3, <1>9, <1>10 DEF G!InvalidApply, G!InvalidPreview, G!Holds

LEMMA ReviewAgrees == ASSUME GatesInv PROVE G!ReviewAgreesWithPlan
  <1>. SUFFICES ASSUME G!Reviewed, delivery # "none" \/ fallback
                PROVE  (planned = "refused") <=> (shown # {} \/ G!Stands("emptySelection")
                                                  \/ (G!Holds("conflict") /\ G!Compared))
    BY DEF G!ReviewAgreesWithPlan, G!Stands, G!Holds, G!Compared
  <1>. DEFINE Lifted == G!ReviewLooksUp /\ G!Active
              P == G!Blockers(G!PlanOverridden, G!InvalidPreview)
              R == G!Blockers(Lifted, G!InvalidPreview)
  <1>1. shown = R /\ ~G!Holds("scope")
    BY DEF GatesInv, ReviewInv, G!ReviewBlockers
  <1>2. planned = "refused" <=> G!PlanRefuses
    <2>1. planned \in {"refused", "clean"}
      BY DEF GatesInv, G!TypeOK, VerdictOfPlan, G!Reviewed, G!Ended
    <2>. QED
      BY <2>1 DEF GatesInv, VerdictOfPlan
  <1>3. P = R
    <2>1. CASE facts \cap {"security", "policy"} = {}
      BY <2>1 DEF G!Blockers, G!Findings
    <2>2. CASE facts \cap {"security", "policy"} # {}
      <3>1. G!PlanAsks
        BY <2>2 DEF G!PlanAsks, G!Findings
      <3>2. G!Active => G!ReviewLooksUp
        BY <2>2 DEF G!Active, G!ReviewLooksUp, GatesInv, WorldInv, G!Possible, G!Holds
      <3>3. G!PlanOverridden = Lifted
        BY <3>1, <3>2 DEF G!PlanOverridden, G!Active, G!ReviewLooksUp
      <3>. QED
        BY <3>3
    <2>. QED
      BY <2>1, <2>2
  <1>4. G!PreflightRefuses => R # {}
    <2>1. ASSUME G!PreflightRefuses PROVE R # {}
      <3>1. PICK f \in {"paths", "smoke", "allowlist"} : f \in facts
        BY <1>1, <2>1 DEF G!PreflightRefuses, G!Holds
      <3>2. f \in R
        BY <3>1 DEF G!Blockers
      <3>. QED
        BY <3>2
    <2>. QED
      BY <2>1
  <1>5. G!PlanAsks /\ pr = "malformed" => R # {}
    <2>1. ASSUME G!PlanAsks, pr = "malformed" PROVE R # {}
      <3>1. ~Lifted
        BY <2>1 DEF G!Active
      <3>2. G!Findings(FALSE) # {} /\ G!Findings(FALSE) \subseteq R
        BY <2>1, <3>1 DEF G!PlanAsks, G!Blockers, G!Findings
      <3>. QED
        BY <3>2
    <2>. QED
      BY <2>1
  <1>6. G!PlanRefuses <=> (R # {} \/ G!Stands("emptySelection") \/ (G!Holds("conflict") /\ G!Compared))
    <2>. HIDE DEF R
    <2>. QED
      BY <1>3, <1>4, <1>5 DEF G!PlanRefuses, P
  <1>. QED
    BY <1>1, <1>2, <1>6

LEMMA ReviewsSeen ==
    ASSUME GatesInv PROVE G!RequiredResultIsDelivered /\ G!ReviewIsSeen /\ G!OneComment
  <1>1. G!RequiredResultIsDelivered
    BY DEF G!RequiredResultIsDelivered, GatesInv, ReviewInv, Delivered, G!ReviewFails, G!TypeOK
  <1>2. G!ReviewIsSeen
    BY DEF G!ReviewIsSeen, G!Reviewed, G!Ended, GatesInv, ReviewInv, Delivered
  <1>3. G!OneComment
    BY DEF G!OneComment, GatesInv, ReviewInv
  <1>. QED
    BY <1>1, <1>2, <1>3

(* plan, review and apply decide alike in every world: nothing a verdict    *)
(* calls a blocker gets past apply's own gates to a change, a clean plan is *)
(* refused by nothing plan could have known, and the comment, delivered     *)
(* once, says what plan says (verdict.rs, cmd_apply, review).               *)
THEOREM CommandsAlwaysAgree == ASSUME G!GatesAssumption PROVE G!Spec => []G!CommandsAgree
  <1>1. G!Init => GatesInv
    BY GatesInit
  <1>2. GatesInv /\ [G!Next]_G!vars => GatesInv'
    BY GatesStep
  <1>3. GatesInv => G!CommandsAgree
    BY ApplyAgrees, CleanHonoured, RefusedReal, ReviewAgrees, ReviewsSeen DEF G!CommandsAgree, GatesInv
  <1>. QED
    BY <1>1, <1>2, <1>3, PTL DEF G!Spec

-----------------------------------------------------------------------------
(* The override of a blocking finding by a pull request, for every history, *)
(* page size and number of changes: two readings of the evidence make one  *)
(* moment (src/policy/github_override.rs), and what they authorise is what *)
(* is applied and recorded (src/main.rs cmd_apply).                        *)
CONSTANTS User, Rev, NoUser, NoReview, TreeOf, Identity, PageSize, MaxPages, History,
          Reviewed, Checkouts, MaxCount, MaxInterference
VARIABLES events, reviews, head, merged, permitted, checkout, turn, pass, page, got,
          pullRequest, approver, review, may, decision, security, before, after,
          cleared, rows, written, coexisted, restored, interference
O == INSTANCE PolicyOverride WITH
    MaxChanges <- MaxInterference, pc <- turn, pr <- pullRequest, wrote <- written,
    held <- coexisted, changes <- interference

(* A set of positions has a latest one.                                    *)
LEMMA LatestIsLast ==
    ASSUME NEW n \in Nat, NEW S \in SUBSET (1 .. n), S # {}
    PROVE  O!Latest(S) \in S /\ \A j \in S : j <= O!Latest(S)
  <1>. DEFINE R == {p \in Nat \X Nat : p[1] < p[2]}
              T == {n - x : x \in S}
  <1>1. IsWellFoundedOn(R, Nat)
    BY NatLessThanWellFounded, Zenon DEF OpToRel
  <1>2. T \in SUBSET Nat /\ T # {}
    <2>1. \A x \in S : n - x \in Nat
      OBVIOUS
    <2>. QED
      BY <2>1, Zenon
  <1>3. PICK m \in T : \A y \in T : <<y, m>> \notin R
    BY <1>1, <1>2, WFMin, Zenon
  <1>4. PICK x \in S : m = n - x
    BY <1>3
  <1>5. ASSUME NEW y \in S
        PROVE  y <= x
    <2>1. n - y \in T /\ n - y \in Nat /\ m \in Nat
      BY <1>2, <1>3
    <2>2. ~(n - y < m)
      <3>1. <<n - y, m>> \in Nat \X Nat /\ <<n - y, m>>[1] = n - y /\ <<n - y, m>>[2] = m
        BY <2>1
      <3>. QED
        BY <1>3, <2>1, <3>1, Zenon
    <2>. QED
      BY <1>4, <2>1, <2>2
  <1>. QED
    BY <1>5, Zenon DEF O!Latest

(* The account that set the label last, and that nobody took it off since. *)
LabeledBy(es, u) ==
    \E i \in 1 .. Len(es) : /\ es[i].what = "labeled" /\ es[i].by = u
                            /\ \A j \in (i + 1) .. Len(es) : es[j].what = "other"

LEMMA LastLabelerIs ==
    ASSUME O!PolicyOverrideAssumption, NEW es \in Seq(O!Event), NEW u \in User
    PROVE  O!LastLabeler(es) = u <=> LabeledBy(es, u)
  <1>. DEFINE ls == O!LabelEvents(es)
              n == O!Latest(ls)
  <1>1. ls \in SUBSET (1 .. Len(es)) /\ Len(es) \in Nat /\ DOMAIN es = 1 .. Len(es)
    BY DEF O!LabelEvents
  <1>2. \A i \in 1 .. Len(es) : es[i] \in O!Event
    BY <1>1
  <1>3. O!LastLabeler(es) =
            IF ls # {} /\ es[n].what = "labeled" THEN es[n].by ELSE NoUser
    BY DEF O!LastLabeler
  <1>4. CASE ls = {}
    <2>1. \A i \in 1 .. Len(es) : es[i].what = "other"
      BY <1>1, <1>4 DEF O!LabelEvents
    <2>. QED
      BY <1>3, <1>4, <2>1 DEF LabeledBy, O!PolicyOverrideAssumption
  <1>5. CASE ls # {}
    <2>1. n \in ls /\ \A j \in ls : j <= n
      BY <1>1, <1>5, LatestIsLast
    <2>2. n \in 1 .. Len(es) /\ es[n].what # "other"
      BY <1>1, <2>1 DEF O!LabelEvents
    <2>3. \A j \in (n + 1) .. Len(es) : es[j].what = "other"
      <3>. HIDE DEF n
      <3>. TAKE j \in (n + 1) .. Len(es)
      <3>1. j \in 1 .. Len(es) /\ ~(j <= n)
        BY <1>1, <2>2
      <3>2. j \notin ls
        BY <2>1, <3>1
      <3>. QED
        BY <1>1, <3>1, <3>2 DEF O!LabelEvents
    <2>4. ASSUME O!LastLabeler(es) = u
          PROVE  LabeledBy(es, u)
      <3>1. es[n].what = "labeled" /\ es[n].by = u
        BY <1>3, <1>5, <2>4 DEF O!PolicyOverrideAssumption
      <3>. QED
        BY <2>2, <2>3, <3>1 DEF LabeledBy
    <2>5. ASSUME NEW i \in 1 .. Len(es), es[i].what = "labeled", es[i].by = u,
                 \A j \in (i + 1) .. Len(es) : es[j].what = "other"
          PROVE  O!LastLabeler(es) = u
      <3>1. i \in ls
        BY <1>1, <2>5 DEF O!LabelEvents
      <3>2. i <= n /\ ~(n > i)
        BY <2>1, <2>2, <2>5, <3>1
      <3>3. i = n
        BY <2>2, <3>2
      <3>. QED
        BY <1>3, <1>5, <2>5, <3>3
    <2>. QED
      BY <2>4, <2>5 DEF LabeledBy
  <1>. QED
    BY <1>4, <1>5

(* A reading that continues a list keeps its labeler, unless the new part   *)
(* sets the label or takes it off.                                         *)
LEMMA LabelerOfMore ==
    ASSUME NEW s \in Seq(O!Event), NEW t \in Seq(O!Event), NEW u, LabeledBy(s \o t, u),
           \A i \in 1 .. Len(t) : ~(t[i].what = "labeled" /\ t[i].by = u)
    PROVE  LabeledBy(s, u)
  <1>1. /\ Len(s) \in Nat /\ Len(t) \in Nat /\ Len(s \o t) = Len(s) + Len(t)
        /\ \A i \in 1 .. Len(s) + Len(t) :
              (s \o t)[i] = IF i <= Len(s) THEN s[i] ELSE t[i - Len(s)]
    BY ConcatProperties
  <1>2. PICK i \in 1 .. Len(s \o t) :
            /\ (s \o t)[i].what = "labeled" /\ (s \o t)[i].by = u
            /\ \A j \in (i + 1) .. Len(s \o t) : (s \o t)[j].what = "other"
    BY DEF LabeledBy
  <1>3. i <= Len(s)
    <2>1. CASE i > Len(s)
      <3>1. i - Len(s) \in 1 .. Len(t) /\ (s \o t)[i] = t[i - Len(s)]
        BY <1>1, <2>1
      <3>. QED
        BY <1>2, <3>1
    <2>. QED
      BY <1>1, <2>1
  <1>4. s[i].what = "labeled" /\ s[i].by = u
    BY <1>1, <1>2, <1>3
  <1>5. \A j \in (i + 1) .. Len(s) : s[j].what = "other"
    <2>. TAKE j \in (i + 1) .. Len(s)
    <2>1. j \in (i + 1) .. Len(s \o t) /\ (s \o t)[j] = s[j]
      BY <1>1
    <2>. QED
      BY <1>2, <2>1
  <1>. QED
    BY <1>1, <1>3, <1>4, <1>5 DEF LabeledBy

(* What AuthorizedReview answers with is the account's last review.         *)
LEMMA AuthorizedIsLatest ==
    ASSUME NEW rs \in Seq(O!Review), NEW u, NEW h, O!PolicyOverrideAssumption,
           O!AuthorizedReview(rs, u, h) # NoReview
    PROVE  \E i \in 1 .. Len(rs) :
              /\ O!AuthorizedReview(rs, u, h) = rs[i]
              /\ rs[i].by = u /\ rs[i].accepts /\ rs[i].commit = h
              /\ \A j \in 1 .. Len(rs) : rs[j].by = u => j <= i
  <1>. DEFINE by == {i \in 1 .. Len(rs) : rs[i].by = u}
  <1>1. by \in SUBSET (1 .. Len(rs)) /\ Len(rs) \in Nat /\ DOMAIN rs = 1 .. Len(rs)
    OBVIOUS
  <1>2. O!AuthorizedReview(rs, u, h) =
            IF by # {} /\ rs[O!Latest(by)].accepts /\ rs[O!Latest(by)].commit = h
            THEN rs[O!Latest(by)] ELSE NoReview
    BY <1>1 DEF O!AuthorizedReview
  <1>3. by # {} /\ rs[O!Latest(by)].accepts /\ rs[O!Latest(by)].commit = h
    BY <1>2
  <1>4. O!Latest(by) \in by /\ \A j \in by : j <= O!Latest(by)
    BY <1>1, <1>3, LatestIsLast
  <1>. QED
    BY <1>2, <1>3, <1>4

LEMMA LatestIsAuthorized ==
    ASSUME NEW rs \in Seq(O!Review), NEW i \in 1 .. Len(rs), rs[i].accepts,
           \A j \in 1 .. Len(rs) : rs[j].by = rs[i].by => j <= i
    PROVE  O!AuthorizedReview(rs, rs[i].by, rs[i].commit) = rs[i]
  <1>. DEFINE by == {k \in 1 .. Len(rs) : rs[k].by = rs[i].by}
  <1>1. by \in SUBSET (1 .. Len(rs)) /\ Len(rs) \in Nat /\ DOMAIN rs = 1 .. Len(rs) /\ i \in by
    OBVIOUS
  <1>2. O!Latest(by) \in by /\ \A j \in by : j <= O!Latest(by)
    BY <1>1, LatestIsLast
  <1>3. O!Latest(by) <= i /\ i <= O!Latest(by) /\ O!Latest(by) \in Nat
    BY <1>1, <1>2
  <1>4. O!Latest(by) = i
    BY <1>3
  <1>. QED
    BY <1>1, <1>4 DEF O!AuthorizedReview

(* Where a page begins and ends in its list.                               *)
From == (page - 1) * PageSize
LEMMA PageBounds ==
    ASSUME O!PolicyOverrideAssumption, page \in 1 .. MaxPages
    PROVE  /\ From \in Nat /\ page * PageSize = From + PageSize /\ PageSize \in Nat \ {0}
           /\ From <= PageSize * MaxPages
           /\ (page + 1 - 1) * PageSize = From + PageSize
  <1>1. PageSize \in Nat \ {0} /\ MaxPages \in Nat \ {0}
    BY DEF O!PolicyOverrideAssumption
  <1>2. \A a, b, c \in Nat : a <= b => a * c <= c * b
    OBVIOUS
  <1>3. \A a, c \in Nat : (a + 1) * c = a * c + c /\ a * c \in Nat
    OBVIOUS
  <1>4. page - 1 \in Nat /\ page - 1 <= MaxPages /\ page = (page - 1) + 1
    BY <1>1
  <1>5. From <= PageSize * MaxPages
    BY <1>1, <1>2, <1>4 DEF From
  <1>6. page * PageSize = From + PageSize /\ From \in Nat
    BY <1>1, <1>3, <1>4 DEF From
  <1>. QED
    BY <1>1, <1>5, <1>6, <1>4

LEMMA PageIs ==
    ASSUME O!PolicyOverrideAssumption, page \in 1 .. MaxPages, NEW E, NEW s \in Seq(E)
    PROVE  /\ O!Page(s) \in Seq(E)
           /\ Len(O!Page(s)) = IF Len(s) <= From THEN 0
                             ELSE IF From + PageSize < Len(s) THEN PageSize
                             ELSE Len(s) - From
           /\ \A i \in 1 .. Len(O!Page(s)) : From + i \in 1 .. Len(s) /\ O!Page(s)[i] = s[From + i]
  <1>1. /\ From \in Nat /\ page * PageSize = From + PageSize /\ PageSize \in Nat \ {0}
    BY PageBounds
  <1>. DEFINE n == IF From + PageSize < Len(s) THEN From + PageSize ELSE Len(s)
  <1>2. O!Page(s) = SubSeq(s, 1 + From, n)
    BY <1>1 DEF O!Page, From
  <1>3. Len(s) \in Nat /\ n \in Nat /\ n <= Len(s) /\ \A i \in (1 + From) .. n : s[i] \in E
    BY <1>1
  <1>4. /\ SubSeq(s, 1 + From, n) \in Seq(E)
        /\ Len(SubSeq(s, 1 + From, n)) = IF 1 + From <= n THEN n - (1 + From) + 1 ELSE 0
        /\ \A i \in 1 .. n - (1 + From) + 1 : SubSeq(s, 1 + From, n)[i] = s[(1 + From) + i - 1]
    <2>. HIDE DEF n
    <2>. QED
      BY <1>1, <1>3, SubSeqProperties
  <1>5. O!Page(s) \in Seq(E)
    BY <1>2, <1>4
  <1>6. Len(O!Page(s)) = IF 1 + From <= n THEN n - (1 + From) + 1 ELSE 0
    BY <1>2, <1>4
  <1>7. Len(O!Page(s)) = IF Len(s) <= From THEN 0
                       ELSE IF From + PageSize < Len(s) THEN PageSize ELSE Len(s) - From
    BY <1>1, <1>3, <1>6
  <1>8. ASSUME NEW i \in 1 .. Len(O!Page(s))
        PROVE  From + i \in 1 .. Len(s) /\ O!Page(s)[i] = s[From + i]
    <2>1. i \in 1 .. n - (1 + From) + 1 /\ (1 + From) + i - 1 = From + i
      BY <1>1, <1>3, <1>6
    <2>2. O!Page(s)[i] = s[From + i]
      BY <1>2, <1>4, <2>1
    <2>. QED
      BY <1>1, <1>3, <2>1, <2>2
  <1>. QED
    BY <1>5, <1>7, <1>8

-----------------------------------------------------------------------------
(* The invariant.                                                          *)

Reading == turn \in {"pr", "events", "permission", "reviews", "tree"}

(* The pull request: its lists are numbered as they grow, and what of it   *)
(* the run remembers is of these kinds.                                    *)
PullInv ==
    /\ events \in Seq(O!Event)
    /\ reviews \in Seq(O!Review) /\ \A i \in 1 .. Len(reviews) : reviews[i].id = i
    /\ head \in Rev /\ merged \in BOOLEAN /\ checkout \in O!Checkout
    /\ pullRequest \in [labeled : BOOLEAN, head : Rev, merged : BOOLEAN]
    /\ review \in O!Review \cup {NoReview}

(* A list that is being read: what was got of it is from before this page, *)
(* in the list's order.                                                    *)
GotInv ==
    /\ Len(got) \in Nat /\ Len(got) <= From
    /\ turn = "events" => got \in Seq(O!Event)
    /\ turn = "reviews" =>
          /\ got \in Seq(O!Review)
          /\ \A i \in 1 .. Len(got) : got[i].id <= From /\ got[i].id <= Len(reviews)
          /\ \A i, j \in 1 .. Len(got) : i < j => got[i].id < got[j].id

(* What the first reading found, which the second must find again.         *)
Remembered == turn = "tree" \/ pass = 2
EvidenceInv ==
    /\ decision = "none" <=> Reading
    /\ O!Active => pass = 2
    /\ turn = "tree" => pass = 1
    /\ turn \in {"permission", "reviews"} => approver \in User
    /\ turn = "reviews" /\ Remembered => review \in O!Review
    /\ pass = 1 /\ turn # "pr" /\ Reading => pullRequest.labeled
    /\ Remembered =>
          /\ pullRequest.labeled /\ approver \in User /\ review \in O!Review
          /\ review.by = approver /\ review.accepts /\ review.commit = pullRequest.head
          /\ review.id <= Len(reviews)
    /\ pullRequest.merged => merged
    /\ pass = 2 =>
          /\ checkout.committed = TreeOf[pullRequest.head].source
          /\ checkout.source = TreeOf[pullRequest.head].source
          /\ checkout.input = TreeOf[pullRequest.head].input /\ ~checkout.unknown

(* What keeps the second reading from agreeing with the first, when the    *)
(* evidence of the first did not hold together.                            *)
Moved == head # pullRequest.head \/ merged # pullRequest.merged
LabelerLost == ~LabeledBy(events, approver)
LabelerMissed ==
    \/ /\ LabelerLost /\ Len(got) = From /\ From <= Len(events)
       /\ \A i \in 1 .. Len(got) : got[i] = events[i]
    \/ /\ ~LabeledBy(got, approver)
       /\ \A i \in (From + 1) .. Len(events) :
             ~(events[i].what = "labeled" /\ events[i].by = approver)
PermissionLost == approver \notin permitted
ReviewLater == \E i \in 1 .. Len(reviews) : i > review.id /\ reviews[i].by = approver
ReviewLost == ReviewLater \/ reviews[review.id] # review
ReviewMissed ==
    \/ \E j \in 1 .. Len(got) : got[j].by = approver /\ got[j].id > review.id
    \/ /\ Len(got) = From
       /\ \E i \in (From + 1) .. Len(reviews) : i > review.id /\ reviews[i].by = approver
    \/ /\ reviews[review.id] # review
       /\ \A j \in 1 .. Len(got) : got[j] # review
HeldInv ==
    pass = 2 /\ ~restored /\ ~coexisted =>
        \/ decision = "inactive"
        \/ turn = "pr" /\ (Moved \/ LabelerLost)
        \/ turn = "events" /\ LabelerMissed
        \/ turn \in {"pr", "events", "permission"} /\ (PermissionLost \/ ReviewLost)
        \/ turn = "reviews" /\ ReviewMissed

(* The gates: what went on is authorised, and what was written is covered. *)
Overridden == O!Blocked(before) \cup O!Blocked(after)
                 \cup (IF security THEN {O!SecurityRule} ELSE {})
Covered == \A i \in O!Blocked(after) : O!Active /\ after[i] <= before[i]
GateInv ==
    /\ Reading \/ turn = "gate" => written = FALSE /\ cleared = {}
    /\ turn \in {"gate", "resolve"} => written = FALSE
    /\ turn = "resolve" =>
          cleared = O!Blocked(before) \cup (IF security THEN {O!SecurityRule} ELSE {})
    /\ turn \in {"write", "record"} => cleared = Overridden
    /\ turn = "end" /\ written => rows = Overridden
    /\ turn \in {"resolve", "write", "record"} => (security => O!Active)
    /\ turn \in {"write", "record"} => Covered
    /\ written => turn \in {"record", "end", "failed"} /\ (security => O!Active) /\ Covered
    /\ turn = "record" => written

IInv == O!TypeOK /\ PullInv /\ GotInv /\ EvidenceInv /\ HeldInv /\ GateInv

-----------------------------------------------------------------------------
(* The steps of the run that read.                                         *)

LEMMA InitInv == ASSUME O!PolicyOverrideAssumption, O!Init PROVE IInv
  <1>1. /\ PageSize \in Nat \ {0} /\ MaxPages \in Nat \ {0} /\ MaxCount \in Nat
        /\ MaxInterference \in Nat /\ PageSize * MaxPages \in Nat
    BY DEF O!PolicyOverrideAssumption
  <1>2. /\ turn = "pr" /\ pass = 1 /\ page = 1 /\ got = <<>> /\ decision = "none"
        /\ written = FALSE /\ cleared = {} /\ rows = {}
    BY DEF O!Init
  <1>3. From = 0 /\ Len(got) = 0
    BY <1>1, <1>2 DEF From
  <1>4. before \in O!Counts /\ after \in O!Counts
    BY <1>1 DEF O!Init, O!Counts
  <1>5. O!TypeOK
    <2>1. /\ head \in Rev /\ merged \in BOOLEAN /\ may \in BOOLEAN /\ security \in BOOLEAN
          /\ coexisted \in BOOLEAN /\ restored \in BOOLEAN /\ permitted \subseteq User
          /\ approver = NoUser /\ interference = 0
      BY DEF O!Init
    <2>2. {merged, may, security, written, coexisted, restored} \subseteq BOOLEAN
      BY <1>2, <2>1
    <2>3. /\ page \in 1 .. MaxPages /\ Len(got) <= PageSize * MaxPages /\ pass \in 1 .. 2
          /\ interference \in 0 .. MaxInterference
      BY <1>1, <1>2, <1>3, <2>1
    <2>. QED
      BY <1>2, <1>4, <2>1, <2>2, <2>3, Zenon DEF O!TypeOK
  <1>6. PullInv
    BY DEF O!Init, PullInv, O!PolicyOverrideAssumption
  <1>7. GotInv /\ EvidenceInv /\ HeldInv /\ GateInv
    BY <1>2, <1>3 DEF O!Init, GotInv, EvidenceInv, HeldInv, GateInv, Reading, Remembered, O!Active
  <1>. QED
    BY <1>5, <1>6, <1>7 DEF IInv

(* The run decides: that there is no override, or, at the end of a second  *)
(* reading, that there is one.                                             *)
LEMMA DecideStep ==
    ASSUME IInv, O!PolicyOverrideAssumption, Reading, NEW d \in {"active", "inactive"},
           d = "active" => pass = 2 /\ (restored \/ coexisted), O!Decide(d)
    PROVE  IInv'
  <1>1. /\ decision' = d /\ turn' = "gate" /\ UNCHANGED <<events, reviews, head, merged, permitted>>
        /\ UNCHANGED <<checkout, security, before, after, cleared, rows, written, restored, interference>>
        /\ UNCHANGED <<pass, page, got, pullRequest, approver, review, may, coexisted>>
    BY DEF O!Decide, O!Asks, O!pull, O!findings, O!effects, O!request, O!evidence
  <1>2. O!TypeOK /\ PullInv /\ GotInv /\ EvidenceInv /\ HeldInv /\ GateInv
    BY DEF IInv
  <1>3. O!TypeOK'
    BY <1>1, <1>2 DEF O!TypeOK
  <1>4. PullInv'
    BY <1>1, <1>2 DEF PullInv
  <1>5. GotInv'
    BY <1>1, <1>2 DEF GotInv, From
  <1>6. EvidenceInv'
    BY <1>1, <1>2 DEF EvidenceInv, Reading, Remembered, O!Active
  <1>7. HeldInv'
    BY <1>1, <1>2 DEF HeldInv
  <1>8. GateInv'
    BY <1>1, <1>2 DEF GateInv, Reading
  <1>. QED
    BY <1>3, <1>4, <1>5, <1>6, <1>7, <1>8 DEF IInv

(* A request is asked anew: nothing of its answer is there yet.            *)
LEMMA ReadStarts ==
    ASSUME IInv, O!PolicyOverrideAssumption, NEW l, O!Read(l)
    PROVE  /\ turn' = l /\ page' = 1 /\ got' = <<>> /\ From' = 0 /\ Len(got') = 0
           /\ page' \in 1 .. MaxPages /\ Len(got') <= PageSize * MaxPages
           /\ UNCHANGED <<events, reviews, head, merged, permitted, checkout>>
           /\ UNCHANGED <<security, before, after, cleared, rows, written, restored, interference>>
  <1>1. PageSize \in Nat \ {0} /\ MaxPages \in Nat \ {0} /\ PageSize * MaxPages \in Nat
    BY DEF O!PolicyOverrideAssumption
  <1>2. /\ turn' = l /\ page' = 1 /\ got' = <<>>
        /\ UNCHANGED <<events, reviews, head, merged, permitted, checkout>>
        /\ UNCHANGED <<security, before, after, cleared, rows, written, restored, interference>>
    BY DEF O!Read, O!Asks, O!pull, O!findings, O!effects
  <1>3. From' = 0 /\ Len(got') = 0
    BY <1>1, <1>2 DEF From
  <1>. QED
    BY <1>1, <1>2, <1>3

LEMMA FetchPRStep ==
    ASSUME IInv, O!PolicyOverrideAssumption, O!FetchPR
    PROVE  IInv'
  <1>1. O!TypeOK /\ PullInv /\ GotInv /\ EvidenceInv /\ HeldInv /\ GateInv /\ turn = "pr" /\ Reading
    BY DEF IInv, O!FetchPR, Reading
  <1>2. CASE O!Inactive
    BY <1>1, <1>2, DecideStep DEF O!Inactive
  <1>3. CASE /\ O!Labeled /\ ~(pass = 2 /\ O!PullRequest # pullRequest)
             /\ pullRequest' = O!PullRequest /\ O!Read("events")
             /\ UNCHANGED <<pass, approver, review, may, decision, coexisted>>
    <2>1. /\ turn' = "events" /\ page' = 1 /\ got' = <<>> /\ From' = 0 /\ Len(got') = 0
          /\ page' \in 1 .. MaxPages /\ Len(got') <= PageSize * MaxPages
          /\ UNCHANGED <<events, reviews, head, merged, permitted, checkout>>
          /\ UNCHANGED <<security, before, after, cleared, rows, written, restored, interference>>
          /\ UNCHANGED <<pass, approver, review, may, decision, coexisted>>
      BY <1>3, ReadStarts
    <2>2. /\ pullRequest' = O!PullRequest /\ pullRequest'.labeled = TRUE /\ pullRequest'.head = head /\ pullRequest'.merged = merged
          /\ pullRequest' \in [labeled : BOOLEAN, head : Rev, merged : BOOLEAN]
      BY <1>1, <1>3 DEF O!PullRequest, PullInv, O!Labeled
    <2>3. O!TypeOK'
      BY <1>1, <2>1 DEF O!TypeOK
    <2>4. PullInv'
      BY <1>1, <2>1, <2>2 DEF PullInv
    <2>5. GotInv'
      BY <2>1 DEF GotInv
    <2>6. decision = "none" /\ pass \in 1 .. 2
      BY <1>1 DEF EvidenceInv, O!TypeOK
    <2>7. ASSUME pass = 1
          PROVE  EvidenceInv' /\ HeldInv'
      <3>1. EvidenceInv'
        BY <1>1, <2>1, <2>2, <2>6, <2>7 DEF EvidenceInv, Reading, Remembered, O!Active
      <3>2. HeldInv'
        BY <2>1, <2>7 DEF HeldInv
      <3>. QED
        BY <3>1, <3>2
    <2>8. ASSUME pass = 2
          PROVE  EvidenceInv' /\ HeldInv'
      <3>1. pullRequest' = pullRequest
        BY <1>3, <2>2, <2>8
      <3>2. EvidenceInv'
        BY <1>1, <2>1, <2>2, <2>6, <2>8, <3>1 DEF EvidenceInv, Reading, Remembered, O!Active
      <3>3. ASSUME ~restored, ~coexisted
            PROVE  (turn = "pr" /\ LabelerLost) \/ PermissionLost \/ ReviewLost
        <4>1. ~Moved
          BY <2>2, <3>1 DEF Moved
        <4>. QED
          BY <1>1, <2>6, <2>8, <3>3, <4>1 DEF HeldInv
      <3>4. LabelerLost => LabelerMissed'
        BY <1>1, <2>1 DEF LabelerLost, LabelerMissed, PullInv
      <3>5. (PermissionLost => PermissionLost') /\ (ReviewLost => ReviewLost')
        BY <2>1 DEF PermissionLost, ReviewLost, ReviewLater
      <3>6. HeldInv'
        BY <2>1, <3>3, <3>4, <3>5 DEF HeldInv
      <3>. QED
        BY <3>2, <3>6
    <2>9. GateInv'
      BY <1>1, <2>1 DEF GateInv, Reading
    <2>. QED
      BY <2>3, <2>4, <2>5, <2>6, <2>7, <2>8, <2>9 DEF IInv
  <1>. QED
    BY <1>2, <1>3 DEF O!FetchPR

(* One more page of a list: it follows what was got, and is short only at  *)
(* the end of the list.                                                    *)
LEMMA MoreOfList ==
    ASSUME IInv, O!PolicyOverrideAssumption, NEW E, NEW s \in Seq(E), got \in Seq(E),
           ~O!Ends(s), O!WithinCap, O!More(s)
    PROVE  /\ page' \in 1 .. MaxPages /\ From' = From + PageSize /\ From \in Nat
           /\ PageSize \in Nat \ {0} /\ From' <= PageSize * MaxPages
           /\ got' \in Seq(E) /\ Len(got') = Len(got) + Len(O!Page(s)) /\ O!Page(s) \in Seq(E)
           /\ Len(O!Page(s)) \in 1 .. PageSize /\ From + Len(O!Page(s)) <= Len(s)
           /\ Len(O!Page(s)) = PageSize \/ From + Len(O!Page(s)) = Len(s)
           /\ \A i \in 1 .. Len(got) : got'[i] = got[i]
           /\ \A i \in 1 .. Len(O!Page(s)) : /\ got'[Len(got) + i] = s[From + i]
                                          /\ O!Page(s)[i] = s[From + i]
                                          /\ From + i \in 1 .. Len(s)
           /\ UNCHANGED <<events, reviews, head, merged, permitted, checkout, turn, pass>>
           /\ UNCHANGED <<security, before, after, cleared, rows, written, restored, interference>>
           /\ UNCHANGED <<pullRequest, approver, review, may, decision, coexisted>>
  <1>. DEFINE n == Len(O!Page(s))
  <1>1. page \in 1 .. MaxPages /\ page < MaxPages /\ MaxPages \in Nat \ {0}
    BY DEF IInv, O!TypeOK, O!WithinCap, O!PolicyOverrideAssumption
  <1>2. /\ page' = page + 1 /\ got' = got \o O!Page(s)
        /\ UNCHANGED <<events, reviews, head, merged, permitted, checkout, turn, pass>>
        /\ UNCHANGED <<security, before, after, cleared, rows, written, restored, interference>>
        /\ UNCHANGED <<pullRequest, approver, review, may, decision, coexisted>>
    BY DEF O!More, O!Asks, O!pull, O!findings, O!effects, O!evidence
  <1>3. page' \in 1 .. MaxPages
    BY <1>1, <1>2
  <1>4. /\ From \in Nat /\ PageSize \in Nat \ {0} /\ page * PageSize = From + PageSize
        /\ (page + 1 - 1) * PageSize = From + PageSize
    BY <1>1, PageBounds
  <1>5. From' = From + PageSize
    <2>0. page' = page + 1
      BY <1>2
    <2>1. From' = (page' - 1) * PageSize
      BY DEF From
    <2>2. page \in Nat /\ page' - 1 = page /\ page - 1 \in Nat /\ page = (page - 1) + 1
      BY <1>1, <2>0
    <2>3. From' = page * PageSize
      BY <2>1, <2>2
    <2>. QED
      BY <1>4, <2>3
  <1>6. From' <= PageSize * MaxPages
    <2>1. \A a, b, c \in Nat : a <= b => a * c <= c * b
      OBVIOUS
    <2>2. page \in Nat /\ page <= MaxPages
      BY <1>1
    <2>. QED
      BY <1>1, <1>4, <1>5, <2>1, <2>2
  <1>7. /\ O!Page(s) \in Seq(E)
        /\ Len(O!Page(s)) = IF Len(s) <= From THEN 0
                          ELSE IF From + PageSize < Len(s) THEN PageSize
                          ELSE Len(s) - From
        /\ \A i \in 1 .. Len(O!Page(s)) : From + i \in 1 .. Len(s) /\ O!Page(s)[i] = s[From + i]
    BY <1>1, PageIs
  <1>8. n # 0 /\ n \in Nat
    BY <1>7, EmptySeq DEF O!Ends
  <1>9. /\ n \in 1 .. PageSize /\ From + n <= Len(s)
        /\ n = PageSize \/ From + n = Len(s)
    <2>1. Len(s) \in Nat
      OBVIOUS
    <2>. QED
      BY <1>4, <1>7, <1>8, <2>1
  <1>10. /\ got' \in Seq(E) /\ Len(got') = Len(got) + n
         /\ \A i \in 1 .. Len(got) + n :
               got'[i] = IF i <= Len(got) THEN got[i] ELSE O!Page(s)[i - Len(got)]
    BY <1>2, <1>7, ConcatProperties
  <1>11. \A i \in 1 .. Len(got) : got'[i] = got[i]
    BY <1>8, <1>10, SMTT(40)
  <1>12. \A i \in 1 .. n : got'[Len(got) + i] = s[From + i]
    <2>. TAKE i \in 1 .. n
    <2>1. /\ Len(got) \in Nat /\ Len(got) + i \in 1 .. Len(got) + n /\ ~(Len(got) + i <= Len(got))
          /\ Len(got) + i - Len(got) = i
      BY <1>8
    <2>. QED
      BY <1>7, <1>10, <2>1
  <1>. QED
    BY <1>2, <1>3, <1>4, <1>5, <1>6, <1>7, <1>9, <1>10, <1>11, <1>12

(* What a page leaves alone of the invariant.                              *)
LEMMA MoreStep ==
    ASSUME IInv, O!PolicyOverrideAssumption, NEW E, NEW s \in Seq(E), got \in Seq(E),
           ~O!Ends(s), O!WithinCap, O!More(s), Reading, turn # "tree"
    PROVE  O!TypeOK' /\ PullInv' /\ EvidenceInv' /\ GateInv' /\ Len(got') \in Nat /\ Len(got') <= From'
  <1>1. /\ page' \in 1 .. MaxPages /\ From' = From + PageSize /\ From \in Nat
        /\ PageSize \in Nat \ {0} /\ From' <= PageSize * MaxPages
        /\ got' \in Seq(E) /\ Len(got') = Len(got) + Len(O!Page(s))
        /\ Len(O!Page(s)) \in 1 .. PageSize
    BY MoreOfList
  <1>2. /\ UNCHANGED <<events, reviews, head, merged, permitted, checkout, turn, pass>>
        /\ UNCHANGED <<security, before, after, cleared, rows, written, restored, interference>>
        /\ UNCHANGED <<pullRequest, approver, review, may, decision, coexisted>>
    BY MoreOfList
  <1>3. O!TypeOK /\ PullInv /\ GotInv /\ EvidenceInv /\ GateInv
    BY DEF IInv
  <1>4. Len(got) \in Nat /\ Len(got) <= From
    BY <1>3 DEF GotInv
  <1>5. Len(got') \in Nat /\ Len(got') <= From' /\ Len(got') <= PageSize * MaxPages
    <2>1. PageSize * MaxPages \in Nat
      BY DEF O!PolicyOverrideAssumption
    <2>. QED
      BY <1>1, <1>4, <2>1
  <1>6. O!TypeOK'
    BY <1>1, <1>2, <1>3, <1>5 DEF O!TypeOK
  <1>7. PullInv'
    BY <1>2, <1>3 DEF PullInv
  <1>8. EvidenceInv'
    BY <1>2, <1>3 DEF EvidenceInv, Reading, Remembered, O!Active
  <1>9. GateInv'
    BY <1>2, <1>3 DEF GateInv, Reading
  <1>. QED
    BY <1>5, <1>6, <1>7, <1>8, <1>9

LEMMA MoreEventsStep ==
    ASSUME IInv, O!PolicyOverrideAssumption, turn = "events", ~O!Ends(events), O!WithinCap, O!More(events)
    PROVE  IInv'
  <1>1. events \in Seq(O!Event) /\ got \in Seq(O!Event) /\ Reading
        /\ Len(got) \in Nat /\ Len(got) <= From
    BY DEF IInv, PullInv, GotInv, Reading
  <1>2. /\ From' = From + PageSize /\ From \in Nat /\ PageSize \in Nat \ {0}
        /\ got' \in Seq(O!Event) /\ Len(got') = Len(got) + Len(O!Page(events))
        /\ O!Page(events) \in Seq(O!Event)
        /\ Len(O!Page(events)) \in 1 .. PageSize /\ From + Len(O!Page(events)) <= Len(events)
        /\ Len(O!Page(events)) = PageSize \/ From + Len(O!Page(events)) = Len(events)
        /\ \A i \in 1 .. Len(got) : got'[i] = got[i]
        /\ \A i \in 1 .. Len(O!Page(events)) : /\ got'[Len(got) + i] = events[From + i]
                                            /\ O!Page(events)[i] = events[From + i]
                                            /\ From + i \in 1 .. Len(events)
        /\ UNCHANGED <<events, reviews, permitted, turn, pass>>
        /\ UNCHANGED <<restored, approver, review, decision, coexisted>>
    BY <1>1, MoreOfList
  <1>. DEFINE n == Len(O!Page(events))
  <1>3. /\ O!TypeOK' /\ PullInv' /\ EvidenceInv' /\ GateInv'
        /\ Len(got') \in Nat /\ Len(got') <= From'
    BY <1>1, MoreStep
  <1>4. GotInv'
    BY <1>2, <1>3 DEF GotInv
  <1>5. ASSUME LabelerLost, Len(got) = From, From <= Len(events),
               \A i \in 1 .. Len(got) : got[i] = events[i]
        PROVE  LabelerMissed'
    <2>1. ASSUME NEW i \in 1 .. Len(got')
          PROVE  got'[i] = events[i]
      <3>1. CASE i <= Len(got)
        BY <1>2, <1>5, <3>1
      <3>2. CASE i > Len(got)
        <4>1. i - From \in 1 .. n /\ From + (i - From) = i
          BY <1>2, <1>5, <3>2
        <4>. QED
          BY <1>2, <1>5, <4>1
      <3>. QED
        BY <1>1, <3>1, <3>2
    <2>2. CASE n = PageSize
      <3>1. Len(got') = From' /\ From' <= Len(events')
        BY <1>2, <1>5, <2>2
      <3>2. LabelerLost'
        BY <1>2, <1>5 DEF LabelerLost
      <3>. QED
        BY <1>2, <2>1, <3>1, <3>2 DEF LabelerMissed
    <2>3. CASE From + n = Len(events)
      <3>1. Len(got') = Len(events) /\ From' >= Len(events) /\ Len(events) \in Nat
        BY <1>1, <1>2, <1>5, <2>3
      <3>2. LabeledBy(got', approver) => LabeledBy(events, approver)
        <4>1. \A i \in 1 .. Len(got') : (i + 1) .. Len(got') \subseteq 1 .. Len(got')
          BY <1>3
        <4>. QED
          BY <2>1, <3>1, <4>1 DEF LabeledBy
      <3>3. ~LabeledBy(got', approver')
        BY <1>2, <1>5, <3>2 DEF LabelerLost
      <3>4. (From' + 1) .. Len(events') = {}
        BY <1>2, <3>1
      <3>. QED
        BY <3>3, <3>4 DEF LabelerMissed
    <2>. QED
      BY <1>2, <2>2, <2>3
  <1>6. ASSUME ~LabeledBy(got, approver),
               \A i \in (From + 1) .. Len(events) :
                   ~(events[i].what = "labeled" /\ events[i].by = approver)
        PROVE  LabelerMissed'
    <2>1. \A i \in 1 .. n : ~(O!Page(events)[i].what = "labeled" /\ O!Page(events)[i].by = approver)
      <3>. TAKE i \in 1 .. n
      <3>1. From + i \in (From + 1) .. Len(events) /\ O!Page(events)[i] = events[From + i]
        BY <1>1, <1>2, SMTT(40)
      <3>. QED
        BY <1>6, <3>1
    <2>2. got' = got \o O!Page(events)
      BY DEF O!More
    <2>3. ~LabeledBy(got', approver)
      BY <1>1, <1>2, <1>6, <2>1, <2>2, LabelerOfMore
    <2>4. \A i \in (From' + 1) .. Len(events') : i \in (From + 1) .. Len(events)
      BY <1>1, <1>2
    <2>. QED
      BY <1>2, <1>6, <2>3, <2>4 DEF LabelerMissed
  <1>7. HeldInv'
    <2>1. LabelerMissed => LabelerMissed'
      BY <1>5, <1>6 DEF LabelerMissed
    <2>2. (PermissionLost => PermissionLost') /\ (ReviewLost => ReviewLost')
      BY <1>2 DEF PermissionLost, ReviewLost, ReviewLater
    <2>3. HeldInv
      BY DEF IInv
    <2>. QED
      BY <1>2, <2>1, <2>2, <2>3 DEF HeldInv
  <1>. QED
    BY <1>3, <1>4, <1>7 DEF IInv

(* A list has ended when nothing of it is past what was got.               *)
LEMMA EndOfList ==
    ASSUME IInv, O!PolicyOverrideAssumption, NEW E, NEW s \in Seq(E), got \in Seq(E), O!Ends(s)
    PROVE  O!All(s) = got /\ Len(s) <= From /\ From \in Nat
  <1>1. page \in 1 .. MaxPages
    BY DEF IInv, O!TypeOK
  <1>2. /\ Len(O!Page(s)) = IF Len(s) <= From THEN 0
                          ELSE IF From + PageSize < Len(s) THEN PageSize
                          ELSE Len(s) - From
        /\ From \in Nat /\ PageSize \in Nat \ {0}
    BY <1>1, PageIs, PageBounds
  <1>3. O!Page(s) = <<>> /\ Len(O!Page(s)) = 0
    BY DEF O!Ends
  <1>4. Len(s) <= From
    <2>1. Len(s) \in Nat
      OBVIOUS
    <2>. QED
      BY <1>2, <1>3, <2>1
  <1>5. O!All(s) = got
    BY <1>3, ConcatEmptySeq DEF O!All
  <1>. QED
    BY <1>2, <1>4, <1>5

LEMMA FetchEventsStep ==
    ASSUME IInv, O!PolicyOverrideAssumption, O!FetchEvents
    PROVE  IInv'
  <1>1. /\ O!TypeOK /\ PullInv /\ GotInv /\ EvidenceInv /\ HeldInv /\ GateInv
        /\ turn = "events" /\ Reading /\ events \in Seq(O!Event) /\ got \in Seq(O!Event)
    BY DEF IInv, O!FetchEvents, Reading, PullInv, GotInv
  <1>2. CASE O!Inactive
    BY <1>1, <1>2, DecideStep DEF O!Inactive
  <1>3. CASE ~O!Ends(events) /\ O!WithinCap /\ O!More(events)
    BY <1>1, <1>3, MoreEventsStep
  <1>4. ASSUME O!Ends(events), NEW u, u = O!LastLabeler(O!All(events)), u # NoUser,
               ~(pass = 2 /\ u # approver), approver' = u, O!Read("permission"),
               UNCHANGED <<pass, pullRequest, review, may, decision, coexisted>>
        PROVE  IInv'
    <2>1. /\ turn' = "permission" /\ page' = 1 /\ got' = <<>> /\ From' = 0 /\ Len(got') = 0
          /\ page' \in 1 .. MaxPages /\ Len(got') <= PageSize * MaxPages
          /\ UNCHANGED <<events, reviews, head, merged, permitted, checkout>>
          /\ UNCHANGED <<security, before, after, cleared, rows, written, restored, interference>>
          /\ UNCHANGED <<pass, pullRequest, review, may, decision, coexisted>>
      BY <1>4, ReadStarts
    <2>2. O!All(events) = got /\ Len(events) <= From /\ From \in Nat
      BY <1>1, <1>4, EndOfList
    <2>3. u \in User
      <3>1. O!LabelEvents(got) \in SUBSET (1 .. Len(got)) /\ Len(got) \in Nat
        BY <1>1 DEF O!LabelEvents
      <3>2. O!LabelEvents(got) # {} => O!Latest(O!LabelEvents(got)) \in 1 .. Len(got)
        BY <3>1, LatestIsLast
      <3>3. \A i \in 1 .. Len(got) : got[i].by \in User
        <4>1. \A i \in 1 .. Len(got) : got[i] \in O!Event
          BY <1>1
        <4>. QED
          BY <4>1 DEF O!Event
      <3>. QED
        BY <1>4, <2>2, <3>2, <3>3 DEF O!LastLabeler
    <2>4. LabeledBy(got, u)
      BY <1>1, <1>4, <2>2, <2>3, LastLabelerIs
    <2>5. O!TypeOK'
      BY <1>1, <1>4, <2>1, <2>3 DEF O!TypeOK
    <2>6. PullInv'
      BY <1>1, <2>1 DEF PullInv
    <2>7. GotInv'
      BY <2>1 DEF GotInv
    <2>8. EvidenceInv'
      <3>1. decision = "none" /\ pass \in 1 .. 2
        BY <1>1 DEF EvidenceInv, O!TypeOK
      <3>2. pass = 2 => approver' = approver
        BY <1>4
      <3>. QED
        BY <1>1, <1>4, <2>1, <2>3, <3>1, <3>2 DEF EvidenceInv, Reading, Remembered, O!Active
    <2>9. HeldInv'
      <3>1. SUFFICES ASSUME pass = 2, ~restored, ~coexisted
                     PROVE  PermissionLost' \/ ReviewLost'
        BY <2>1 DEF HeldInv
      <3>2. approver' = approver /\ u = approver /\ decision = "none"
        BY <1>1, <1>4, <3>1 DEF EvidenceInv
      <3>3. ~LabelerMissed
        <4>1. CASE /\ LabelerLost /\ Len(got) = From /\ From <= Len(events)
                   /\ \A i \in 1 .. Len(got) : got[i] = events[i]
          <5>1. Len(got) = Len(events)
            BY <1>1, <2>2, <4>1
          <5>2. got = events
            BY <1>1, <4>1, <5>1, SeqEqual
          <5>3. LabeledBy(events, approver)
            BY <2>4, <3>2, <5>2
          <5>. QED
            BY <4>1, <5>3 DEF LabelerLost
        <4>. QED
          BY <2>4, <3>2, <4>1 DEF LabelerMissed
      <3>4. PermissionLost \/ ReviewLost
        BY <1>1, <3>1, <3>2, <3>3 DEF HeldInv
      <3>. QED
        BY <2>1, <3>2, <3>4 DEF PermissionLost, ReviewLost, ReviewLater
    <2>10. GateInv'
      BY <1>1, <2>1 DEF GateInv, Reading
    <2>. QED
      BY <2>5, <2>6, <2>7, <2>8, <2>9, <2>10 DEF IInv
  <1>5. \/ O!Inactive
        \/ ~O!Ends(events) /\ O!WithinCap /\ O!More(events)
        \/ /\ O!Ends(events)
           /\ LET u == O!LastLabeler(O!All(events))
              IN  /\ u # NoUser /\ ~(pass = 2 /\ u # approver) /\ approver' = u
                  /\ O!Read("permission") /\ UNCHANGED <<pass, pullRequest, review, may, decision, coexisted>>
    BY Zenon DEF O!FetchEvents
  <1>. QED
    BY <1>2, <1>3, <1>4, <1>5

LEMMA FetchPermissionStep ==
    ASSUME IInv, O!PolicyOverrideAssumption, O!FetchPermission
    PROVE  IInv'
  <1>1. /\ O!TypeOK /\ PullInv /\ GotInv /\ EvidenceInv /\ HeldInv /\ GateInv
        /\ turn = "permission" /\ Reading
    BY DEF IInv, O!FetchPermission, Reading
  <1>2. CASE O!Inactive
    BY <1>1, <1>2, DecideStep DEF O!Inactive
  <1>3. CASE /\ ~(O!RereadsPermission /\ approver \notin permitted)
             /\ may' = TRUE /\ O!Read("reviews")
             /\ UNCHANGED <<pass, pullRequest, approver, review, decision, coexisted>>
    <2>1. /\ turn' = "reviews" /\ page' = 1 /\ got' = <<>> /\ From' = 0 /\ Len(got') = 0
          /\ page' \in 1 .. MaxPages /\ Len(got') <= PageSize * MaxPages
          /\ UNCHANGED <<events, reviews, head, merged, permitted, checkout>>
          /\ UNCHANGED <<security, before, after, cleared, rows, written, restored, interference>>
          /\ UNCHANGED <<pass, pullRequest, approver, review, decision, coexisted>> /\ may' = TRUE
      BY <1>3, ReadStarts
    <2>2. O!TypeOK'
      BY <1>1, <2>1 DEF O!TypeOK
    <2>3. PullInv'
      BY <1>1, <2>1 DEF PullInv
    <2>4. GotInv'
      BY <2>1 DEF GotInv
    <2>5. EvidenceInv'
      BY <1>1, <2>1 DEF EvidenceInv, Reading, Remembered, O!Active
    <2>6. HeldInv'
      <3>1. SUFFICES ASSUME pass = 2, ~restored, ~coexisted
                     PROVE  ReviewMissed'
        BY <2>1 DEF HeldInv
      <3>2. ReviewLost
        BY <1>1, <1>3, <3>1 DEF HeldInv, EvidenceInv, PermissionLost, O!RereadsPermission
      <3>3. CASE ReviewLater
        <4>1. \E i \in (From' + 1) .. Len(reviews') : i > review'.id /\ reviews'[i].by = approver'
          BY <2>1, <3>3 DEF ReviewLater
        <4>. QED
          BY <2>1, <4>1 DEF ReviewMissed
      <3>4. CASE reviews[review.id] # review
        BY <2>1, <3>4 DEF ReviewMissed
      <3>. QED
        BY <3>2, <3>3, <3>4 DEF ReviewLost
    <2>7. GateInv'
      BY <1>1, <2>1 DEF GateInv, Reading
    <2>. QED
      BY <2>2, <2>3, <2>4, <2>5, <2>6, <2>7 DEF IInv
  <1>. QED
    BY <1>2, <1>3 DEF O!FetchPermission

LEMMA MoreReviewsStep ==
    ASSUME IInv, O!PolicyOverrideAssumption, turn = "reviews", ~O!Ends(reviews), O!WithinCap, O!More(reviews)
    PROVE  IInv'
  <1>1. /\ reviews \in Seq(O!Review) /\ got \in Seq(O!Review) /\ Reading
        /\ Len(got) \in Nat /\ Len(got) <= From /\ Len(reviews) \in Nat
        /\ \A i \in 1 .. Len(reviews) : reviews[i].id = i
        /\ \A i \in 1 .. Len(got) : got[i].id <= From /\ got[i].id <= Len(reviews)
        /\ \A i, j \in 1 .. Len(got) : i < j => got[i].id < got[j].id
    BY DEF IInv, PullInv, GotInv, Reading
  <1>2. /\ From' = From + PageSize /\ From \in Nat /\ PageSize \in Nat \ {0}
        /\ got' \in Seq(O!Review) /\ Len(got') = Len(got) + Len(O!Page(reviews))
        /\ Len(O!Page(reviews)) \in 1 .. PageSize /\ From + Len(O!Page(reviews)) <= Len(reviews)
        /\ Len(O!Page(reviews)) = PageSize \/ From + Len(O!Page(reviews)) = Len(reviews)
        /\ \A i \in 1 .. Len(got) : got'[i] = got[i]
        /\ \A i \in 1 .. Len(O!Page(reviews)) : /\ got'[Len(got) + i] = reviews[From + i]
                                             /\ From + i \in 1 .. Len(reviews)
        /\ UNCHANGED <<events, reviews, permitted, turn, pass>>
        /\ UNCHANGED <<restored, approver, review, decision, coexisted>>
    BY <1>1, MoreOfList
  <1>. DEFINE n == Len(O!Page(reviews))
  <1>3. /\ O!TypeOK' /\ PullInv' /\ EvidenceInv' /\ GateInv'
        /\ Len(got') \in Nat /\ Len(got') <= From'
    BY <1>1, MoreStep
  <1>4. ASSUME NEW k \in 1 .. Len(got'), k > Len(got)
        PROVE  /\ From + (k - Len(got)) \in 1 .. Len(reviews)
               /\ got'[k] = reviews[From + (k - Len(got))]
               /\ got'[k].id = From + (k - Len(got)) /\ got'[k].id <= From'
               /\ k - Len(got) \in 1 .. n
    <2>1. k - Len(got) \in 1 .. n /\ Len(got) + (k - Len(got)) = k
      BY <1>1, <1>2, <1>4
    <2>2. /\ From + (k - Len(got)) \in 1 .. Len(reviews)
          /\ got'[k] = reviews[From + (k - Len(got))]
      BY <1>2, <2>1
    <2>3. reviews[From + (k - Len(got))].id = From + (k - Len(got))
      BY <1>1, <2>2
    <2>4. got'[k].id = From + (k - Len(got))
      BY <2>2, <2>3
    <2>5. From + (k - Len(got)) <= From'
      <3>. HIDE DEF n
      <3>. QED
        BY <1>2, <2>1
    <2>. QED
      BY <2>1, <2>2, <2>4, <2>5
  <1>5. ASSUME NEW k \in 1 .. Len(got'), ~(k > Len(got))
        PROVE  k \in 1 .. Len(got) /\ got'[k] = got[k]
    BY <1>1, <1>2, <1>5
  <1>6. \A i \in 1 .. Len(got') : got'[i].id <= From' /\ got'[i].id <= Len(reviews')
    <2>. TAKE i \in 1 .. Len(got')
    <2>1. CASE i > Len(got)
      <3>1. /\ From + (i - Len(got)) \in 1 .. Len(reviews)
            /\ got'[i].id = From + (i - Len(got)) /\ got'[i].id <= From'
        BY <1>4, <2>1
      <3>2. From + (i - Len(got)) <= Len(reviews)
        BY <1>1, <3>1
      <3>. QED
        BY <1>2, <3>1, <3>2
    <2>2. CASE ~(i > Len(got))
      <3>1. got[i] \in O!Review /\ got'[i] = got[i] /\ got[i].id <= From /\ got[i].id <= Len(reviews)
        BY <1>1, <1>5, <2>2
      <3>2. got[i].id \in Nat
        BY <3>1 DEF O!Review
      <3>. QED
        BY <1>2, <3>1, <3>2
    <2>. QED
      BY <2>1, <2>2
  <1>7. ASSUME NEW i \in 1 .. Len(got'), NEW j \in 1 .. Len(got'), i < j
        PROVE  got'[i].id < got'[j].id
    <2>1. CASE i > Len(got)
      <3>1. j > Len(got)
        BY <1>1, <1>7, <2>1
      <3>2. /\ got'[i].id = From + (i - Len(got)) /\ got'[j].id = From + (j - Len(got))
        BY <1>4, <2>1, <3>1
      <3>. QED
        BY <1>1, <1>2, <1>7, <3>2
    <2>2. CASE ~(i > Len(got)) /\ j > Len(got)
      <3>1. got[i] \in O!Review /\ got'[i] = got[i] /\ got[i].id <= From
        BY <1>1, <1>5, <2>2
      <3>2. got[i].id \in Nat
        BY <3>1 DEF O!Review
      <3>3. got'[j].id = From + (j - Len(got)) /\ j - Len(got) \in 1 .. n
        BY <1>4, <2>2
      <3>. QED
        BY <1>2, <3>1, <3>2, <3>3
    <2>3. CASE ~(i > Len(got)) /\ ~(j > Len(got))
      BY <1>1, <1>5, <1>7, <2>3
    <2>. QED
      BY <2>1, <2>2, <2>3
  <1>8. GotInv'
    BY <1>2, <1>3, <1>6, <1>7 DEF GotInv
  <1>9. ASSUME ReviewMissed, pass = 2
        PROVE  ReviewMissed'
    <2>1. CASE \E j \in 1 .. Len(got) : got[j].by = approver /\ got[j].id > review.id
      <3>1. PICK j \in 1 .. Len(got) : got[j].by = approver /\ got[j].id > review.id
        BY <2>1
      <3>2. j \in 1 .. Len(got') /\ got'[j] = got[j]
        BY <1>1, <1>2, <3>1
      <3>. QED
        BY <1>2, <3>1, <3>2 DEF ReviewMissed
    <2>2. CASE /\ Len(got) = From
               /\ \E i \in (From + 1) .. Len(reviews) : i > review.id /\ reviews[i].by = approver
      <3>1. PICK i \in (From + 1) .. Len(reviews) : i > review.id /\ reviews[i].by = approver
        BY <2>2
      <3>2. CASE i <= From + n
        <4>1. i - From \in 1 .. n /\ From + (i - From) = i
          BY <1>1, <1>2, <3>2
        <4>2. /\ got'[Len(got) + (i - From)] = reviews[From + (i - From)]
              /\ From + (i - From) \in 1 .. Len(reviews)
          BY <1>2, <4>1
        <4>3. Len(got) + (i - From) = i /\ i \in 1 .. Len(got')
          <5>1. /\ Len(got) = From /\ From \in Nat /\ n \in Nat /\ i - From \in 1 .. n
                /\ Len(got') = From + n
            BY <1>2, <2>2, <4>1
          <5>. HIDE DEF n
          <5>. QED
            BY <1>1, <5>1
        <4>4. got'[i] = reviews[i] /\ i \in 1 .. Len(reviews)
          BY <4>1, <4>2, <4>3
        <4>5. got'[i].id = i
          BY <1>1, <4>4
        <4>. QED
          BY <1>2, <3>1, <4>3, <4>4, <4>5 DEF ReviewMissed
      <3>3. CASE i > From + n
        <4>1. n = PageSize
          BY <1>1, <1>2, <3>3
        <4>2. Len(got') = From' /\ i \in (From' + 1) .. Len(reviews')
          BY <1>1, <1>2, <2>2, <3>3, <4>1
        <4>. QED
          BY <1>2, <3>1, <4>2 DEF ReviewMissed
      <3>. QED
        BY <1>1, <1>2, <3>2, <3>3
    <2>3. CASE reviews[review.id] # review /\ \A j \in 1 .. Len(got) : got[j] # review
      <3>1. ASSUME NEW j \in 1 .. Len(got')
            PROVE  got'[j] # review
        <4>1. CASE j > Len(got)
          <5>1. PICK k \in 1 .. Len(reviews) : got'[j] = reviews[k]
            BY <1>4, <4>1
          <5>. QED
            BY <1>1, <2>3, <5>1
        <4>2. CASE ~(j > Len(got))
          BY <1>5, <2>3, <4>2
        <4>. QED
          BY <4>1, <4>2
      <3>. QED
        BY <1>2, <2>3, <3>1 DEF ReviewMissed
    <2>. QED
      BY <1>9, <2>1, <2>2, <2>3 DEF ReviewMissed
  <1>10. HeldInv'
    BY <1>2, <1>9 DEF HeldInv, IInv
  <1>. QED
    BY <1>3, <1>8, <1>10 DEF IInv

(* A second reading that ends in the same review has missed none.          *)
LEMMA SameReview ==
    ASSUME IInv, O!PolicyOverrideAssumption, turn = "reviews", pass = 2, O!Ends(reviews),
           O!AuthorizedReview(O!All(reviews), approver, pullRequest.head) = review
    PROVE  ~ReviewMissed
  <1>1. /\ reviews \in Seq(O!Review) /\ got \in Seq(O!Review) /\ review \in O!Review
        /\ Len(got) \in Nat /\ Len(reviews) \in Nat /\ review # NoReview
        /\ \A i, j \in 1 .. Len(got) : i < j => got[i].id < got[j].id
    BY DEF IInv, PullInv, GotInv, EvidenceInv, Remembered, O!PolicyOverrideAssumption
  <1>2. O!All(reviews) = got /\ Len(reviews) <= From /\ From \in Nat
    BY <1>1, EndOfList
  <1>3. PICK i \in 1 .. Len(got) :
            /\ review = got[i] /\ \A j \in 1 .. Len(got) : got[j].by = approver => j <= i
    BY <1>1, <1>2, AuthorizedIsLatest
  <1>4. \A j \in 1 .. Len(got) : got[j].id \in Nat
    <2>1. \A j \in 1 .. Len(got) : got[j] \in O!Review
      BY <1>1
    <2>. QED
      BY <2>1 DEF O!Review
  <1>5. ASSUME NEW j \in 1 .. Len(got), got[j].by = approver
        PROVE  ~(got[j].id > review.id)
    <2>1. j <= i
      BY <1>3, <1>5
    <2>2. j = i \/ j < i
      BY <1>1, <2>1
    <2>. QED
      BY <1>1, <1>3, <1>4, <2>2
  <1>6. (From + 1) .. Len(reviews) = {}
    BY <1>1, <1>2
  <1>. QED
    BY <1>3, <1>5, <1>6 DEF ReviewMissed

LEMMA FetchReviewsStep ==
    ASSUME IInv, O!PolicyOverrideAssumption, O!FetchReviews
    PROVE  IInv'
  <1>1. /\ O!TypeOK /\ PullInv /\ GotInv /\ EvidenceInv /\ HeldInv /\ GateInv
        /\ turn = "reviews" /\ Reading /\ reviews \in Seq(O!Review) /\ got \in Seq(O!Review)
        /\ decision = "none" /\ pass \in 1 .. 2 /\ approver \in User
    BY DEF IInv, O!FetchReviews, Reading, PullInv, GotInv, EvidenceInv, O!TypeOK
  <1>. DEFINE r == O!AuthorizedReview(O!All(reviews), approver, pullRequest.head)
  <1>2. CASE O!Inactive
    BY <1>1, <1>2, DecideStep DEF O!Inactive
  <1>3. CASE ~O!Ends(reviews) /\ O!WithinCap /\ O!More(reviews)
    BY <1>1, <1>3, MoreReviewsStep
  <1>4. CASE O!Ends(reviews) /\ pass = 2 /\ r = review /\ O!Decide("active")
    <2>1. ~ReviewMissed
      BY <1>1, <1>4, SameReview
    <2>2. restored \/ coexisted
      BY <1>1, <1>4, <2>1 DEF HeldInv
    <2>. QED
      BY <1>1, <1>4, <2>2, DecideStep
  <1>5. CASE /\ O!Ends(reviews) /\ r # NoReview /\ pass # 2 /\ review' = r /\ O!Read("tree")
             /\ UNCHANGED <<pass, pullRequest, approver, may, decision, coexisted>>
    <2>1. /\ turn' = "tree" /\ page' = 1 /\ got' = <<>> /\ From' = 0 /\ Len(got') = 0
          /\ page' \in 1 .. MaxPages /\ Len(got') <= PageSize * MaxPages
          /\ UNCHANGED <<events, reviews, head, merged, permitted, checkout>>
          /\ UNCHANGED <<security, before, after, cleared, rows, written, restored, interference>>
          /\ UNCHANGED <<pass, pullRequest, approver, may, decision, coexisted>>
      BY <1>5, ReadStarts
    <2>2. O!All(reviews) = got
      BY <1>1, <1>5, EndOfList
    <2>3. PICK i \in 1 .. Len(got) :
              /\ review' = got[i] /\ got[i].by = approver /\ got[i].accepts
              /\ got[i].commit = pullRequest.head
      BY <1>1, <1>5, <2>2, AuthorizedIsLatest
    <2>4. /\ review' \in O!Review /\ review'.by = approver /\ review'.accepts
          /\ review'.commit = pullRequest.head /\ review'.id <= Len(reviews)
      BY <1>1, <2>3 DEF GotInv
    <2>5. O!TypeOK'
      BY <1>1, <2>1 DEF O!TypeOK
    <2>6. PullInv'
      BY <1>1, <2>1, <2>4 DEF PullInv
    <2>7. GotInv'
      BY <2>1 DEF GotInv
    <2>8. EvidenceInv'
      BY <1>1, <1>5, <2>1, <2>4 DEF EvidenceInv, Reading, Remembered, O!Active
    <2>9. HeldInv'
      BY <1>5, <2>1 DEF HeldInv
    <2>10. GateInv'
      BY <1>1, <2>1 DEF GateInv, Reading
    <2>. QED
      BY <2>5, <2>6, <2>7, <2>8, <2>9, <2>10 DEF IInv
  <1>6. \/ O!Inactive
        \/ ~O!Ends(reviews) /\ O!WithinCap /\ O!More(reviews)
        \/ O!Ends(reviews) /\ pass = 2 /\ r = review /\ O!Decide("active")
        \/ /\ O!Ends(reviews) /\ r # NoReview /\ pass # 2 /\ review' = r /\ O!Read("tree")
           /\ UNCHANGED <<pass, pullRequest, approver, may, decision, coexisted>>
    BY Zenon DEF O!FetchReviews
  <1>. QED
    BY <1>2, <1>3, <1>4, <1>5, <1>6

LEMMA VerifyInputStep ==
    ASSUME IInv, O!PolicyOverrideAssumption, O!VerifyInput
    PROVE  IInv'
  <1>1. /\ O!TypeOK /\ PullInv /\ GotInv /\ EvidenceInv /\ HeldInv /\ GateInv
        /\ turn = "tree" /\ Reading /\ decision = "none"
    BY DEF IInv, O!VerifyInput, Reading, EvidenceInv
  <1>2. CASE O!Inactive
    BY <1>1, <1>2, DecideStep DEF O!Inactive
  <1>3. CASE /\ O!InputIsReviewed(TreeOf[pullRequest.head])
             /\ pass' = 2 /\ coexisted' = O!Holds(pullRequest, approver, review) /\ O!Read("pr")
             /\ UNCHANGED <<O!evidence, decision>>
    <2>1. /\ turn' = "pr" /\ page' = 1 /\ got' = <<>> /\ From' = 0 /\ Len(got') = 0
          /\ page' \in 1 .. MaxPages /\ Len(got') <= PageSize * MaxPages
          /\ UNCHANGED <<events, reviews, head, merged, permitted, checkout>>
          /\ UNCHANGED <<security, before, after, cleared, rows, written, restored, interference>>
          /\ UNCHANGED <<pullRequest, approver, review, may, decision>>
          /\ pass' = 2 /\ coexisted' = O!Holds(pullRequest, approver, review) /\ coexisted' \in BOOLEAN
      BY <1>3, ReadStarts DEF O!evidence, O!Holds
    <2>2. /\ pullRequest.labeled /\ approver \in User /\ review \in O!Review /\ review.by = approver
          /\ review.accepts /\ review.commit = pullRequest.head /\ review.id <= Len(reviews)
      BY <1>1 DEF EvidenceInv, Remembered
    <2>3. O!TypeOK'
      BY <1>1, <2>1 DEF O!TypeOK
    <2>4. PullInv'
      BY <1>1, <2>1 DEF PullInv
    <2>5. GotInv'
      BY <2>1 DEF GotInv
    <2>6. EvidenceInv'
      BY <1>1, <1>3, <2>1, <2>2
         DEF EvidenceInv, Reading, Remembered, O!Active, O!InputIsReviewed
    <2>7. ASSUME ~Moved, ~LabelerLost, ~PermissionLost, ~ReviewLost
          PROVE  O!Holds(pullRequest, approver, review)
      <3>1. O!LastLabeler(events) = approver
        BY <1>1, <2>2, <2>7, LastLabelerIs DEF LabelerLost, PullInv
      <3>2. O!PullRequest = pullRequest
        <4>1. O!Labeled = TRUE /\ pullRequest.labeled = TRUE
          BY <1>1, <2>2, <3>1 DEF O!Labeled, O!PolicyOverrideAssumption, PullInv
        <4>. QED
          BY <1>1, <2>7, <4>1 DEF O!PullRequest, Moved, PullInv
      <3>3. O!AuthorizedReview(reviews, approver, pullRequest.head) = review
        <4>1. reviews \in Seq(O!Review) /\ Len(reviews) \in Nat
          BY <1>1 DEF PullInv
        <4>2. review.id \in Nat \ {0}
          BY <2>2 DEF O!Review
        <4>3. PICK i \in 1 .. Len(reviews) : i = review.id
          BY <2>2, <4>1, <4>2
        <4>4. /\ reviews[i] = review
              /\ \A j \in 1 .. Len(reviews) : reviews[j].by = approver => ~(j > i)
          BY <2>7, <4>3 DEF ReviewLost, ReviewLater
        <4>5. \A j \in 1 .. Len(reviews) : reviews[j].by = reviews[i].by => j <= i
          BY <2>2, <4>1, <4>4
        <4>6. O!AuthorizedReview(reviews, reviews[i].by, reviews[i].commit) = reviews[i]
          BY <2>2, <4>1, <4>4, <4>5, LatestIsAuthorized
        <4>. QED
          BY <2>2, <4>4, <4>6
      <3>. QED
        BY <2>7, <3>1, <3>2, <3>3 DEF O!Holds, PermissionLost
    <2>8. HeldInv'
      <3>1. (Moved => Moved') /\ (LabelerLost => LabelerLost')
            /\ (PermissionLost => PermissionLost') /\ (ReviewLost => ReviewLost')
        BY <2>1 DEF Moved, LabelerLost, PermissionLost, ReviewLost, ReviewLater
      <3>. QED
        BY <2>1, <2>7, <3>1 DEF HeldInv
    <2>9. GateInv'
      BY <1>1, <2>1 DEF GateInv, Reading
    <2>. QED
      BY <2>3, <2>4, <2>5, <2>6, <2>8, <2>9 DEF IInv
  <1>. QED
    BY <1>2, <1>3 DEF O!VerifyInput

-----------------------------------------------------------------------------
(* The steps after the decision: the gates, the write and the record.      *)

LEMMA AfterDecision ==
    ASSUME IInv, turn \in {"gate", "resolve", "write", "record"},
           turn' \in {"resolve", "write", "record", "end", "failed"},
           UNCHANGED <<O!pull, checkout, pass, O!request, O!evidence, decision, coexisted, restored, interference>>,
           before' \in O!Counts, after' \in O!Counts, security' \in BOOLEAN, written' \in BOOLEAN,
           cleared' \cup rows' \subseteq Identity \cup {O!SecurityRule}
    PROVE  O!TypeOK' /\ PullInv' /\ GotInv' /\ EvidenceInv' /\ HeldInv'
  <1>1. O!TypeOK /\ PullInv /\ GotInv /\ EvidenceInv /\ HeldInv
    BY DEF IInv
  <1>2. /\ UNCHANGED <<events, reviews, head, merged, permitted, checkout, pass, page, got>>
        /\ UNCHANGED <<pullRequest, approver, review, may, decision, coexisted, restored, interference>>
    BY DEF O!pull, O!request, O!evidence
  <1>3. O!TypeOK'
    BY <1>1, <1>2 DEF O!TypeOK
  <1>4. PullInv'
    BY <1>1, <1>2 DEF PullInv
  <1>5. GotInv'
    BY <1>1, <1>2 DEF GotInv, From
  <1>6. EvidenceInv'
    BY <1>1, <1>2 DEF EvidenceInv, Reading, Remembered, O!Active
  <1>7. HeldInv'
    BY <1>1, <1>2 DEF HeldInv
  <1>. QED
    BY <1>3, <1>4, <1>5, <1>6, <1>7

LEMMA GateStep == ASSUME IInv, O!Gate PROVE IInv'
  <1>1. /\ O!TypeOK /\ GateInv /\ turn = "gate" /\ security' \in BOOLEAN /\ before' \in O!Counts
        /\ written = FALSE /\ cleared = {} /\ after \in O!Counts
    BY DEF IInv, O!Gate, O!TypeOK, GateInv
  <1>2. /\ UNCHANGED <<O!pull, checkout, pass, O!request, O!evidence, decision, after, coexisted,
                      restored, interference>>
        /\ UNCHANGED <<rows, written>> /\ after' \in O!Counts
        /\ \/ turn' = "end" /\ cleared' = {}
           \/ /\ turn' = "resolve" /\ (security' => O!Active)
              /\ cleared' = O!Blocked(before') \cup (IF security' THEN {O!SecurityRule} ELSE {})
    BY <1>1 DEF O!Gate, O!Stop, O!effects
  <1>3. cleared' \cup rows' \subseteq Identity \cup {O!SecurityRule} /\ written' \in BOOLEAN
    BY <1>1, <1>2 DEF O!TypeOK, O!Blocked
  <1>4. O!TypeOK' /\ PullInv' /\ GotInv' /\ EvidenceInv' /\ HeldInv'
    BY <1>1, <1>2, <1>3, AfterDecision
  <1>5. GateInv'
    BY <1>1, <1>2 DEF GateInv, Reading, O!Active
  <1>. QED
    BY <1>4, <1>5 DEF IInv

LEMMA ResolveStep == ASSUME IInv, O!Resolve PROVE IInv'
  <1>1. /\ O!TypeOK /\ GateInv /\ turn = "resolve" /\ after' \in O!Counts /\ before \in O!Counts
        /\ written = FALSE /\ security \in BOOLEAN /\ (security => O!Active)
        /\ cleared = O!Blocked(before) \cup (IF security THEN {O!SecurityRule} ELSE {})
    BY DEF IInv, O!Resolve, O!TypeOK, GateInv
  <1>2. /\ UNCHANGED <<O!pull, checkout, pass, O!request, O!evidence, decision, security, before, coexisted,
                      restored, interference>>
        /\ UNCHANGED <<rows, written>> /\ before' \in O!Counts /\ security' \in BOOLEAN
        /\ \/ turn' = "end" /\ cleared' = cleared
           \/ turn' = "write" /\ O!Uncovered = {} /\ cleared' = cleared \cup O!Blocked(after')
    BY <1>1 DEF O!Resolve, O!Stop, O!effects
  <1>3. cleared' \cup rows' \subseteq Identity \cup {O!SecurityRule} /\ written' \in BOOLEAN
    BY <1>1, <1>2 DEF O!TypeOK, O!Blocked
  <1>4. O!TypeOK' /\ PullInv' /\ GotInv' /\ EvidenceInv' /\ HeldInv'
    BY <1>1, <1>2, <1>3, AfterDecision
  <1>5. O!Uncovered = {} => Covered'
    <2>1. \A i \in O!Blocked(after') : after'[i] \in Int /\ before[i] \in Int
      <3>1. \A i \in Identity : after'[i] \in 0 .. MaxCount /\ before[i] \in 0 .. MaxCount
        BY <1>1 DEF O!Counts
      <3>. QED
        BY <3>1 DEF O!Blocked
    <2>. QED
      BY <1>2, <2>1 DEF O!Uncovered, Covered, O!Active
  <1>6. GateInv'
    <2>1. turn' = "write" => cleared' = Overridden'
      BY <1>1, <1>2 DEF Overridden
    <2>. QED
      BY <1>1, <1>2, <1>5, <2>1 DEF GateInv, Reading, O!Active
  <1>. QED
    BY <1>4, <1>6 DEF IInv

LEMMA ApplyingStep == ASSUME IInv, O!Write \/ O!Record \/ O!Fail PROVE IInv'
  <1>1. O!TypeOK /\ GateInv /\ written \in BOOLEAN
    BY DEF IInv, O!TypeOK
  <1>2. /\ UNCHANGED <<O!pull, checkout, pass, O!request, O!evidence, decision, coexisted, restored, interference>>
        /\ UNCHANGED <<security, before, after>> /\ cleared' = cleared
    BY DEF O!Write, O!Record, O!Fail, O!Applying, O!findings, O!effects
  <1>3. \/ turn = "write" /\ turn' = "record" /\ written' = TRUE /\ rows' = rows
        \/ turn = "record" /\ turn' = "end" /\ written' = written /\ rows' = cleared
        \/ turn \in {"write", "record"} /\ turn' = "failed" /\ written' = written /\ rows' = rows
    BY DEF O!Write, O!Record, O!Fail, O!RowsFor, O!effects
  <1>4. /\ before' \in O!Counts /\ after' \in O!Counts /\ security' \in BOOLEAN /\ written' \in BOOLEAN
        /\ cleared' \cup rows' \subseteq Identity \cup {O!SecurityRule}
    BY <1>1, <1>2, <1>3 DEF O!TypeOK
  <1>5. O!TypeOK' /\ PullInv' /\ GotInv' /\ EvidenceInv' /\ HeldInv'
    BY <1>2, <1>3, <1>4, AfterDecision
  <1>6. (Covered => Covered') /\ Overridden' = Overridden /\ (O!Active => O!Active')
    BY <1>2 DEF Covered, Overridden, O!Active
  <1>7. GateInv'
    BY <1>1, <1>2, <1>3, <1>6 DEF GateInv, Reading
  <1>. QED
    BY <1>5, <1>7 DEF IInv

-----------------------------------------------------------------------------
(* People.  What they do leaves the run where it is, and adds to the       *)
(* pull request.                                                           *)

Answers ==
    /\ events' \in Seq(O!Event) /\ reviews' \in Seq(O!Review)
    /\ \A i \in 1 .. Len(reviews') : reviews'[i].id = i
    /\ Len(reviews) <= Len(reviews') /\ head' \in Rev /\ merged' \in BOOLEAN
    /\ (merged => merged') /\ permitted' \subseteq User
    /\ restored' \in BOOLEAN /\ (restored => restored')
Persists ==
    pass = 2 /\ ~restored' =>
        /\ Moved => Moved'
        /\ LabelerLost => LabelerLost'
        /\ turn = "events" /\ LabelerMissed => LabelerMissed'
        /\ PermissionLost => PermissionLost'
        /\ ReviewLost => ReviewLost'
        /\ turn = "reviews" /\ ReviewMissed => ReviewMissed'

LEMMA ChangeLeaves ==
    ASSUME O!Change
    PROVE  /\ UNCHANGED <<checkout, turn, pass, page, got, pullRequest, approver, review, may, decision>>
           /\ UNCHANGED <<security, before, after, cleared, rows, written, coexisted>>
           /\ UNCHANGED From
  <1>1. /\ UNCHANGED <<checkout, turn, pass, page, got, pullRequest, approver, review, may, decision>>
        /\ UNCHANGED <<security, before, after, cleared, rows, written, coexisted>>
    BY DEF O!Change, O!request, O!evidence, O!findings, O!effects
  <1>. QED
    BY <1>1 DEF From

LEMMA ChangeStep ==
    ASSUME IInv, O!PolicyOverrideAssumption, O!Change, Answers, Persists
    PROVE  IInv'
  <1>1. /\ UNCHANGED <<checkout, turn, pass, page, got, pullRequest, approver, review, may, decision>>
        /\ UNCHANGED <<security, before, after, cleared, rows, written, coexisted>> /\ UNCHANGED From
    BY ChangeLeaves
  <1>2. O!TypeOK /\ PullInv /\ GotInv /\ EvidenceInv /\ HeldInv /\ GateInv
    BY DEF IInv
  <1>3. interference' \in 0 .. MaxInterference
    BY <1>2 DEF O!Change, O!TypeOK, O!PolicyOverrideAssumption
  <1>4. O!TypeOK'
    BY <1>1, <1>2, <1>3 DEF O!TypeOK, Answers
  <1>5. PullInv'
    BY <1>1, <1>2 DEF PullInv, Answers
  <1>6. Len(reviews) \in Nat /\ Len(reviews') \in Nat /\ Len(reviews) <= Len(reviews')
    BY <1>2 DEF PullInv, Answers
  <1>7. GotInv'
    <2>1. ASSUME turn = "reviews", NEW i \in 1 .. Len(got)
          PROVE  got[i].id <= Len(reviews')
      <3>1. got[i].id \in Nat /\ got[i].id <= Len(reviews)
        <4>1. got[i] \in O!Review
          BY <1>2, <2>1 DEF GotInv
        <4>. QED
          BY <1>2, <2>1, <4>1 DEF GotInv, O!Review
      <3>. QED
        BY <1>6, <3>1
    <2>. QED
      BY <1>1, <1>2, <2>1 DEF GotInv
  <1>8. EvidenceInv'
    <2>1. Remembered => review.id <= Len(reviews')
      <3>1. Remembered => review.id \in Nat /\ review.id <= Len(reviews)
        BY <1>2 DEF EvidenceInv, O!Review
      <3>. QED
        BY <1>6, <3>1
    <2>. QED
      BY <1>1, <1>2, <2>1 DEF EvidenceInv, Reading, Remembered, O!Active, Answers
  <1>9. HeldInv'
    BY <1>1, <1>2 DEF HeldInv, Persists, Answers
  <1>10. GateInv'
    <2>1. (Covered => Covered') /\ Overridden' = Overridden /\ (O!Active => O!Active')
      BY <1>1 DEF Covered, Overridden, O!Active
    <2>. QED
      BY <1>1, <1>2, <2>1 DEF GateInv, Reading
  <1>. QED
    BY <1>4, <1>5, <1>7, <1>8, <1>9, <1>10 DEF IInv

(* A new event that does not give the label back to its account.           *)
LEMMA NewEvent ==
    ASSUME IInv, O!PolicyOverrideAssumption, NEW e \in O!Event, e.what # "other",
           events' = Append(events, e), UNCHANGED <<page, got, approver>>
    PROVE  /\ events' \in Seq(O!Event)
           /\ ~(e.what = "labeled" /\ e.by = approver) =>
                 LabelerLost' /\ (LabelerMissed => LabelerMissed')
  <1>1. /\ events \in Seq(O!Event) /\ Len(events) \in Nat /\ Len(got) \in Nat
        /\ page \in 1 .. MaxPages
    BY DEF IInv, PullInv, GotInv, O!TypeOK
  <1>2. /\ events' \in Seq(O!Event) /\ Len(events') = Len(events) + 1
        /\ events'[Len(events) + 1] = e
        /\ \A i \in 1 .. Len(events) : events'[i] = events[i]
    BY <1>1
  <1>3. From \in Nat /\ From' = From
    BY <1>1, PageBounds DEF From
  <1>4. ASSUME ~(e.what = "labeled" /\ e.by = approver)
        PROVE  LabelerLost'
    <2>1. SUFFICES ASSUME LabeledBy(events', approver)
                   PROVE  FALSE
      BY DEF LabelerLost
    <2>2. PICK i \in 1 .. Len(events') :
              /\ events'[i].what = "labeled" /\ events'[i].by = approver
              /\ \A j \in (i + 1) .. Len(events') : events'[j].what = "other"
      BY <2>1 DEF LabeledBy
    <2>3. i = Len(events) + 1 \/ Len(events) + 1 \in (i + 1) .. Len(events')
      BY <1>1, <1>2
    <2>. QED
      BY <1>2, <1>4, <2>2, <2>3
  <1>5. ASSUME ~(e.what = "labeled" /\ e.by = approver), LabelerMissed
        PROVE  LabelerMissed'
    <2>1. CASE /\ LabelerLost /\ Len(got) = From /\ From <= Len(events)
               /\ \A i \in 1 .. Len(got) : got[i] = events[i]
      <3>1. \A i \in 1 .. Len(got') : got'[i] = events'[i]
        BY <1>1, <1>2, <2>1
      <3>2. Len(got') = From' /\ From' <= Len(events')
        BY <1>1, <1>2, <1>3, <2>1
      <3>. QED
        BY <1>4, <1>5, <3>1, <3>2 DEF LabelerMissed
    <2>2. CASE /\ ~LabeledBy(got, approver)
               /\ \A i \in (From + 1) .. Len(events) :
                     ~(events[i].what = "labeled" /\ events[i].by = approver)
      <3>1. ASSUME NEW i \in (From + 1) .. Len(events')
            PROVE  ~(events'[i].what = "labeled" /\ events'[i].by = approver)
        <4>1. i = Len(events) + 1 \/ (i \in (From + 1) .. Len(events) /\ i \in 1 .. Len(events))
          BY <1>1, <1>2, <1>3
        <4>. QED
          BY <1>2, <1>5, <2>2, <4>1
      <3>. QED
        BY <1>3, <2>2, <3>1 DEF LabelerMissed
    <2>. QED
      BY <1>5, <2>1, <2>2 DEF LabelerMissed
  <1>. QED
    BY <1>2, <1>4, <1>5

LEMMA PullTypes ==
    ASSUME IInv
    PROVE  /\ events \in Seq(O!Event) /\ reviews \in Seq(O!Review) /\ Len(reviews) \in Nat
           /\ \A i \in 1 .. Len(reviews) : reviews[i].id = i
           /\ head \in Rev /\ merged \in BOOLEAN /\ permitted \subseteq User
           /\ restored \in BOOLEAN
           /\ pass = 2 => review \in O!Review /\ review.accepts /\ review.id \in 1 .. Len(reviews)
  <1>1. O!TypeOK /\ PullInv /\ EvidenceInv
    BY DEF IInv
  <1>2. pass = 2 => review \in O!Review /\ review.accepts /\ review.id <= Len(reviews)
    BY <1>1 DEF EvidenceInv, Remembered
  <1>3. review \in O!Review => review.id \in Nat \ {0}
    BY DEF O!Review
  <1>4. /\ events \in Seq(O!Event) /\ reviews \in Seq(O!Review) /\ Len(reviews) \in Nat
        /\ \A i \in 1 .. Len(reviews) : reviews[i].id = i
        /\ head \in Rev /\ merged \in BOOLEAN /\ permitted \subseteq User
        /\ restored \in BOOLEAN
    BY <1>1 DEF O!TypeOK, PullInv
  <1>. QED
    BY <1>2, <1>3, <1>4

(* The label is set or taken off.                                          *)
LEMMA LabelStep ==
    ASSUME IInv, O!PolicyOverrideAssumption, NEW u \in User, O!Label(u) \/ O!Unlabel(u)
    PROVE  IInv'
  <1>1. /\ O!Change /\ UNCHANGED <<reviews, head, merged, permitted>>
        /\ \/ /\ events' = Append(events, [what |-> "labeled", by |-> u])
              /\ restored' = (restored \/ u = approver)
           \/ /\ events' = Append(events, [what |-> "unlabeled", by |-> u])
              /\ restored' = restored
    BY DEF O!Label, O!Unlabel
  <1>2. PICK w \in {"labeled", "unlabeled"} :
            /\ events' = Append(events, [what |-> w, by |-> u])
            /\ restored' = (restored \/ (w = "labeled" /\ u = approver))
    BY <1>1, PullTypes
  <1>. DEFINE e == [what |-> w, by |-> u]
  <1>3. e \in O!Event /\ e.what = w /\ e.by = u /\ e.what # "other"
    BY DEF O!Event
  <1>4. UNCHANGED <<turn, pass, page, got, pullRequest, approver, review>> /\ UNCHANGED From
    BY <1>1, ChangeLeaves
  <1>5. /\ events' \in Seq(O!Event)
        /\ ~(w = "labeled" /\ u = approver) =>
              LabelerLost' /\ (LabelerMissed => LabelerMissed')
    <2>. HIDE DEF e
    <2>. QED
      BY <1>2, <1>3, <1>4, NewEvent DEF e
  <1>6. Answers
    BY <1>1, <1>2, <1>5, PullTypes DEF Answers
  <1>7. (Moved => Moved') /\ (PermissionLost => PermissionLost')
        /\ (ReviewLost => ReviewLost') /\ (ReviewMissed => ReviewMissed')
    BY <1>1, <1>4 DEF Moved, PermissionLost, ReviewLost, ReviewLater, ReviewMissed
  <1>8. Persists
    BY <1>2, <1>5, <1>7 DEF Persists
  <1>. QED
    BY <1>1, <1>6, <1>8, ChangeStep

LEMMA SubmitStep ==
    ASSUME IInv, O!PolicyOverrideAssumption, NEW u \in User, NEW ok \in BOOLEAN, O!Submit(u, ok)
    PROVE  IInv'
  <1>. DEFINE r == [id |-> Len(reviews) + 1, by |-> u, commit |-> head, accepts |-> ok]
  <1>1. /\ O!Change /\ reviews' = Append(reviews, r)
        /\ UNCHANGED <<events, head, merged, permitted, restored>>
    BY DEF O!Submit
  <1>2. UNCHANGED <<turn, pass, page, got, pullRequest, approver, review>> /\ UNCHANGED From
    BY <1>1, ChangeLeaves
  <1>3. r \in O!Review /\ r.id = Len(reviews) + 1
    BY PullTypes DEF O!Review
  <1>4. /\ reviews' \in Seq(O!Review) /\ Len(reviews') = Len(reviews) + 1
        /\ reviews'[Len(reviews) + 1] = r
        /\ \A i \in 1 .. Len(reviews) : reviews'[i] = reviews[i] /\ i \in 1 .. Len(reviews')
    <2>. HIDE DEF r
    <2>. QED
      BY <1>1, <1>3, PullTypes
  <1>5. \A i \in 1 .. Len(reviews') : reviews'[i].id = i
    <2>. TAKE i \in 1 .. Len(reviews')
    <2>1. i = Len(reviews) + 1 \/ i \in 1 .. Len(reviews)
      BY <1>4, PullTypes
    <2>. QED
      BY <1>3, <1>4, <2>1, PullTypes
  <1>6. Answers
    BY <1>1, <1>4, <1>5, PullTypes DEF Answers
  <1>7. (Moved => Moved') /\ (PermissionLost => PermissionLost')
        /\ (LabelerLost => LabelerLost') /\ (LabelerMissed => LabelerMissed')
    BY <1>1, <1>2 DEF Moved, PermissionLost, LabelerLost, LabelerMissed
  <1>8. ASSUME pass = 2, ReviewLost
        PROVE  ReviewLost'
    <2>1. ReviewLater => ReviewLater'
      BY <1>2, <1>4 DEF ReviewLater
    <2>2. reviews'[review.id] = reviews[review.id]
      BY <1>4, <1>8, PullTypes
    <2>. QED
      BY <1>2, <1>8, <2>1, <2>2 DEF ReviewLost
  <1>9. ASSUME pass = 2, turn = "reviews", ReviewMissed
        PROVE  ReviewMissed'
    <2>1. reviews'[review.id] = reviews[review.id]
      BY <1>4, <1>9, PullTypes
    <2>2. From \in Nat
      BY PageBounds DEF IInv, O!TypeOK
    <2>3. \A i \in (From + 1) .. Len(reviews) :
              i \in (From' + 1) .. Len(reviews') /\ reviews'[i] = reviews[i]
      BY <1>2, <1>4, <2>2, PullTypes
    <2>. QED
      BY <1>2, <1>9, <2>1, <2>3 DEF ReviewMissed
  <1>10. Persists
    BY <1>7, <1>8, <1>9 DEF Persists
  <1>. QED
    BY <1>1, <1>6, <1>10, ChangeStep

LEMMA DismissStep ==
    ASSUME IInv, O!PolicyOverrideAssumption, NEW d \in DOMAIN reviews, O!Dismiss(d)
    PROVE  IInv'
  <1>1. /\ O!Change /\ reviews' = [reviews EXCEPT ![d].accepts = FALSE]
        /\ UNCHANGED <<events, head, merged, permitted, restored>>
    BY DEF O!Dismiss
  <1>2. UNCHANGED <<turn, pass, page, got, pullRequest, approver, review>> /\ UNCHANGED From
    BY <1>1, ChangeLeaves
  <1>3. d \in 1 .. Len(reviews) /\ reviews[d] \in O!Review
    BY PullTypes
  <1>. DEFINE r == [reviews[d] EXCEPT !.accepts = FALSE]
  <1>4. r \in O!Review /\ r.id = reviews[d].id /\ r.by = reviews[d].by /\ r.accepts = FALSE
    BY <1>3 DEF O!Review
  <1>5. reviews' = [reviews EXCEPT ![d] = r]
    BY <1>1
  <1>6. /\ reviews' \in Seq(O!Review) /\ Len(reviews') = Len(reviews)
        /\ \A j \in 1 .. Len(reviews) : reviews'[j] = IF j = d THEN r ELSE reviews[j]
    <2>. HIDE DEF r
    <2>. QED
      BY <1>3, <1>4, <1>5, PullTypes, ExceptSeq
  <1>7. \A j \in 1 .. Len(reviews) : reviews'[j].id = reviews[j].id /\ reviews'[j].by = reviews[j].by
    <2>. HIDE DEF r
    <2>. QED
      BY <1>4, <1>6
  <1>8. Answers
    BY <1>1, <1>6, <1>7, PullTypes DEF Answers
  <1>9. (Moved => Moved') /\ (PermissionLost => PermissionLost')
        /\ (LabelerLost => LabelerLost') /\ (LabelerMissed => LabelerMissed')
    BY <1>1, <1>2 DEF Moved, PermissionLost, LabelerLost, LabelerMissed
  <1>10. ASSUME pass = 2, reviews[review.id] # review
         PROVE  reviews'[review.id] # review
    <2>1. reviews'[review.id] = IF review.id = d THEN r ELSE reviews[review.id]
      BY <1>6, <1>10, PullTypes
    <2>. HIDE DEF r
    <2>. QED
      BY <1>4, <1>10, <2>1, PullTypes
  <1>11. ReviewLater => ReviewLater'
    BY <1>2, <1>6, <1>7 DEF ReviewLater
  <1>12. ASSUME pass = 2, turn = "reviews", ReviewMissed
         PROVE  ReviewMissed'
    <2>1. From \in Nat
      BY PageBounds DEF IInv, O!TypeOK
    <2>2. \A i \in (From + 1) .. Len(reviews) :
              i \in (From' + 1) .. Len(reviews') /\ reviews'[i].by = reviews[i].by
      BY <1>2, <1>6, <1>7, <2>1, PullTypes
    <2>. QED
      BY <1>2, <1>10, <1>12, <2>2 DEF ReviewMissed
  <1>13. Persists
    BY <1>2, <1>9, <1>10, <1>11, <1>12 DEF Persists, ReviewLost
  <1>. QED
    BY <1>1, <1>8, <1>13, ChangeStep

(* The head moves, it is merged, or a permission is given or taken.        *)
LEMMA OtherChangeStep ==
    ASSUME IInv, O!PolicyOverrideAssumption,
           O!Merge \/ (\E h \in Rev : O!Push(h)) \/ (\E u \in User : O!Regrant(u))
    PROVE  IInv'
  <1>1. O!Change /\ UNCHANGED <<events, reviews>>
    BY DEF O!Merge, O!Push, O!Regrant
  <1>2. UNCHANGED <<turn, pass, page, got, pullRequest, approver, review>> /\ UNCHANGED From
    BY <1>1, ChangeLeaves
  <1>3. pullRequest.merged => merged
    BY DEF IInv, EvidenceInv
  <1>4. /\ head' \in Rev /\ merged' \in BOOLEAN /\ (merged => merged') /\ permitted' \subseteq User
        /\ restored' \in BOOLEAN /\ (restored => restored')
    <2>. USE PullTypes
    <2>. DEFINE Goal == /\ head' \in Rev /\ merged' \in BOOLEAN /\ (merged => merged')
                        /\ permitted' \subseteq User
                        /\ restored' \in BOOLEAN /\ (restored => restored')
    <2>1. CASE O!Merge
      BY <2>1 DEF O!Merge
    <2>2. ASSUME NEW h \in Rev, O!Push(h)
          PROVE  Goal
      BY <2>2 DEF O!Push
    <2>3. ASSUME NEW u \in User, O!Regrant(u)
          PROVE  Goal
      <3>1. permitted' \subseteq User
        BY <2>3 DEF O!Regrant
      <3>. QED
        BY <2>3, <3>1 DEF O!Regrant
    <2>. QED
      BY <2>1, <2>2, <2>3
  <1>5. Answers
    BY <1>1, <1>4, PullTypes DEF Answers
  <1>6. ~restored' => (Moved => Moved')
    BY <1>2, <1>3, PullTypes DEF Moved, O!Merge, O!Push, O!Regrant
  <1>7. ~restored' => (PermissionLost => PermissionLost')
    BY <1>2 DEF PermissionLost, O!Merge, O!Push, O!Regrant
  <1>8. (LabelerLost => LabelerLost') /\ (LabelerMissed => LabelerMissed')
        /\ (ReviewLost => ReviewLost') /\ (ReviewMissed => ReviewMissed')
    BY <1>1, <1>2 DEF LabelerLost, LabelerMissed, ReviewLost, ReviewLater, ReviewMissed
  <1>9. Persists
    BY <1>6, <1>7, <1>8 DEF Persists
  <1>. QED
    BY <1>1, <1>5, <1>9, ChangeStep

-----------------------------------------------------------------------------

LEMMA NextInv ==
    ASSUME O!PolicyOverrideAssumption, IInv, [O!Next]_O!vars
    PROVE  IInv'
  <1>1. CASE O!RequestFails
    BY <1>1, DecideStep DEF O!RequestFails, O!Inactive, Reading
  <1>2. CASE O!FetchPR \/ O!FetchEvents \/ O!FetchPermission \/ O!FetchReviews \/ O!VerifyInput
    BY <1>2, FetchPRStep, FetchEventsStep, FetchPermissionStep, FetchReviewsStep, VerifyInputStep
  <1>3. CASE O!Gate \/ O!Resolve \/ O!Write \/ O!Record \/ O!Fail
    BY <1>3, GateStep, ResolveStep, ApplyingStep
  <1>4. CASE \E u \in User : O!Label(u) \/ O!Unlabel(u)
    BY <1>4, LabelStep
  <1>5. CASE \E u \in User : \E ok \in BOOLEAN : O!Submit(u, ok)
    BY <1>5, SubmitStep
  <1>6. CASE \E i \in DOMAIN reviews : O!Dismiss(i)
    BY <1>6, DismissStep
  <1>7. CASE O!Merge \/ (\E h \in Rev : O!Push(h)) \/ (\E u \in User : O!Regrant(u))
    BY <1>7, OtherChangeStep
  <1>8. CASE UNCHANGED O!vars
    <2>1. /\ UNCHANGED <<events, reviews, head, merged, permitted, checkout, turn, pass, page, got>>
          /\ UNCHANGED <<pullRequest, approver, review, may, decision, security, before, after>>
          /\ UNCHANGED <<cleared, rows, written, coexisted, restored, interference>>
      BY <1>8 DEF O!vars, O!pull, O!request, O!evidence, O!findings, O!effects
    <2>2. O!TypeOK' /\ PullInv'
      BY <2>1 DEF IInv, O!TypeOK, PullInv
    <2>3. GotInv' /\ EvidenceInv'
      BY <2>1 DEF IInv, GotInv, From, EvidenceInv, Reading, Remembered, O!Active
    <2>4. From' = From
      BY <2>1 DEF From
    <2>5. HeldInv'
      BY <2>1, <2>4 DEF IInv, HeldInv, Moved, LabelerLost, LabelerMissed, PermissionLost,
                        ReviewLost, ReviewLater, ReviewMissed
    <2>6. (Covered => Covered') /\ Overridden' = Overridden /\ (O!Active => O!Active')
      BY <2>1 DEF Covered, Overridden, O!Active
    <2>7. GateInv'
      BY <2>1, <2>6 DEF IInv, GateInv, Reading
    <2>. QED
      BY <2>2, <2>3, <2>5, <2>7 DEF IInv
  <1>. QED
    BY <1>1, <1>2, <1>3, <1>4, <1>5, <1>6, <1>7, <1>8, Zenon DEF O!Next, O!Readings, O!Done

(* The invariant holds.                                                    *)
THEOREM Invariance == ASSUME O!PolicyOverrideAssumption PROVE O!Spec => []IInv
  <1>1. O!Init => IInv
    BY InitInv
  <1>2. IInv /\ [O!Next]_O!vars => IInv'
    BY NextInv
  <1>. QED
    BY <1>1, <1>2, PTL DEF O!Spec

-----------------------------------------------------------------------------
(* Every part of the evidence that is not what the first reading found is  *)
(* met by the second: an active override had all of it at one moment, when *)
(* the first reading ended (check_override_at reads everything twice).     *)
LEMMA Coexisted == ASSUME IInv PROVE O!EvidenceCoexisted
  <1>1. EvidenceInv /\ HeldInv
    BY DEF IInv
  <1>2. ASSUME O!Active, ~restored, ~coexisted
        PROVE  FALSE
    <2>1. pass = 2 /\ decision = "active" /\ ~Reading
      BY <1>1, <1>2 DEF EvidenceInv, O!Active
    <2>. QED
      BY <1>1, <1>2, <2>1 DEF HeldInv, Reading
  <1>. QED
    BY <1>2 DEF O!EvidenceCoexisted

(* What was written is the reviewed head's checkout, has no finding that   *)
(* was not reviewed, and the ledger names every rule that was cleared.     *)
LEMMA WrittenAsReviewed ==
    ASSUME IInv
    PROVE  O!AuthorisesTheCheckout /\ O!NothingUnseenIsWritten /\ O!ClearedIsRecorded
  <1>1. EvidenceInv /\ GateInv /\ O!TypeOK
    BY DEF IInv
  <1>2. O!AuthorisesTheCheckout
    BY <1>1 DEF O!AuthorisesTheCheckout, EvidenceInv
  <1>3. ASSUME written
        PROVE  /\ security => O!Active
               /\ \A i \in Identity : after[i] <= IF O!Active THEN before[i] ELSE 0
    <2>1. (security => O!Active) /\ Covered
      BY <1>1, <1>3 DEF GateInv
    <2>2. \A i \in Identity : after[i] \in Nat /\ before[i] \in Nat
      BY <1>1 DEF O!TypeOK, O!Counts
    <2>3. \A i \in Identity : after[i] = 0 \/ i \in O!Blocked(after)
      BY <2>2 DEF O!Blocked
    <2>4. \A i \in Identity : after[i] <= IF O!Active THEN before[i] ELSE 0
      BY <2>1, <2>2, <2>3 DEF Covered
    <2>. QED
      BY <2>1, <2>4
  <1>4. O!ClearedIsRecorded
    BY <1>1 DEF O!ClearedIsRecorded, GateInv, Overridden
  <1>. QED
    BY <1>2, <1>3, <1>4 DEF O!NothingUnseenIsWritten

(* An override is earned, for every history of the pull request, page size, *)
(* checkout, number of findings and of changes people make meanwhile.       *)
THEOREM OverridesAreAlwaysEarned ==
    ASSUME O!PolicyOverrideAssumption PROVE O!Spec => []O!OverrideIsEarned
  <1>1. IInv => O!OverrideIsEarned
    BY Coexisted, WrittenAsReviewed DEF O!OverrideIsEarned, IInv
  <1>. QED
    BY Invariance, <1>1, PTL

=============================================================================
