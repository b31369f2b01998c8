---------------------------- MODULE ImportProofs ----------------------------
(***************************************************************************)
(* Proofs about the import, and about the assembly of the tree (instance A *)
(* of Assembly, in the second half).                                       *)
(*                                                                         *)
(* What a tree promises is decided before it exists: every gate looks at   *)
(* the rows of one answer, the bundle is published from the rows that      *)
(* passed, and the tree is made of the same rows.  The invariant therefore *)
(* carries the verdict of the gates along with the job, past every crash   *)
(* and every change of the destination, up to the rename; and it needs     *)
(* that imports do not overlap, for the bundle has one place.              *)
(*                                                                         *)
(* That a shard fits rests on the packing alone: a shard weighs what its   *)
(* slots do, and only a packing that fits is published.                    *)
(*                                                                         *)
(* Of the assembly, what is proved rests on what its lists are: a list is  *)
(* built one member at a time, and what each step keeps, all of them keep. *)
(***************************************************************************)
EXTENDS Import, FiniteSetTheorems, NaturalsInduction, SequenceTheorems, TLAPS

OneImporter == \A i, j \in Importer : i = j

Flags == {"acknowledged", "allowUnknown", "plaintext"}
Places == {"none", "outside", "inside"}
Past == {"bundle", "inspect", "recheck", "rename"}
Stages == {"idle", "read", "gates"} \cup Past
Job == [pc : Stages, rows : SUBSET Source, truth : SUBSET Source, opts : SUBSET Flags,
        where : Places, existed : BOOLEAN]
-----------------------------------------------------------------------------
(* File names.                                                             *)

(* What a prefix of three does to the places of a sequence.                *)
LEMMA Prefixed ==
    ASSUME NEW a \in Char, NEW b \in Char, NEW c \in Char,
           NEW t \in Seq(Char)
    PROVE  /\ <<a, b, c>> \o t \in Seq(Char)
           /\ Len(<<a, b, c>> \o t) = Len(t) + 3
           /\ (<<a, b, c>> \o t)[1] = a /\ (<<a, b, c>> \o t)[2] = b
           /\ \A k \in 1 .. Len(t) : (<<a, b, c>> \o t)[k + 3] = t[k]
  <1>. DEFINE p == <<a, b, c>>
  <1>1. p \in Seq(Char) /\ Len(p) = 3 /\ p[1] = a /\ p[2] = b
    OBVIOUS
  <1>2. Len(t) \in Nat
    BY LenProperties
  <1>. HIDE DEF p
  <1>3. /\ p \o t \in Seq(Char) /\ Len(p \o t) = Len(p) + Len(t)
        /\ \A i \in 1 .. Len(p) + Len(t) :
               (p \o t)[i] = IF i <= Len(p) THEN p[i] ELSE t[i - Len(p)]
    BY <1>1, ConcatProperties
  <1>4. (p \o t)[1] = a /\ (p \o t)[2] = b
    BY <1>1, <1>2, <1>3
  <1>5. ASSUME NEW k \in 1 .. Len(t) PROVE (p \o t)[k + 3] = t[k]
    <2>1. k + 3 \in 1 .. Len(p) + Len(t) /\ ~(k + 3 <= Len(p)) /\ (k + 3) - Len(p) = k
      BY <1>1, <1>2
    <2>. QED
      BY <1>3, <2>1
  <1>. USE DEF p
  <1>. QED
    BY <1>1, <1>2, <1>3, <1>4, <1>5

(* The name of a file never marks it as disabled.                          *)
LEMMA FileNames ==
    ASSUME NEW x \in Seq(Char), x # <<>>
    PROVE  /\ FileName(x) \in Seq(Char) /\ FileName(x) # <<>>
           /\ FileName(x)[1] # "_"
  <1>0. "%" \in Char /\ "5" \in Char /\ "F" \in Char /\ "2" \in Char
    BY ImportAssumption DEF ImportAssumption
  <1>1. /\ Len(x) \in Nat \ {0} /\ x[1] \in Char
        /\ Tail(x) \in Seq(Char)
    BY EmptySeq, HeadTailProperties, SMT
  <1>2. CASE x[1] = "_"
    <2>1. FileName(x) = <<"%", "5", "F">> \o Tail(x)
      BY <1>2 DEF FileName
    <2>2. /\ FileName(x) \in Seq(Char) /\ Len(FileName(x)) = Len(Tail(x)) + 3
          /\ FileName(x)[1] = "%"
      BY <1>0, <1>1, <2>1, Prefixed
    <2>3. Len(Tail(x)) \in Nat /\ Len(<<>>) = 0
      BY <1>1, LenProperties, EmptySeq
    <2>. QED
      BY <2>2, <2>3
  <1>3. CASE x[1] = "%"
    <2>1. FileName(x) = <<"%", "2", "5">> \o Tail(x)
      BY <1>3 DEF FileName
    <2>2. /\ FileName(x) \in Seq(Char) /\ Len(FileName(x)) = Len(Tail(x)) + 3
          /\ FileName(x)[1] = "%"
      BY <1>0, <1>1, <2>1, Prefixed
    <2>3. Len(Tail(x)) \in Nat /\ Len(<<>>) = 0
      BY <1>1, LenProperties, EmptySeq
    <2>. QED
      BY <2>2, <2>3
  <1>4. CASE x[1] # "_" /\ x[1] # "%"
    BY <1>4 DEF FileName
  <1>. QED
    BY <1>2, <1>3, <1>4

(* A sequence is known from its first element and what follows it.         *)
LEMMA HeadAndTail ==
    ASSUME NEW x \in Seq(Char), x # <<>>, NEW y \in Seq(Char), y # <<>>,
           x[1] = y[1], Tail(x) = Tail(y)
    PROVE  x = y
  <1>0. /\ Len(x) \in Nat \ {0} /\ Len(Tail(x)) = Len(x) - 1
        /\ \A k \in 1 .. Len(Tail(x)) : Tail(x)[k] = x[k + 1]
    <2>1. Len(x) \in Nat \ {0}
      BY EmptySeq
    <2>. QED
      BY <2>1, HeadTailProperties
  <1>1. /\ Len(y) \in Nat \ {0} /\ Len(Tail(y)) = Len(y) - 1
        /\ \A k \in 1 .. Len(Tail(y)) : Tail(y)[k] = y[k + 1]
    <2>1. Len(y) \in Nat \ {0}
      BY EmptySeq
    <2>. QED
      BY <2>1, HeadTailProperties
  <1>2. Len(x) = Len(y)
    <2>1. Len(x) \in Nat /\ Len(y) \in Nat /\ Len(x) - 1 = Len(y) - 1
      BY <1>0, <1>1, Zenon
    <2>. QED
      BY <2>1
  <1>3. ASSUME NEW k \in 1 .. Len(x) PROVE x[k] = y[k]
    <2>1. CASE k = 1
      BY <2>1
    <2>2. CASE k # 1
      <3>1. k - 1 \in 1 .. Len(Tail(x)) /\ (k - 1) + 1 = k
        BY <1>0, <2>2
      <3>2. Tail(x)[k - 1] = x[(k - 1) + 1]
        BY <1>0, <3>1
      <3>3. Tail(y)[k - 1] = y[(k - 1) + 1]
        BY <1>1, <3>1
      <3>. QED
        BY <3>1, <3>2, <3>3
    <2>. QED
      BY <2>1, <2>2
  <1>. QED
    BY <1>2, <1>3, SeqEqual

LEMMA PrefixInjective ==
    ASSUME NEW b \in Char, NEW c \in Char, NEW s \in Seq(Char), NEW t \in Seq(Char),
           <<"%", b, c>> \o s = <<"%", b, c>> \o t
    PROVE  s = t
  <1>1. Len(s) \in Nat /\ Len(t) \in Nat /\ "%" \in Char
    BY ImportAssumption, LenProperties DEF ImportAssumption
  <1>2. Len(<<"%", b, c>> \o s) = Len(s) + 3 /\ Len(<<"%", b, c>> \o t) = Len(t) + 3
    BY <1>1, Prefixed
  <1>3. Len(s) = Len(t)
    BY <1>1, <1>2
  <1>4. ASSUME NEW k \in 1 .. Len(s) PROVE s[k] = t[k]
    <2>1. (<<"%", b, c>> \o s)[k + 3] = s[k]
      BY <1>1, Prefixed
    <2>2. (<<"%", b, c>> \o t)[k + 3] = t[k]
      BY <1>1, <1>3, Prefixed
    <2>. QED
      BY <2>1, <2>2
  <1>. QED
    BY <1>3, <1>4, SeqEqual

(* Two identifiers never share a file.                                     *)
LEMMA FileNameInjective ==
    ASSUME NEW x \in Seq(Char), x # <<>>, NEW y \in Seq(Char), y # <<>>,
           FileName(x) = FileName(y)
    PROVE  x = y
  <1>0. /\ Tail(x) \in Seq(Char) /\ Tail(y) \in Seq(Char)
        /\ "%" \in Char /\ "5" \in Char /\ "F" \in Char /\ "2" \in Char
    BY ImportAssumption, HeadTailProperties DEF ImportAssumption
  <1>1. /\ x[1] = "_" => /\ FileName(x) = <<"%", "5", "F">> \o Tail(x)
                         /\ FileName(x)[1] = "%" /\ FileName(x)[2] = "5"
        /\ x[1] = "%" => /\ FileName(x) = <<"%", "2", "5">> \o Tail(x)
                         /\ FileName(x)[1] = "%" /\ FileName(x)[2] = "2"
        /\ x[1] # "_" /\ x[1] # "%" => FileName(x) = x
    <2>1. CASE x[1] = "_"
      <3>1. FileName(x) = <<"%", "5", "F">> \o Tail(x)
        BY <2>1 DEF FileName
      <3>2. FileName(x)[1] = "%" /\ FileName(x)[2] = "5"
        BY <1>0, <3>1, Prefixed
      <3>. QED
        BY <2>1, <3>1, <3>2
    <2>2. CASE x[1] = "%"
      <3>1. FileName(x) = <<"%", "2", "5">> \o Tail(x)
        BY <2>2 DEF FileName
      <3>2. FileName(x)[1] = "%" /\ FileName(x)[2] = "2"
        BY <1>0, <3>1, Prefixed
      <3>. QED
        BY <2>2, <3>1, <3>2
    <2>3. CASE x[1] # "_" /\ x[1] # "%"
      BY <2>3 DEF FileName
    <2>. QED
      BY <2>1, <2>2, <2>3
  <1>2. /\ y[1] = "_" => /\ FileName(y) = <<"%", "5", "F">> \o Tail(y)
                         /\ FileName(y)[1] = "%" /\ FileName(y)[2] = "5"
        /\ y[1] = "%" => /\ FileName(y) = <<"%", "2", "5">> \o Tail(y)
                         /\ FileName(y)[1] = "%" /\ FileName(y)[2] = "2"
        /\ y[1] # "_" /\ y[1] # "%" => FileName(y) = y
    <2>1. CASE y[1] = "_"
      <3>1. FileName(y) = <<"%", "5", "F">> \o Tail(y)
        BY <2>1 DEF FileName
      <3>2. FileName(y)[1] = "%" /\ FileName(y)[2] = "5"
        BY <1>0, <3>1, Prefixed
      <3>. QED
        BY <2>1, <3>1, <3>2
    <2>2. CASE y[1] = "%"
      <3>1. FileName(y) = <<"%", "2", "5">> \o Tail(y)
        BY <2>2 DEF FileName
      <3>2. FileName(y)[1] = "%" /\ FileName(y)[2] = "2"
        BY <1>0, <3>1, Prefixed
      <3>. QED
        BY <2>2, <3>1, <3>2
    <2>3. CASE y[1] # "_" /\ y[1] # "%"
      BY <2>3 DEF FileName
    <2>. QED
      BY <2>1, <2>2, <2>3
  <1>3. CASE x[1] = "_" /\ y[1] = "_"
    <2>1. Tail(x) = Tail(y)
      BY <1>0, <1>1, <1>2, <1>3, PrefixInjective
    <2>. QED
      BY <1>3, <2>1, HeadAndTail
  <1>4. CASE x[1] = "%" /\ y[1] = "%"
    <2>1. Tail(x) = Tail(y)
      BY <1>0, <1>1, <1>2, <1>4, PrefixInjective
    <2>. QED
      BY <1>4, <2>1, HeadAndTail
  <1>. QED
    BY <1>1, <1>2, <1>3, <1>4

(* Hence two resources at one path are one key.                            *)
LEMMA PathsApart ==
    ASSUME NEW r \in Source, NEW s \in Source, PathFor(r) = PathFor(s)
    PROVE  Key(r) = Key(s)
  <1>1. /\ r.id \in Seq(Char) /\ r.id # <<>>
        /\ s.id \in Seq(Char) /\ s.id # <<>>
    BY ImportAssumption DEF ImportAssumption, Resource
  <1>2. r.ns = s.ns /\ r.kind = s.kind /\ FileName(r.id) = FileName(s.id)
    BY DEF PathFor
  <1>3. r.id = s.id
    BY <1>1, <1>2, FileNameInjective
  <1>. QED
    BY <1>2, <1>3 DEF Key

LEMMA PathsEnabled ==
    ASSUME NEW r \in Source PROVE Enabled(PathFor(r))
  <1>1. r.id \in Seq(Char) /\ r.id # <<>>
    BY ImportAssumption DEF ImportAssumption, Resource
  <1>. QED
    BY <1>1, FileNames DEF Enabled, PathFor
-----------------------------------------------------------------------------
(* The invariant.                                                          *)

(* The bundle holds the live value of every secret of these rows.          *)
BundleHolds(b, rows) ==
    \A r \in Captured(rows) : Key(r) \in DOMAIN b /\ b[Key(r)].row = r

(* The files made of these rows.                                           *)
FilesOf(rows) ==
    [p \in {PathFor(r) : r \in Written(rows)} |->
        Redacted(CHOOSE r \in Written(rows) : PathFor(r) = p)]

(* A job works on the whole answer of its source; what passed the gates is *)
(* what is published, and no tree is there meanwhile.                      *)
JobInv(j, o, b) ==
    /\ j \in Job
    /\ j.rows = j.truth
    /\ j.pc \in Past => Passes(j) /\ o.state # "tree"
    /\ j.pc \in {"inspect", "recheck", "rename"} => BundleHolds(b, j.rows)

(* A tree was made of rows that passed the gates, and its bundle stands.   *)
TreeInv(o, b) ==
    /\ o.state \in {"absent", "empty", "foreign", "tree"}
    /\ o.state # "tree" => o.files = NoFiles
    /\ o.state = "tree" =>
         /\ o.truth \subseteq Source /\ o.files = FilesOf(o.truth)
         /\ FilesAreDistinct(o.truth) /\ BundleHolds(b, o.truth)
         /\ UnknownFieldsPass(o.truth, o.allow) /\ PlaintextPasses(o.truth, o.allow)

ImportInv ==
    /\ live \subseteq Source /\ DOMAIN bundle \subseteq Keys
    /\ TreeInv(out, bundle)
    /\ job \in [Importer -> Job]
    /\ \A i \in Importer : JobInv(job[i], out, bundle)

(* The one job that moves is every job there is.                           *)
LEMMA OneJob ==
    ASSUME OneImporter, NEW i \in Importer, job \in [Importer -> Job], NEW j \in Job, Go(i, j)
    PROVE  job' \in [Importer -> Job] /\ \A k \in Importer : job'[k] = j
  BY DEF OneImporter, Go

LEMMA IdleJob == ASSUME NEW o, NEW b PROVE Idle \in Job /\ JobInv(Idle, o, b)
  BY DEF Idle, Job, JobInv, Stages, Places, Past

LEMMA ImportInit == ASSUME Init PROVE ImportInv
  <1>1. live \subseteq Source
    BY DEF Init
  <1>2. DOMAIN bundle \subseteq Keys
    BY DEF Init, NoBundle
  <1>3. TreeInv(out, bundle)
    BY DEF Init, TreeInv, Absent
  <1>4. job \in [Importer -> Job] /\ \A i \in Importer : JobInv(job[i], out, bundle)
    BY IdleJob DEF Init
  <1>. QED
    BY <1>1, <1>2, <1>3, <1>4 DEF ImportInv

(* A step that leaves the disk alone and moves the one job.                *)
LEMMA OnlyJob ==
    ASSUME OneImporter, ImportInv, NEW i \in Importer, NEW j, Go(i, j), JobInv(j, out', bundle'),
           UNCHANGED <<live, out, bundle>>
    PROVE  ImportInv'
  <1>0. j \in Job
    BY DEF JobInv
  <1>1. job' \in [Importer -> Job] /\ \A k \in Importer : job'[k] = j
    BY <1>0, OneJob DEF ImportInv
  <1>2. \A k \in Importer : JobInv(job[k], out, bundle)'
    BY <1>1
  <1>3. TreeInv(out', bundle')
    BY DEF ImportInv, TreeInv, BundleHolds
  <1>4. live' \subseteq Source /\ DOMAIN bundle' \subseteq Keys
    BY DEF ImportInv
  <1>. QED
    BY <1>1, <1>2, <1>3, <1>4 DEF ImportInv

LEMMA EndStep ==
    ASSUME OneImporter, ImportInv, NEW i \in Importer, End(i), UNCHANGED <<live, out, bundle>>
    PROVE  ImportInv'
  BY IdleJob, OnlyJob DEF End

LEMMA StartStep ==
    ASSUME OneImporter, ImportInv, NEW i \in Importer, Start(i) PROVE ImportInv'
  <1>. DEFINE j == [Idle EXCEPT !.pc = "read"]
  <1>1. JobInv(j, out', bundle')
    BY DEF Idle, Job, JobInv, Stages, Places, Past
  <1>2. Go(i, j) /\ UNCHANGED <<live, out, bundle>>
    BY DEF Start
  <1>. HIDE DEF j
  <1>. QED
    BY <1>1, <1>2, OnlyJob

(* Only a whole answer gets past the reading.                              *)
LEMMA ReadWhole ==
    ASSUME OneImporter, ImportInv, NEW i \in Importer, job[i].pc = "read",
           NEW a, NEW rows \in SUBSET Source, Complete(a) => a.rows = rows, Read(i, a, rows),
           UNCHANGED <<live, out, bundle>>
    PROVE  ImportInv'
  <1>1. CASE Complete(a)
    <2>. DEFINE j == [job[i] EXCEPT !.pc = "gates", !.rows = a.rows, !.truth = rows]
    <2>1. job[i] \in Job
      BY DEF ImportInv
    <2>2. j \in Job /\ j.rows = j.truth /\ j.pc = "gates"
      BY <1>1, <2>1 DEF Job, Stages
    <2>. HIDE DEF j
    <2>3. JobInv(j, out', bundle')
      BY <2>2 DEF JobInv, Past
    <2>4. Go(i, j)
      BY <1>1 DEF Read, j
    <2>. QED
      BY <2>3, <2>4, OnlyJob
  <1>2. CASE ~Complete(a)
    BY <1>2, EndStep DEF Read
  <1>. QED
    BY <1>1, <1>2

LEMMA ReadApiStep ==
    ASSUME OneImporter, ImportInv, NEW i \in Importer, ReadApi(i) PROVE ImportInv'
  <1>1. PICK ns \in Namespace :
          \E a \in Answer({r \in live : r.ns = ns}) : Read(i, a, {r \in live : r.ns = ns})
    BY DEF ReadApi
  <1>. DEFINE rows == {r \in live : r.ns = ns}
  <1>2. PICK a \in Answer(rows) : Read(i, a, rows)
    BY <1>1
  <1>3. rows \in SUBSET Source
    BY DEF ImportInv
  <1>. HIDE DEF rows
  <1>4. Complete(a) => a.rows = rows
    BY <1>2 DEF Answer, Complete
  <1>5. job[i].pc = "read" /\ UNCHANGED <<live, out, bundle>>
    BY DEF ReadApi, Env
  <1>. QED
    BY <1>2, <1>3, <1>4, <1>5, ReadWhole

LEMMA ReadFileStep ==
    ASSUME OneImporter, ImportInv, NEW i \in Importer, ReadFile(i) PROVE ImportInv'
  <1>. DEFINE a == [rows |-> live, cached |-> FALSE, sealed |-> TRUE]
  <1>1. job[i].pc = "read" /\ UNCHANGED <<live, out, bundle>>
    BY DEF ReadFile, Env
  <1>2. Read(i, a, live) \/ End(i)
    BY DEF ReadFile
  <1>3. CASE End(i)
    BY <1>1, <1>3, EndStep
  <1>4. CASE Read(i, a, live)
    <2>1. Complete(a) => a.rows = live
      OBVIOUS
    <2>2. live \in SUBSET Source
      BY DEF ImportInv
    <2>. HIDE DEF a
    <2>. QED
      BY <1>1, <1>4, <2>1, <2>2, ReadWhole
  <1>. QED
    BY <1>2, <1>3, <1>4

LEMMA GatesStep ==
    ASSUME OneImporter, ImportInv, NEW i \in Importer, Gates(i) PROVE ImportInv'
  <1>0. job[i].pc = "gates" /\ UNCHANGED <<live, out, bundle>>
    BY DEF Gates, Env
  <1>1. PICK opts \in Options, where \in {"none", "outside", "inside"} :
          LET j == [job[i] EXCEPT !.opts = opts, !.where = where, !.pc = "bundle"] IN
          IF Passes(j) /\ out.state \in {"absent", "empty"} THEN Go(i, j) ELSE End(i)
    BY DEF Gates
  <1>. DEFINE j == [job[i] EXCEPT !.opts = opts, !.where = where, !.pc = "bundle"]
  <1>2. CASE End(i)
    BY <1>0, <1>2, EndStep
  <1>3. CASE Passes(j) /\ out.state \in {"absent", "empty"} /\ Go(i, j)
    <2>1. job[i] \in Job /\ job[i].rows = job[i].truth
      BY DEF ImportInv, JobInv
    <2>2. j \in Job /\ j.rows = j.truth /\ j.pc = "bundle"
      BY <2>1 DEF Job, Stages, Past, Options, Flags, Places
    <2>. HIDE DEF j
    <2>3. JobInv(j, out', bundle')
      BY <1>0, <1>3, <2>2 DEF JobInv, Past
    <2>. QED
      BY <1>0, <1>3, <2>3, OnlyJob
  <1>. QED
    BY <1>1, <1>2, <1>3

(* The bundle of rows whose slots are distinct holds them.                 *)
LEMMA BundleStep ==
    ASSUME OneImporter, ImportInv, NEW i \in Importer, PublishBundle(i) PROVE ImportInv'
  <1>. DEFINE rows == job[i].rows
              j == [job[i] EXCEPT !.pc = "inspect"]
  <1>0. job[i].pc = "bundle" /\ UNCHANGED <<live, out>>
    BY DEF PublishBundle, Env
  <1>1. /\ job[i] \in Job /\ rows \subseteq Source /\ rows = job[i].truth
        /\ Passes(job[i]) /\ out.state # "tree"
    BY <1>0 DEF ImportInv, JobInv, Past, Job
  <1>2. /\ j \in Job /\ j.pc = "inspect" /\ j.rows = rows /\ j.truth = job[i].truth
        /\ j.opts = job[i].opts /\ j.where = job[i].where
    BY <1>1 DEF Job, Stages, Past
  <1>3. Passes(j)
    BY <1>1, <1>2 DEF Passes
  <1>4. ASSUME BundleHolds(bundle', rows), Go(i, j), DOMAIN bundle' \subseteq Keys PROVE ImportInv'
    <2>1. JobInv(j, out', bundle')
      BY <1>0, <1>1, <1>2, <1>3, <1>4 DEF JobInv
    <2>2. job' \in [Importer -> Job] /\ \A k \in Importer : job'[k] = j
      BY <1>2, <1>4, OneJob DEF ImportInv
    <2>3. \A k \in Importer : JobInv(job[k], out, bundle)'
      BY <2>1, <2>2
    <2>4. TreeInv(out', bundle')
      BY <1>0, <1>1 DEF ImportInv, TreeInv
    <2>. QED
      BY <1>0, <1>4, <2>2, <2>3, <2>4 DEF ImportInv
  <1>5. CASE job[i].where = "none"
    <2>1. Captured(rows) = {}
      BY <1>1, <1>5 DEF Passes, NeedsBundle
    <2>2. Go(i, j) /\ bundle' = bundle
      BY <1>5 DEF PublishBundle, Goto
    <2>3. BundleHolds(bundle', rows)
      BY <2>1, <2>2, <1>0 DEF BundleHolds
    <2>. QED
      BY <1>4, <2>2, <2>3 DEF ImportInv
  <1>6. CASE job[i].where # "none" /\ ~BundleFits(rows)
    <2>1. End(i) /\ UNCHANGED bundle
      BY <1>6 DEF PublishBundle
    <2>. QED
      BY <1>0, <2>1, EndStep
  <1>7. CASE job[i].where # "none" /\ BundleFits(rows)
    <2>. DEFINE new == [k \in {Key(r) : r \in Captured(rows)} |->
                          [row |-> CHOOSE r \in Captured(rows) : Key(r) = k,
                           shard |-> Packed(rows).at[k]]]
    <2>1. bundle' = new /\ Go(i, j)
      BY <1>7 DEF PublishBundle, Goto, Replaced
    <2>2. Captured(rows) \subseteq Source
      BY <1>1 DEF Captured, Written
    <2>3. DOMAIN new \subseteq Keys
      BY <2>2 DEF Keys
    <2>4. ASSUME NEW r \in Captured(rows) PROVE Key(r) \in DOMAIN new /\ new[Key(r)].row = r
      <3>1. \A s \in Captured(rows) : Key(s) = Key(r) => s = r
        BY <1>1 DEF Passes, SlotsAreDistinct
      <3>2. (CHOOSE s \in Captured(rows) : Key(s) = Key(r)) = r
        BY <3>1
      <3>. QED
        BY <3>2
    <2>. HIDE DEF new
    <2>5. BundleHolds(bundle', rows)
      BY <2>1, <2>4 DEF BundleHolds
    <2>. QED
      BY <1>4, <2>1, <2>3, <2>5
  <1>. QED
    BY <1>5, <1>6, <1>7

(* The two looks at the destination.                                       *)
LEMMA InspectStep ==
    ASSUME OneImporter, ImportInv, NEW i \in Importer, Inspect(i) PROVE ImportInv'
  <1>0. job[i].pc = "inspect" /\ UNCHANGED <<live, out, bundle>>
    BY DEF Inspect, Env
  <1>. DEFINE e == (out.state = "empty")
              j == [job[i] EXCEPT !.pc = "recheck", !.existed = e]
  <1>1. Go(i, j) \/ End(i)
    BY DEF Inspect
  <1>2. CASE End(i)
    BY <1>0, <1>2, EndStep
  <1>3. CASE Go(i, j)
    <2>1. /\ job[i] \in Job /\ job[i].rows = job[i].truth /\ Passes(job[i])
          /\ out.state # "tree" /\ BundleHolds(bundle, job[i].rows)
      BY <1>0 DEF ImportInv, JobInv, Past
    <2>2. e \in BOOLEAN
      OBVIOUS
    <2>. HIDE DEF e
    <2>3. /\ j \in Job /\ j.pc = "recheck" /\ j.rows = job[i].rows /\ j.truth = job[i].truth
          /\ j.opts = job[i].opts /\ j.where = job[i].where
      BY <2>1, <2>2 DEF Job, Stages, Past
    <2>. HIDE DEF j
    <2>5. Passes(j)
      BY <2>1, <2>3 DEF Passes
    <2>4. JobInv(j, out', bundle')
      BY <1>0, <2>1, <2>3, <2>5 DEF JobInv
    <2>. QED
      BY <1>0, <1>3, <2>4, OnlyJob
  <1>. QED
    BY <1>1, <1>2, <1>3

LEMMA RecheckStep ==
    ASSUME OneImporter, ImportInv, NEW i \in Importer, Recheck(i) PROVE ImportInv'
  <1>0. job[i].pc = "recheck" /\ UNCHANGED <<live, out, bundle>>
    BY DEF Recheck, Env
  <1>. DEFINE j == [job[i] EXCEPT !.pc = "rename"]
  <1>1. Go(i, j) \/ End(i)
    BY DEF Recheck, Goto
  <1>2. CASE End(i)
    BY <1>0, <1>2, EndStep
  <1>3. CASE Go(i, j)
    <2>1. /\ job[i] \in Job /\ job[i].rows = job[i].truth /\ Passes(job[i])
          /\ out.state # "tree" /\ BundleHolds(bundle, job[i].rows)
      BY <1>0 DEF ImportInv, JobInv, Past
    <2>2. /\ j \in Job /\ j.pc = "rename" /\ j.rows = job[i].rows /\ j.truth = job[i].truth
          /\ j.opts = job[i].opts /\ j.where = job[i].where
      BY <2>1 DEF Job, Stages, Past
    <2>. HIDE DEF j
    <2>3. Passes(j)
      BY <2>1, <2>2 DEF Passes
    <2>4. JobInv(j, out', bundle')
      BY <1>0, <2>1, <2>2, <2>3 DEF JobInv
    <2>. QED
      BY <1>0, <1>3, <2>4, OnlyJob
  <1>. QED
    BY <1>1, <1>2, <1>3

(* The tree appears as a whole, of the rows that passed.                   *)
LEMMA RenameStep ==
    ASSUME OneImporter, ImportInv, NEW i \in Importer, Rename(i) PROVE ImportInv'
  <1>0. job[i].pc = "rename" /\ UNCHANGED <<live, bundle>>
    BY DEF Rename, Env
  <1>1. End(i)
    BY DEF Rename
  <1>2. CASE ~Renames(out.state)
    <2>1. UNCHANGED out
      BY <1>2 DEF Rename
    <2>. QED
      BY <1>0, <1>1, <2>1, EndStep
  <1>3. CASE Renames(out.state)
    <2>1. out' = [state |-> "tree", truth |-> job[i].truth, allow |-> job[i].opts,
                  files |-> FilesOf(job[i].rows)]
      BY <1>3 DEF Rename, FilesOf
    <2>2. /\ job[i] \in Job /\ job[i].rows = job[i].truth /\ Passes(job[i])
          /\ BundleHolds(bundle, job[i].rows)
      BY <1>0 DEF ImportInv, JobInv, Past
    <2>3. TreeInv(out', bundle')
      BY <1>0, <2>1, <2>2 DEF TreeInv, Passes, Job
    <2>4. job' \in [Importer -> Job] /\ \A k \in Importer : job'[k] = Idle
      BY <1>1, IdleJob, OneJob DEF End, ImportInv
    <2>5. \A k \in Importer : JobInv(job[k], out, bundle)'
      BY <2>4, IdleJob
    <2>. QED
      BY <1>0, <2>3, <2>4, <2>5 DEF ImportInv
  <1>. QED
    BY <1>2, <1>3

(* Others.                                                                 *)
LEMMA ChangeStep == ASSUME ImportInv, Change PROVE ImportInv'
  <1>1. PICK r \in Source :
          live' \in {{s \in live : Key(s) # Key(r)} \cup {r}, live \ {r}} \ {live}
    BY DEF Change
  <1>2. live' \subseteq Source
    BY <1>1 DEF ImportInv
  <1>3. UNCHANGED <<out, bundle, job>>
    BY DEF Change
  <1>. QED
    BY <1>2, <1>3 DEF ImportInv

LEMMA IntrudeStep == ASSUME ImportInv, Intrude PROVE ImportInv'
  <1>1. UNCHANGED <<live, bundle, job>>
    BY DEF Intrude
  <1>2. /\ out'.state \in {"absent", "empty", "foreign"}
        /\ out'.files = NoFiles
    BY DEF Intrude, Foreign, Absent
  <1>3. TreeInv(out', bundle')
    BY <1>2 DEF TreeInv
  <1>4. \A k \in Importer : JobInv(job[k], out, bundle)'
    BY <1>1, <1>2 DEF ImportInv, JobInv
  <1>. QED
    BY <1>1, <1>3, <1>4 DEF ImportInv

LEMMA ImportStep == ASSUME OneImporter, ImportInv, [Next]_vars PROVE ImportInv'
  <1>1. CASE UNCHANGED vars
    BY <1>1 DEF vars, ImportInv
  <1>2. ASSUME NEW i \in Importer,
               \/ Start(i) \/ ReadApi(i) \/ ReadFile(i) \/ Gates(i) \/ PublishBundle(i)
               \/ Inspect(i) \/ Recheck(i) \/ Rename(i) \/ Crash(i)
        PROVE  ImportInv'
    <2>1. CASE Crash(i)
      <3>1. End(i) /\ UNCHANGED <<live, out, bundle>>
        BY <2>1 DEF Crash, Env
      <3>. QED
        BY <3>1, EndStep
    <2>. QED
      BY <1>2, <2>1, StartStep, ReadApiStep, ReadFileStep, GatesStep, BundleStep, InspectStep,
         RecheckStep, RenameStep
  <1>3. CASE Done
    BY <1>1, <1>3 DEF Done
  <1>. QED
    BY <1>1, <1>2, <1>3, ChangeStep, IntrudeStep DEF Next
-----------------------------------------------------------------------------
(* What the invariant says of the tree.                                    *)

LEMMA TreeRows ==
    ASSUME ImportInv, out.state = "tree"
    PROVE  /\ Written(out.truth) \subseteq Source
           /\ Loaded(out.files) = {Redacted(r) : r \in Written(out.truth)}
  <1>. DEFINE rows == Written(out.truth)
  <1>1. /\ out.truth \subseteq Source /\ out.files = FilesOf(out.truth)
        /\ FilesAreDistinct(out.truth)
    BY DEF ImportInv, TreeInv
  <1>2. rows \subseteq Source
    BY <1>1 DEF Written
  <1>3. DOMAIN out.files = {PathFor(r) : r \in rows}
    BY <1>1 DEF FilesOf
  <1>4. ASSUME NEW r \in rows
        PROVE  /\ PathFor(r) \in DOMAIN out.files /\ Enabled(PathFor(r))
               /\ out.files[PathFor(r)] = Redacted(r)
    <2>1. \A s \in rows : PathFor(s) = PathFor(r) => s = r
      BY <1>1 DEF FilesAreDistinct
    <2>2. (CHOOSE s \in rows : PathFor(s) = PathFor(r)) = r
      BY <2>1
    <2>3. out.files[PathFor(r)] = Redacted(CHOOSE s \in rows : PathFor(s) = PathFor(r))
      BY <1>1 DEF FilesOf
    <2>. QED
      BY <1>2, <1>3, <2>2, <2>3, PathsEnabled
  <1>. HIDE DEF rows
  <1>5. Loaded(out.files) \subseteq {Redacted(r) : r \in rows}
    BY <1>3, <1>4 DEF Loaded
  <1>6. {Redacted(r) : r \in rows} \subseteq Loaded(out.files)
    BY <1>4 DEF Loaded
  <1>. QED
    BY <1>2, <1>5, <1>6 DEF rows

LEMMA RedactedRow ==
    ASSUME NEW r \in Source
    PROVE  /\ Key(Redacted(r)) = Key(r) /\ Redacted(r).field = r.field
           /\ Redacted(r).leaf # "secret"
           /\ Redacted(r).leaf = "review" => r.leaf = "review"
  <1>1. r \in Resource
    BY ImportAssumption DEF ImportAssumption
  <1>2. CASE Brokered(r)
    <2>1. Redacted(r) = [r EXCEPT !.leaf = "placeholder", !.rev = 0]
      BY <1>2 DEF Redacted
    <2>. QED
      BY <1>1, <2>1 DEF Key, Resource
  <1>3. CASE ~Brokered(r)
    BY <1>3 DEF Redacted, Brokered
  <1>. QED
    BY <1>2, <1>3

LEMMA TreeLoadsBack == ASSUME ImportInv PROVE LoadsBack
  <1>. SUFFICES ASSUME out.state = "tree"
                PROVE  /\ {Key(r) : r \in Loaded(out.files)} = {Key(r) : r \in Written(out.truth)}
                       /\ (\E r \in Loaded(out.files) : r.field # NoField)
                            => "allowUnknown" \in out.allow
    BY DEF LoadsBack
  <1>1. /\ Written(out.truth) \subseteq Source
        /\ Loaded(out.files) = {Redacted(r) : r \in Written(out.truth)}
    BY TreeRows
  <1>2. {Key(r) : r \in Loaded(out.files)} = {Key(r) : r \in Written(out.truth)}
    <2>1. \A r \in Written(out.truth) : Key(Redacted(r)) = Key(r)
      BY <1>1, RedactedRow
    <2>. QED
      BY <1>1, <2>1
  <1>3. ASSUME NEW x \in Loaded(out.files), x.field # NoField PROVE "allowUnknown" \in out.allow
    <2>1. PICK r \in Written(out.truth) : x = Redacted(r)
      BY <1>1
    <2>2. r.field # NoField
      BY <1>1, <1>3, <2>1, RedactedRow
    <2>3. UnknownFieldsPass(out.truth, out.allow)
      BY DEF ImportInv, TreeInv
    <2>. QED
      BY <2>2, <2>3 DEF UnknownFieldsPass
  <1>. QED
    BY <1>2, <1>3

LEMMA TreeHasNoPlaintext == ASSUME ImportInv PROVE NoPlaintext
  <1>. SUFFICES ASSUME NEW x \in Loaded(out.files)
                PROVE  /\ x.leaf # "secret"
                       /\ x.leaf = "review" => "plaintext" \in out.allow
                       /\ x.field # NoField => "acknowledged" \in out.allow
    BY DEF NoPlaintext
  <1>1. out.state = "tree"
    BY DEF ImportInv, TreeInv, NoFiles, Loaded
  <1>2. /\ Written(out.truth) \subseteq Source
        /\ Loaded(out.files) = {Redacted(r) : r \in Written(out.truth)}
    BY <1>1, TreeRows
  <1>3. PICK r \in Written(out.truth) : x = Redacted(r)
    BY <1>2
  <1>4. /\ x.field = r.field /\ x.leaf # "secret"
        /\ x.leaf = "review" => r.leaf = "review"
    BY <1>2, <1>3, RedactedRow
  <1>5. UnknownFieldsPass(out.truth, out.allow) /\ PlaintextPasses(out.truth, out.allow)
    BY <1>1 DEF ImportInv, TreeInv
  <1>. QED
    BY <1>3, <1>4, <1>5 DEF UnknownFieldsPass, PlaintextPasses

LEMMA TreeLosesNothing == ASSUME ImportInv PROVE NothingLost
  <1>1. ASSUME NEW r \in out.truth, out.state = "tree", ~SpecOwned(r), r.leaf = "secret"
        PROVE  Key(r) \in DOMAIN bundle /\ bundle[Key(r)].row = r
    <2>1. r \in Captured(out.truth)
      BY <1>1 DEF Captured, Written, Brokered
    <2>2. BundleHolds(bundle, out.truth)
      BY <1>1 DEF ImportInv, TreeInv
    <2>. QED
      BY <2>1, <2>2 DEF BundleHolds
  <1>. QED
    BY <1>1 DEF NothingLost

LEMMA CleanSourcePasses == ASSUME ImportInv PROVE CleanSourceIsImported
  <1>. SUFFICES ASSUME NEW i \in Importer, job[i].pc = "gates",
                       \A r, s \in Written(job[i].rows) : Key(r) = Key(s) => r = s,
                       \A r \in Written(job[i].rows) : ~Unstorable(r)
                PROVE  Passes([job[i] EXCEPT !.where = "outside",
                                  !.opts = {"acknowledged", "allowUnknown", "plaintext"}])
    BY DEF CleanSourceIsImported
  <1>. DEFINE j == [job[i] EXCEPT !.where = "outside",
                                  !.opts = {"acknowledged", "allowUnknown", "plaintext"}]
  <1>1. job[i] \in Job
    BY DEF ImportInv
  <1>2. /\ j.rows = job[i].rows /\ j.where = "outside"
        /\ j.opts = {"acknowledged", "allowUnknown", "plaintext"}
        /\ Written(j.rows) \subseteq Source
    BY <1>1 DEF Job, Written
  <1>. HIDE DEF j
  <1>3. UnknownFieldsPass(j.rows, j.opts) /\ PlaintextPasses(j.rows, j.opts)
    BY <1>2 DEF UnknownFieldsPass, PlaintextPasses
  <1>4. SlotsAreDistinct(j.rows)
    BY <1>2 DEF SlotsAreDistinct, Captured
  <1>5. FilesAreDistinct(j.rows)
    BY <1>2, PathsApart DEF FilesAreDistinct
  <1>6. NeedsBundle(j.rows, j.where) /\ PrivatePlace(j.where)
    BY <1>2 DEF NeedsBundle, PrivatePlace
  <1>. QED
    BY <1>2, <1>3, <1>4, <1>5, <1>6 DEF Passes, j

LEMMA ImportTyped == ASSUME ImportInv PROVE TypeOK
  <1>1. \A i \in Importer : job[i].pc \in {"bundle", "inspect", "recheck", "rename"}
                              => job[i].where # "inside"
    BY DEF ImportInv, JobInv, Past, Passes, PrivatePlace
  <1>. QED
    BY <1>1 DEF TypeOK, ImportInv, TreeInv

(* Whatever crashes, is retried or appears at the destination: the tree    *)
(* and its private bundle hold what the source had, the tree none of its   *)
(* secrets, the loader reads every resource back, and a source with        *)
(* nothing to object to is not refused.                                    *)
THEOREM ImportsAreAlwaysWhole == ASSUME OneImporter PROVE Spec => []ImportIsWhole
  <1>1. Init => ImportInv
    BY ImportInit
  <1>2. ImportInv /\ [Next]_vars => ImportInv'
    BY ImportStep
  <1>3. ImportInv => ImportIsWhole
    BY ImportTyped, TreeLosesNothing, TreeLoadsBack, TreeHasNoPlaintext, CleanSourcePasses
       DEF ImportIsWhole
  <1>. QED
    BY <1>1, <1>2, <1>3, PTL DEF Spec

(* An import replaces neither what somebody else put at the destination    *)
(* nor a tree.  (Of imports that overlap, too: the last look is the        *)
(* rename's own.)                                                          *)
THEOREM OthersAlwaysSurvive == Spec => OthersSurvive
  <1>. DEFINE A == out.state \in {"foreign", "tree"} /\ out' # out => changes' = changes + 1
  <1>1. [Next]_vars => [A]_vars
    <2>. SUFFICES ASSUME Next, out.state \in {"foreign", "tree"}, out' # out
                  PROVE  changes' = changes + 1
      OBVIOUS
    <2>1. ASSUME NEW i \in Importer, Rename(i) PROVE FALSE
      BY <2>1 DEF Rename, Renames
    <2>2. ASSUME NEW i \in Importer,
                 \/ Start(i) \/ ReadApi(i) \/ ReadFile(i) \/ Gates(i) \/ PublishBundle(i)
                 \/ Inspect(i) \/ Recheck(i) \/ Crash(i)
          PROVE  FALSE
      BY <2>2 DEF Start, ReadApi, ReadFile, Gates, PublishBundle, Inspect, Recheck, Crash
    <2>3. ~Change /\ ~Done
      BY DEF Change, Done, vars
    <2>4. Intrude
      BY <2>1, <2>2, <2>3 DEF Next
    <2>. QED
      BY <2>4 DEF Intrude
  <1>. QED
    BY <1>1, PTL DEF Spec, OthersSurvive
-----------------------------------------------------------------------------
(* What is built one step at a time.                                       *)

(* A set of numbers with 0 and every successor up to n has all up to n.    *)
LEMMA Upward ==
    ASSUME NEW S, NEW n \in Nat, 0 \in S, \A i \in 0 .. n - 1 : i \in S => i + 1 \in S
    PROVE  \A i \in 0 .. n : i \in S
  <1>. DEFINE Bad == {i \in Nat : i <= n /\ i \notin S}
              R == {p \in Nat \X Nat : p[1] < p[2]}
  <1>1. ASSUME Bad # {} PROVE FALSE
    <2>1. PICK x \in Bad : \A y \in Bad : <<y, x>> \notin R
      BY <1>1, Bad \in SUBSET Nat, NatLessThanWellFounded, WFMin, Zenon DEF OpToRel
    <2>2. x # 0 /\ x - 1 \in 0 .. n - 1
      OBVIOUS
    <2>3. x - 1 \notin S
      BY <2>2
    <2>4. x - 1 \in Bad
      BY <2>2, <2>3
    <2>5. ~(<<x - 1, x>>[1] < <<x - 1, x>>[2])
      BY <2>1, <2>4, Zenon
    <2>. QED
      BY <2>2, <2>5
  <1>. QED
    BY <1>1

(* Taking one step for each of n numbers leads somewhere.                  *)
Leads(X, a, n, step) ==
    \E f \in [0 .. n -> X] : f[0] = a /\ \A i \in 1 .. n : f[i] = step[i][f[i - 1]]

LEMMA StepsExist ==
    ASSUME NEW X, NEW a \in X, NEW n \in Nat, NEW step \in [1 .. n -> [X -> X]]
    PROVE  Leads(X, a, n, step)
  <1>. DEFINE Goes(m, f) ==
                  /\ f \in [0 .. n -> X] /\ f[0] = a
                  /\ \A i \in 1 .. n : i <= m => f[i] = step[i][f[i - 1]]
              S == {m \in Nat : \E f : Goes(m, f)}
  <1>1. 0 \in S
    <2>. DEFINE g == [i \in 0 .. n |-> a]
    <2>1. Goes(0, g)
      OBVIOUS
    <2>. QED
      BY <2>1
  <1>2. ASSUME NEW m \in 0 .. n - 1, m \in S PROVE m + 1 \in S
    <2>1. PICK f : Goes(m, f)
      BY <1>2
    <2>. DEFINE g == [f EXCEPT ![m + 1] = step[m + 1][f[m]]]
    <2>2. m + 1 \in 0 .. n /\ m + 1 \in 1 .. n /\ f[m] \in X
      BY <2>1
    <2>3. step[m + 1][f[m]] \in X
      BY <2>2
    <2>4. g \in [0 .. n -> X] /\ g[0] = a
      BY <2>1, <2>2, <2>3
    <2>5. ASSUME NEW i \in 1 .. n, i <= m + 1 PROVE g[i] = step[i][g[i - 1]]
      <3>1. i - 1 \in 0 .. n /\ i - 1 # m + 1 /\ g[i - 1] = f[i - 1]
        BY <2>1, <2>5
      <3>2. CASE i = m + 1
        BY <2>1, <2>2, <3>1, <3>2
      <3>3. CASE i # m + 1
        <4>1. g[i] = f[i] /\ i <= m
          BY <2>1, <2>5, <3>3
        <4>. QED
          BY <2>1, <3>1, <4>1
      <3>. QED
        BY <3>2, <3>3
    <2>6. Goes(m + 1, g)
      BY <2>4, <2>5
    <2>. HIDE DEF Goes
    <2>. QED
      BY <2>6
  <1>3. n \in S
    <2>. HIDE DEF S
    <2>1. \A i \in 0 .. n - 1 : i \in S => i + 1 \in S
      BY <1>2
    <2>2. \A i \in 0 .. n : i \in S
      BY <1>1, <2>1, Upward, Zenon
    <2>. QED
      BY <2>2
  <1>4. PICK f : Goes(n, f)
    BY <1>3
  <1>. QED
    BY <1>4 DEF Leads

LEMMA Least == ASSUME NEW S \in SUBSET Nat, S # {} PROVE \E x \in S : \A y \in S : x <= y
  <1>. DEFINE R == {p \in Nat \X Nat : p[1] < p[2]}
  <1>1. PICK x \in S : \A y \in S : <<y, x>> \notin R
    BY NatLessThanWellFounded, WFMin, Zenon DEF OpToRel
  <1>2. ASSUME NEW y \in S PROVE x <= y
    <2>1. ~(<<y, x>>[1] < <<y, x>>[2])
      BY <1>1, Zenon
    <2>. QED
      BY <2>1, y \in Nat, x \in Nat
  <1>. QED
    BY <1>2
-----------------------------------------------------------------------------
(* How the slots of an import are packed.                                  *)

LEMMA OrderIs ==
    /\ Len(Order) \in Nat /\ DOMAIN Order = 1 .. Len(Order)
    /\ \A i \in 1 .. Len(Order) : Order[i] \in Keys /\ Size[Order[i]] \in Nat /\ Size[Order[i]] >= 1
    /\ \A i, j \in 1 .. Len(Order) : Order[i] = Order[j] => i = j
    /\ \A k \in Keys : \E i \in 1 .. Len(Order) : k = Order[i]
    /\ Limit \in Nat
  <1>1. Order \in Seq(Keys) /\ {Order[i] : i \in DOMAIN Order} = Keys /\ Limit \in Nat
    BY ImportAssumption DEF ImportAssumption
  <1>2. \A i, j \in DOMAIN Order : Order[i] = Order[j] => i = j
    BY ImportAssumption DEF ImportAssumption
  <1>3. Size \in [Keys -> Nat \ {0}]
    BY ImportAssumption DEF ImportAssumption
  <1>4. Len(Order) \in Nat /\ DOMAIN Order = 1 .. Len(Order) /\ \A i \in 1 .. Len(Order) : Order[i] \in Keys
    BY <1>1
  <1>5. \A k \in Keys : Size[k] \in Nat /\ Size[k] >= 1
    BY <1>3
  <1>. QED
    BY <1>1, <1>2, <1>4, <1>5

(* What the i-th slot weighs, if it is one of these.                       *)
Share(ks, i) == IF Order[i] \in ks THEN Size[Order[i]] ELSE 0

LEMMA WeightIs ==
    ASSUME NEW ks
    PROVE  /\ Weight(ks)[0] = 0
           /\ \A i \in 1 .. Len(Order) : Weight(ks)[i] = Weight(ks)[i - 1] + Share(ks, i)
           /\ \A i \in 0 .. Len(Order) : Weight(ks)[i] \in Nat
  <1>. DEFINE n == Len(Order)
              T == Weight(ks)
              step == [i \in 1 .. n |-> [g \in Nat |-> g + Share(ks, i)]]
  <1>0. n \in Nat /\ \A i \in 1 .. n : Share(ks, i) \in Nat
    BY OrderIs DEF Share
  <1>1. step \in [1 .. n -> [Nat -> Nat]]
    BY <1>0
  <1>2. \A i \in 1 .. n, g \in Nat : step[i][g] = g + Share(ks, i)
    OBVIOUS
  <1>3. PICK f \in [0 .. n -> Nat] : f[0] = 0 /\ \A i \in 1 .. n : f[i] = step[i][f[i - 1]]
    <2>. HIDE DEF step, n
    <2>1. Leads(Nat, 0, n, step)
      BY <1>0, <1>1, StepsExist
    <2>. QED
      BY <2>1 DEF Leads
  <1>4. f = [i \in 0 .. n |-> IF i = 0 THEN 0 ELSE f[i - 1] + Share(ks, i)]
    <2>. HIDE DEF step
    <2>1. ASSUME NEW i \in 0 .. n PROVE f[i] = IF i = 0 THEN 0 ELSE f[i - 1] + Share(ks, i)
      <3>1. CASE i = 0
        BY <1>3, <3>1
      <3>2. CASE i # 0
        <4>1. i \in 1 .. n /\ i - 1 \in 0 .. n
          BY <3>2, <1>0
        <4>2. f[i - 1] \in Nat
          BY <4>1
        <4>. QED
          BY <1>2, <1>3, <3>2, <4>1, <4>2
      <3>. QED
        BY <3>1, <3>2
    <2>. QED
      BY <2>1
  <1>5. T = [i \in 0 .. n |-> IF i = 0 THEN 0 ELSE T[i - 1] + Share(ks, i)]
    BY <1>4, Zenon DEF Weight, Share
  <1>6. \A i \in 0 .. n : T[i] = IF i = 0 THEN 0 ELSE T[i - 1] + Share(ks, i)
    <2>. HIDE DEF T, n
    <2>. QED
      BY <1>5, Zenon
  <1>. HIDE DEF T
  <1>. DEFINE S == {i \in Nat : T[i] \in Nat}
  <1>7. 0 \in S /\ T[0] = 0
    BY <1>0, <1>6
  <1>8. ASSUME NEW i \in 1 .. n PROVE T[i] = T[i - 1] + Share(ks, i)
    BY <1>0, <1>6
  <1>9. ASSUME NEW i \in 0 .. n - 1, i \in S PROVE i + 1 \in S
    <2>1. i + 1 \in 1 .. n /\ (i + 1) - 1 = i
      BY <1>0
    <2>2. T[i + 1] = T[i] + Share(ks, i + 1) /\ Share(ks, i + 1) \in Nat
      BY <1>0, <1>8, <2>1
    <2>. QED
      BY <1>9, <2>1, <2>2
  <1>10. \A i \in 0 .. n : i \in S
    <2>. HIDE DEF S
    <2>. QED
      BY <1>0, <1>7, <1>9, Upward
  <1>. QED
    BY <1>7, <1>8, <1>10 DEF T

(* The weight of some slots is of those slots.                             *)
LEMMA WeightSame ==
    ASSUME NEW ks, NEW ls, NEW m \in 0 .. Len(Order),
           \A j \in 1 .. m : Order[j] \in ks <=> Order[j] \in ls
    PROVE  Weight(ks)[m] = Weight(ls)[m]
  <1>. DEFINE S == {i \in Nat : i <= m => Weight(ks)[i] = Weight(ls)[i]}
  <1>0. Len(Order) \in Nat /\ m \in Nat /\ m <= Len(Order)
    BY OrderIs
  <1>1. 0 \in S
    BY WeightIs
  <1>2. ASSUME NEW i \in 0 .. m - 1, i \in S PROVE i + 1 \in S
    <2>1. i + 1 \in 1 .. Len(Order) /\ i + 1 \in 1 .. m /\ (i + 1) - 1 = i /\ i <= m /\ i \in Nat
      BY <1>0
    <2>2. Share(ks, i + 1) = Share(ls, i + 1)
      BY <2>1 DEF Share
    <2>3. Weight(ks)[i + 1] = Weight(ks)[i] + Share(ks, i + 1) /\ Weight(ls)[i + 1] = Weight(ls)[i] + Share(ls, i + 1)
      BY <2>1, WeightIs
    <2>. QED
      BY <1>2, <2>1, <2>2, <2>3
  <1>3. m \in S
    <2>. HIDE DEF S
    <2>1. \A i \in 0 .. m : i \in S
      BY <1>0, <1>1, <1>2, Upward
    <2>. QED
      BY <1>0, <2>1
  <1>. QED
    BY <1>0, <1>3

LEMMA WeightOfNone ==
    ASSUME NEW ks, NEW m \in 0 .. Len(Order), \A j \in 1 .. m : Order[j] \notin ks
    PROVE  Weight(ks)[m] = 0
  <1>. DEFINE S == {i \in Nat : i <= m => Weight(ks)[i] = 0}
  <1>0. Len(Order) \in Nat /\ m \in Nat /\ m <= Len(Order)
    BY OrderIs
  <1>1. 0 \in S
    BY WeightIs
  <1>2. ASSUME NEW i \in 0 .. m - 1, i \in S PROVE i + 1 \in S
    <2>1. i + 1 \in 1 .. Len(Order) /\ i + 1 \in 1 .. m /\ (i + 1) - 1 = i /\ i <= m /\ i \in Nat
      BY <1>0
    <2>2. Share(ks, i + 1) = 0
      BY <2>1 DEF Share
    <2>3. Weight(ks)[i + 1] = Weight(ks)[i] + Share(ks, i + 1)
      BY <2>1, WeightIs
    <2>. QED
      BY <1>2, <2>1, <2>2, <2>3
  <1>3. m \in S
    <2>. HIDE DEF S
    <2>1. \A i \in 0 .. m : i \in S
      BY <1>0, <1>1, <1>2, Upward
    <2>. QED
      BY <1>0, <2>1
  <1>. QED
    BY <1>0, <1>3

LEMMA WeightOfSome ==
    ASSUME NEW ks, NEW m \in 0 .. Len(Order), NEW j \in 1 .. m, Order[j] \in ks
    PROVE  Weight(ks)[m] >= 1
  <1>. DEFINE S == {i \in Nat : i <= m /\ j <= i => Weight(ks)[i] >= 1}
  <1>0. Len(Order) \in Nat /\ m \in Nat /\ m <= Len(Order) /\ j \in Nat /\ j >= 1
    BY OrderIs
  <1>1. 0 \in S
    BY <1>0
  <1>2. ASSUME NEW i \in 0 .. m - 1, i \in S PROVE i + 1 \in S
    <2>1. i + 1 \in 1 .. Len(Order) /\ (i + 1) - 1 = i /\ i \in Nat /\ i \in 0 .. Len(Order) /\ i <= m
      BY <1>0
    <2>2. /\ Weight(ks)[i + 1] = Weight(ks)[i] + Share(ks, i + 1)
          /\ Weight(ks)[i] \in Nat /\ Share(ks, i + 1) \in Nat
      <3>1. Share(ks, i + 1) \in Nat
        BY <2>1, OrderIs DEF Share
      <3>. QED
        BY <2>1, <3>1, WeightIs
    <2>3. CASE j = i + 1
      <3>1. Share(ks, i + 1) >= 1
        BY <2>1, <2>3, OrderIs DEF Share
      <3>. QED
        BY <2>1, <2>2, <3>1
    <2>4. CASE j # i + 1
      BY <1>0, <1>2, <2>1, <2>2, <2>4
    <2>. QED
      BY <2>3, <2>4
  <1>3. m \in S
    <2>. HIDE DEF S
    <2>1. \A i \in 0 .. m : i \in S
      BY <1>0, <1>1, <1>2, Upward
    <2>. QED
      BY <1>0, <2>1
  <1>. QED
    BY <1>0, <1>3

(* One slot more.                                                          *)
Homes == UNION {[D -> Nat] : D \in SUBSET Keys}
Pack == [sizes : Seq(Nat), at : Homes]

Put(f, k, n) == [x \in DOMAIN f \cup {k} |-> IF x = k THEN n ELSE f[x]]

LEMMA PlacesIs ==
    ASSUME NEW f \in Homes, NEW k \in Keys, NEW n \in Nat
    PROVE  /\ Put(f, k, n) \in Homes /\ DOMAIN Put(f, k, n) = DOMAIN f \cup {k} /\ Put(f, k, n)[k] = n
           /\ \A x \in DOMAIN f : x # k => Put(f, k, n)[x] = f[x]
  <1>1. PICK D \in SUBSET Keys : f \in [D -> Nat]
    BY DEF Homes
  <1>2. Put(f, k, n) \in [D \cup {k} -> Nat] /\ D \cup {k} \in SUBSET Keys
    BY <1>1 DEF Put
  <1>3. Put(f, k, n) \in Homes
    BY <1>2 DEF Homes
  <1>. QED
    BY <1>3 DEF Put

LEMMA GrownIs ==
    ASSUME NEW s \in Seq(Nat), NEW w \in Nat
    PROVE  /\ Append(s, w) \in Seq(Nat) /\ Len(Append(s, w)) = Len(s) + 1 /\ Append(s, w)[Len(s) + 1] = w
           /\ \A x \in 1 .. Len(s) : Append(s, w)[x] = s[x]
           /\ \A n \in 1 .. Len(s) : LET t == [s EXCEPT ![n] = w] IN
                 /\ t \in Seq(Nat) /\ Len(t) = Len(s) /\ t[n] = w
                 /\ \A x \in 1 .. Len(s) : x # n => t[x] = s[x]
  OBVIOUS

LEMMA FittedIs ==
    ASSUME NEW p \in Pack, NEW k \in Keys, NEW q, q = Fitted(p, k)
    PROVE  /\ q \in Pack /\ DOMAIN q.at = DOMAIN p.at \cup {k}
           /\ \A x \in DOMAIN p.at : x # k => q.at[x] = p.at[x]
           /\ \/ /\ q.at[k] = Len(p.sizes) + 1 /\ Len(q.sizes) = Len(p.sizes) + 1
                 /\ q.sizes[Len(p.sizes) + 1] = 2 + Size[k]
                 /\ \A n \in 1 .. Len(p.sizes) : q.sizes[n] = p.sizes[n]
              \/ /\ q.at[k] \in 1 .. Len(p.sizes) /\ Len(q.sizes) = Len(p.sizes)
                 /\ q.sizes[q.at[k]] = p.sizes[q.at[k]] + Cost(p.sizes[q.at[k]], k)
                 /\ \A n \in 1 .. Len(p.sizes) : n # q.at[k] => q.sizes[n] = p.sizes[n]
  <1>. DEFINE fits == {n \in DOMAIN p.sizes : p.sizes[n] + Cost(p.sizes[n], k) <= Limit}
              n == IF fits = {} THEN Len(p.sizes) + 1 ELSE CHOOSE m \in fits : \A x \in fits : m <= x
              ss == IF fits = {} THEN Append(p.sizes, 2 + Cost(2, k))
                    ELSE [p.sizes EXCEPT ![n] = @ + Cost(@, k)]
              at == Put(p.at, k, n)
  <1>1. q = [sizes |-> ss, at |-> at]
    BY DEF Fitted, Put
  <1>2. /\ p.sizes \in Seq(Nat) /\ Len(p.sizes) \in Nat /\ DOMAIN p.sizes = 1 .. Len(p.sizes)
        /\ p.at \in Homes
    BY DEF Pack
  <1>3. Size[k] \in Nat /\ Cost(2, k) = Size[k] /\ \A c \in Nat : Cost(c, k) \in Nat
    <2>1. Size[k] \in Nat
      BY OrderIs
    <2>. QED
      BY <2>1 DEF Cost
  <1>4. CASE fits = {}
    <2>1. n = Len(p.sizes) + 1 /\ ss = Append(p.sizes, 2 + Size[k])
      BY <1>3, <1>4
    <2>. HIDE DEF n, ss, fits
    <2>2. /\ ss \in Seq(Nat) /\ n \in Nat /\ Len(ss) = Len(p.sizes) + 1 /\ ss[Len(p.sizes) + 1] = 2 + Size[k]
          /\ \A x \in 1 .. Len(p.sizes) : ss[x] = p.sizes[x]
      <3>1. 2 + Size[k] \in Nat
        BY <1>3
      <3>. QED
        BY <1>2, <2>1, <3>1, GrownIs
    <2>3. /\ at \in Homes /\ DOMAIN at = DOMAIN p.at \cup {k} /\ at[k] = n
          /\ \A x \in DOMAIN p.at : x # k => at[x] = p.at[x]
      <3>1. p.at \in Homes /\ n \in Nat
        BY <1>2, <2>2
      <3>. QED
        BY <3>1, PlacesIs
    <2>. HIDE DEF at
    <2>. QED
      BY <1>1, <2>1, <2>2, <2>3 DEF Pack
  <1>5. CASE fits # {}
    <2>1. fits \in SUBSET Nat
      BY <1>2
    <2>2. \E x \in fits : \A y \in fits : x <= y
      BY <1>5, <2>1, Least
    <2>3. n \in fits
      BY <1>5, <2>2
    <2>4. n \in 1 .. Len(p.sizes) /\ ss = [p.sizes EXCEPT ![n] = @ + Cost(@, k)]
      BY <1>2, <1>5, <2>3
    <2>. HIDE DEF n, ss, fits
    <2>5. p.sizes[n] \in Nat /\ p.sizes[n] + Cost(p.sizes[n], k) \in Nat
      <3>1. p.sizes[n] \in Nat
        BY <1>2, <2>4
      <3>2. Cost(p.sizes[n], k) \in Nat
        BY <1>3, <3>1
      <3>. QED
        BY <3>1, <3>2
    <2>6. /\ ss \in Seq(Nat) /\ n \in Nat /\ Len(ss) = Len(p.sizes)
          /\ ss[n] = p.sizes[n] + Cost(p.sizes[n], k)
          /\ \A x \in 1 .. Len(p.sizes) : x # n => ss[x] = p.sizes[x]
      <3>1. ss = [p.sizes EXCEPT ![n] = p.sizes[n] + Cost(p.sizes[n], k)]
        BY <1>2, <2>4
      <3>. QED
        BY <1>2, <2>4, <2>5, <3>1, GrownIs
    <2>7. /\ at \in Homes /\ DOMAIN at = DOMAIN p.at \cup {k} /\ at[k] = n
          /\ \A x \in DOMAIN p.at : x # k => at[x] = p.at[x]
      <3>1. p.at \in Homes /\ n \in Nat
        BY <1>2, <2>6
      <3>. QED
        BY <3>1, PlacesIs
    <2>. HIDE DEF at
    <2>. QED
      BY <1>1, <2>4, <2>6, <2>7 DEF Pack
  <1>. QED
    BY <1>4, <1>5

(* Or none, when the slot is not one of these.                             *)
Fits(p, keys, i) == IF Order[i] \in keys THEN Fitted(p, Order[i]) ELSE p

LEMMA PackingIs ==
    ASSUME NEW keys
    PROVE  /\ Packing(keys)[0] = [sizes |-> <<2>>, at |-> NoBundle]
           /\ \A i \in 1 .. Len(Order) : Packing(keys)[i] = Fits(Packing(keys)[i - 1], keys, i)
           /\ \A i \in 0 .. Len(Order) : Packing(keys)[i] \in Pack
  <1>. DEFINE n == Len(Order)
              T == Packing(keys)
              none == [sizes |-> <<2>>, at |-> NoBundle]
              step == [i \in 1 .. n |-> [g \in Pack |-> Fits(g, keys, i)]]
  <1>0. n \in Nat /\ \A i \in 1 .. n, g \in Pack : Fits(g, keys, i) \in Pack
    BY OrderIs, FittedIs DEF Fits
  <1>1. step \in [1 .. n -> [Pack -> Pack]]
    BY <1>0
  <1>2. \A i \in 1 .. n, g \in Pack : step[i][g] = Fits(g, keys, i)
    OBVIOUS
  <1>a. none \in Pack
    <2>1. NoBundle \in Homes
      BY DEF NoBundle, Homes
    <2>2. <<2>> \in Seq(Nat)
      OBVIOUS
    <2>. QED
      BY <2>1, <2>2 DEF Pack
  <1>3. PICK f \in [0 .. n -> Pack] : f[0] = none /\ \A i \in 1 .. n : f[i] = step[i][f[i - 1]]
    <2>. HIDE DEF step, n, none
    <2>1. Leads(Pack, none, n, step)
      BY <1>0, <1>1, <1>a, StepsExist
    <2>. QED
      BY <2>1 DEF Leads
  <1>4. f = [i \in 0 .. n |-> IF i = 0 THEN none ELSE Fits(f[i - 1], keys, i)]
    <2>. HIDE DEF step, none
    <2>1. ASSUME NEW i \in 0 .. n PROVE f[i] = IF i = 0 THEN none ELSE Fits(f[i - 1], keys, i)
      <3>1. CASE i = 0
        BY <1>3, <3>1
      <3>2. CASE i # 0
        <4>1. i \in 1 .. n /\ i - 1 \in 0 .. n
          BY <3>2, <1>0
        <4>2. f[i - 1] \in Pack
          BY <4>1
        <4>. QED
          BY <1>2, <1>3, <3>2, <4>1, <4>2
      <3>. QED
        BY <3>1, <3>2
    <2>. QED
      BY <2>1
  <1>5. T = [i \in 0 .. n |-> IF i = 0 THEN none ELSE Fits(T[i - 1], keys, i)]
    BY <1>4, Zenon DEF Packing, Fits
  <1>. HIDE DEF none
  <1>6. \A i \in 0 .. n : T[i] = IF i = 0 THEN none ELSE Fits(T[i - 1], keys, i)
    <2>. HIDE DEF T, n
    <2>. QED
      BY <1>5, Zenon
  <1>. HIDE DEF T
  <1>. DEFINE S == {i \in Nat : T[i] \in Pack}
  <1>7. 0 \in S /\ T[0] = none
    BY <1>0, <1>6, <1>a
  <1>8. ASSUME NEW i \in 1 .. n PROVE T[i] = Fits(T[i - 1], keys, i)
    BY <1>0, <1>6
  <1>9. ASSUME NEW i \in 0 .. n - 1, i \in S PROVE i + 1 \in S
    <2>1. i + 1 \in 1 .. n /\ (i + 1) - 1 = i
      BY <1>0
    <2>2. T[i + 1] = Fits(T[i], keys, i + 1)
      BY <1>8, <2>1
    <2>. QED
      BY <1>0, <1>9, <2>1, <2>2
  <1>10. \A i \in 0 .. n : i \in S
    <2>. HIDE DEF S
    <2>. QED
      BY <1>0, <1>7, <1>9, Upward
  <1>. QED
    BY <1>7, <1>8, <1>10 DEF T, none

(* A shard weighs what its slots do, with a comma between two of them.     *)
Within(p, n) == {k \in DOMAIN p.at : p.at[k] = n}
Commas(ks) == IF ks = {} THEN 0 ELSE Cardinality(ks) - 1
Bytes(ks, i) == 2 + Weight(ks)[i] + Commas(ks)
First(i) == {Order[j] : j \in 1 .. i}

PackInv(p, keys, i) ==
    /\ p \in Pack
    /\ DOMAIN p.at = keys \cap First(i)
    /\ \A k \in DOMAIN p.at : p.at[k] \in 1 .. Len(p.sizes)
    /\ \A n \in 1 .. Len(p.sizes) : p.sizes[n] = Bytes(Within(p, n), i)

LEMMA FirstIs ==
    ASSUME NEW i \in 0 .. Len(Order)
    PROVE  /\ IsFiniteSet(First(i)) /\ First(0) = {}
           /\ i < Len(Order) => First(i + 1) = First(i) \cup {Order[i + 1]} /\ Order[i + 1] \notin First(i)
  <1>. DEFINE S == {m \in Nat : m <= i => IsFiniteSet(First(m))}
  <1>0. Len(Order) \in Nat /\ i \in Nat /\ i <= Len(Order) /\ First(0) = {}
    BY OrderIs DEF First
  <1>1. 0 \in S
    BY <1>0, FS_EmptySet
  <1>2. ASSUME NEW m \in 0 .. i - 1, m \in S PROVE m + 1 \in S
    <2>1. m \in Nat /\ m <= i /\ First(m + 1) = First(m) \cup {Order[m + 1]}
      BY <1>0 DEF First
    <2>2. IsFiniteSet(First(m) \cup {Order[m + 1]})
      BY <1>2, <2>1, FS_AddElement
    <2>3. IsFiniteSet(First(m + 1))
      BY <2>1, <2>2, Zenon
    <2>. QED
      BY <2>1, <2>3
  <1>3. IsFiniteSet(First(i))
    <2>. HIDE DEF S
    <2>1. \A m \in 0 .. i : m \in S
      BY <1>0, <1>1, <1>2, Upward
    <2>. QED
      BY <1>0, <2>1 DEF S
  <1>4. ASSUME i < Len(Order)
        PROVE  First(i + 1) = First(i) \cup {Order[i + 1]} /\ Order[i + 1] \notin First(i)
    <2>1. First(i + 1) = First(i) \cup {Order[i + 1]}
      BY <1>0 DEF First
    <2>2. ASSUME NEW j \in 1 .. i PROVE Order[i + 1] # Order[j]
      <3>1. i + 1 \in 1 .. Len(Order) /\ j \in 1 .. Len(Order) /\ j # i + 1
        BY <1>0, <1>4
      <3>. QED
        BY <3>1, OrderIs
    <2>3. Order[i + 1] \notin First(i)
      BY <2>2 DEF First
    <2>. QED
      BY <2>1, <2>3
  <1>. QED
    BY <1>0, <1>3, <1>4

LEMMA OneMore ==
    ASSUME NEW ks, IsFiniteSet(ks), NEW k, k \notin ks
    PROVE  Commas(ks \cup {k}) = (IF ks = {} THEN 0 ELSE Commas(ks) + 1) /\ Commas(ks) \in Nat
  <1>1. Cardinality(ks \cup {k}) = Cardinality(ks) + 1 /\ Cardinality(ks) \in Nat
    BY FS_AddElement, FS_CardinalityType
  <1>2. ks = {} <=> Cardinality(ks) = 0
    BY FS_EmptySet
  <1>. QED
    BY <1>1, <1>2 DEF Commas

(* What the bytes of a shard become.                                       *)
LEMMA BytesGrow ==
    ASSUME NEW i \in Nat, i < Len(Order), NEW ks \in SUBSET First(i)
    PROVE  /\ Bytes(ks, i) \in Nat /\ Bytes(ks, i + 1) = Bytes(ks, i)
           /\ Bytes(ks \cup {Order[i + 1]}, i + 1) = Bytes(ks, i) + Cost(Bytes(ks, i), Order[i + 1])
           /\ Bytes({Order[i + 1]}, i + 1) = 2 + Size[Order[i + 1]]
  <1>. DEFINE k == Order[i + 1]
              W == Weight(ks)[i]
              more == ks \cup {k}
  <1>0. /\ Len(Order) \in Nat /\ i \in 0 .. Len(Order) /\ i + 1 \in 1 .. Len(Order) /\ (i + 1) - 1 = i
        /\ i + 1 \in 0 .. Len(Order)
    BY OrderIs
  <1>1. /\ k \notin First(i) /\ k \notin ks /\ IsFiniteSet(ks) /\ Size[k] \in Nat /\ Size[k] >= 1
    <2>1. IsFiniteSet(First(i)) /\ k \notin First(i)
      BY <1>0, FirstIs
    <2>2. IsFiniteSet(ks)
      BY <2>1, FS_Subset
    <2>. QED
      BY <1>0, <2>1, <2>2, OrderIs
  <1>2. \A j \in 1 .. i : Order[j] \in First(i) /\ Order[j] # k
    BY <1>1 DEF First
  <1>. HIDE DEF k
  <1>3. W \in Nat /\ (ks = {} => W = 0) /\ (ks # {} => W >= 1)
    <2>1. W \in Nat
      BY <1>0, WeightIs
    <2>2. ks = {} => W = 0
      BY <1>0, WeightOfNone
    <2>3. ASSUME ks # {} PROVE W >= 1
      <3>1. PICK x \in ks : TRUE
        BY <2>3
      <3>2. PICK j \in 1 .. i : x = Order[j]
        BY DEF First
      <3>. QED
        BY <1>0, <3>1, <3>2, WeightOfSome
    <2>. QED
      BY <2>1, <2>2, <2>3
  <1>4. Weight(ks)[i + 1] = W
    <2>1. Share(ks, i + 1) = 0
      BY <1>1 DEF Share, k
    <2>2. Weight(ks)[i + 1] = W + Share(ks, i + 1)
      BY <1>0, WeightIs
    <2>. QED
      BY <1>3, <2>1, <2>2
  <1>5. Weight(more)[i + 1] = W + Size[k]
    <2>1. Share(more, i + 1) = Size[k]
      BY DEF Share, k
    <2>2. Weight(more)[i + 1] = Weight(more)[i] + Share(more, i + 1)
      BY <1>0, WeightIs
    <2>3. Weight(more)[i] = W
      <3>1. \A j \in 1 .. i : Order[j] \in more <=> Order[j] \in ks
        BY <1>2
      <3>. HIDE DEF more
      <3>. QED
        BY <1>0, <3>1, WeightSame
    <2>. QED
      BY <2>1, <2>2, <2>3
  <1>6. Weight({k})[i + 1] = Size[k]
    <2>1. Share({k}, i + 1) = Size[k]
      BY DEF Share, k
    <2>2. Weight({k})[i + 1] = Weight({k})[i] + Share({k}, i + 1)
      BY <1>0, WeightIs
    <2>3. Weight({k})[i] = 0
      BY <1>0, <1>2, WeightOfNone
    <2>. QED
      BY <1>1, <2>1, <2>2, <2>3
  <1>. HIDE DEF W
  <1>7. Commas(more) = (IF ks = {} THEN 0 ELSE Commas(ks) + 1) /\ Commas(ks) \in Nat
    BY <1>1, OneMore
  <1>8. (ks = {} => Commas(ks) = 0) /\ Commas({k}) = 0
    <2>1. Cardinality({k}) = 1
      BY FS_Singleton
    <2>. QED
      BY <2>1 DEF Commas
  <1>9. /\ Bytes(ks, i) = 2 + W + Commas(ks) /\ Bytes(ks, i + 1) = 2 + W + Commas(ks)
        /\ Bytes(more, i + 1) = 2 + (W + Size[k]) + Commas(more)
        /\ Bytes({k}, i + 1) = 2 + Size[k] + Commas({k})
    BY <1>4, <1>5, <1>6 DEF Bytes, W
  <1>. HIDE DEF more
  <1>10. Cost(Bytes(ks, i), k) = Size[k] + (IF ks = {} THEN 0 ELSE 1)
    <2>1. Bytes(ks, i) > 2 <=> ks # {}
      BY <1>3, <1>7, <1>8, <1>9
    <2>. QED
      BY <2>1 DEF Cost
  <1>11. Bytes(more, i + 1) = Bytes(ks, i) + Cost(Bytes(ks, i), k)
    <2>1. CASE ks = {}
      BY <1>1, <1>3, <1>7, <1>8, <1>9, <1>10, <2>1
    <2>2. CASE ks # {}
      <3>1. Commas(more) = Commas(ks) + 1 /\ Cost(Bytes(ks, i), k) = Size[k] + 1
        BY <1>7, <1>10, <2>2
      <3>2. ASSUME NEW w \in Nat, NEW z \in Nat, NEW c \in Nat
            PROVE  2 + (w + z) + (c + 1) = 2 + w + c + (z + 1)
        OBVIOUS
      <3>3. 2 + (W + Size[k]) + (Commas(ks) + 1) = 2 + W + Commas(ks) + (Size[k] + 1)
        BY <1>1, <1>3, <1>7, <3>2
      <3>. QED
        BY <1>9, <3>1, <3>3
    <2>. QED
      BY <2>1, <2>2
  <1>. QED
    BY <1>1, <1>3, <1>7, <1>8, <1>9, <1>11 DEF k, more

LEMMA PackStep ==
    ASSUME NEW i \in Nat, i < Len(Order), NEW keys, NEW p, PackInv(p, keys, i), NEW q, q = Fits(p, keys, i + 1)
    PROVE  PackInv(q, keys, i + 1)
  <1>. DEFINE k == Order[i + 1]
  <1>0. /\ Len(Order) \in Nat /\ i \in 0 .. Len(Order) /\ i + 1 \in 1 .. Len(Order)
        /\ First(i + 1) = First(i) \cup {k} /\ k \notin First(i) /\ k \in Keys
    BY OrderIs, FirstIs
  <1>1. /\ p \in Pack /\ DOMAIN p.at = keys \cap First(i) /\ Len(p.sizes) \in Nat
        /\ \A x \in DOMAIN p.at : p.at[x] \in 1 .. Len(p.sizes)
        /\ \A n \in 1 .. Len(p.sizes) : p.sizes[n] = Bytes(Within(p, n), i)
    BY DEF PackInv, Pack
  <1>2. \A n : Within(p, n) \in SUBSET First(i)
    BY <1>1 DEF Within
  <1>3. /\ \A n \in 1 .. Len(p.sizes) : p.sizes[n] = Bytes(Within(p, n), i + 1) /\ p.sizes[n] \in Nat
        /\ \A n \in 1 .. Len(p.sizes) :
               Bytes(Within(p, n) \cup {k}, i + 1) = p.sizes[n] + Cost(p.sizes[n], k)
        /\ Bytes({k}, i + 1) = 2 + Size[k]
    <2>1. ASSUME NEW n \in 1 .. Len(p.sizes)
          PROVE  /\ p.sizes[n] = Bytes(Within(p, n), i + 1) /\ p.sizes[n] \in Nat
                 /\ Bytes(Within(p, n) \cup {k}, i + 1) = p.sizes[n] + Cost(p.sizes[n], k)
      BY <1>1, <1>2, BytesGrow
    <2>2. Bytes({k}, i + 1) = 2 + Size[k]
      <3>1. {} \in SUBSET First(i)
        OBVIOUS
      <3>. QED
        BY <3>1, BytesGrow
    <2>. QED
      BY <2>1, <2>2
  <1>. HIDE DEF k
  <1>4. CASE k \notin keys
    <2>1. q = p
      BY <1>4 DEF Fits, k
    <2>2. DOMAIN p.at = keys \cap First(i + 1)
      BY <1>0, <1>1, <1>4
    <2>. QED
      BY <1>1, <1>3, <2>1, <2>2 DEF PackInv
  <1>5. CASE k \in keys
    <2>1. q = Fitted(p, k)
      BY <1>5 DEF Fits, k
    <2>2. /\ q \in Pack /\ DOMAIN q.at = DOMAIN p.at \cup {k}
          /\ \A x \in DOMAIN p.at : x # k => q.at[x] = p.at[x]
      BY <1>0, <1>1, <2>1, FittedIs
    <2>3. \/ /\ q.at[k] = Len(p.sizes) + 1 /\ Len(q.sizes) = Len(p.sizes) + 1
             /\ q.sizes[Len(p.sizes) + 1] = 2 + Size[k]
             /\ \A n \in 1 .. Len(p.sizes) : q.sizes[n] = p.sizes[n]
          \/ /\ q.at[k] \in 1 .. Len(p.sizes) /\ Len(q.sizes) = Len(p.sizes)
             /\ q.sizes[q.at[k]] = p.sizes[q.at[k]] + Cost(p.sizes[q.at[k]], k)
             /\ \A n \in 1 .. Len(p.sizes) : n # q.at[k] => q.sizes[n] = p.sizes[n]
      BY <1>0, <1>1, <2>1, FittedIs
    <2>4. DOMAIN q.at = keys \cap First(i + 1)
      BY <1>0, <1>1, <1>5, <2>2
    <2>5. k \notin DOMAIN p.at
      BY <1>0, <1>1
    <2>6. ASSUME NEW n PROVE Within(q, n) = IF n = q.at[k] THEN Within(p, n) \cup {k} ELSE Within(p, n)
      BY <2>2, <2>5 DEF Within
    <2>7. CASE /\ q.at[k] = Len(p.sizes) + 1 /\ Len(q.sizes) = Len(p.sizes) + 1
               /\ q.sizes[Len(p.sizes) + 1] = 2 + Size[k]
               /\ \A n \in 1 .. Len(p.sizes) : q.sizes[n] = p.sizes[n]
      <3>1. \A x \in DOMAIN q.at : q.at[x] \in 1 .. Len(q.sizes)
        BY <1>1, <2>2, <2>5, <2>7
      <3>2. Within(p, Len(p.sizes) + 1) = {}
        BY <1>1 DEF Within
      <3>3. ASSUME NEW n \in 1 .. Len(q.sizes) PROVE q.sizes[n] = Bytes(Within(q, n), i + 1)
        <4>1. CASE n = Len(p.sizes) + 1
          <5>1. Within(q, n) = {k}
            BY <2>6, <2>7, <3>2, <4>1
          <5>. QED
            BY <1>3, <2>7, <4>1, <5>1
        <4>2. CASE n # Len(p.sizes) + 1
          <5>0. n # q.at[k] /\ n \in 1 .. Len(p.sizes) + 1 /\ Len(p.sizes) \in Nat
            BY <1>1, <2>7, <4>2
          <5>1. Within(q, n) = Within(p, n)
            BY <2>6, <5>0, Zenon
          <5>2. n \in 1 .. Len(p.sizes)
            BY <4>2, <5>0
          <5>. QED
            BY <1>3, <2>7, <5>1, <5>2
        <4>. QED
          BY <4>1, <4>2
      <3>. QED
        BY <2>2, <2>4, <3>1, <3>3 DEF PackInv
    <2>8. CASE /\ q.at[k] \in 1 .. Len(p.sizes) /\ Len(q.sizes) = Len(p.sizes)
               /\ q.sizes[q.at[k]] = p.sizes[q.at[k]] + Cost(p.sizes[q.at[k]], k)
               /\ \A n \in 1 .. Len(p.sizes) : n # q.at[k] => q.sizes[n] = p.sizes[n]
      <3>1. \A x \in DOMAIN q.at : q.at[x] \in 1 .. Len(q.sizes)
        BY <1>1, <2>2, <2>5, <2>8
      <3>3. ASSUME NEW n \in 1 .. Len(q.sizes) PROVE q.sizes[n] = Bytes(Within(q, n), i + 1)
        <4>0. n \in 1 .. Len(p.sizes)
          BY <2>8
        <4>1. CASE n = q.at[k]
          BY <1>3, <2>6, <2>8, <4>0, <4>1
        <4>2. CASE n # q.at[k]
          BY <1>3, <2>6, <2>8, <4>0, <4>2
        <4>. QED
          BY <4>1, <4>2
      <3>. QED
        BY <2>2, <2>4, <3>1, <3>3 DEF PackInv
    <2>. QED
      BY <2>3, <2>7, <2>8
  <1>. QED
    BY <1>4, <1>5

LEMMA PackedBytes == ASSUME NEW keys PROVE PackInv(Packing(keys)[Len(Order)], keys, Len(Order))
  <1>. DEFINE n == Len(Order)
              T == Packing(keys)
              S == {i \in Nat : i <= n => PackInv(T[i], keys, i)}
  <1>0. n \in Nat
    BY OrderIs
  <1>1. T[0] = [sizes |-> <<2>>, at |-> NoBundle] /\ T[0] \in Pack
    BY <1>0, PackingIs
  <1>2. \A i \in 1 .. n : T[i] = Fits(T[i - 1], keys, i)
    BY PackingIs
  <1>. HIDE DEF T, n
  <1>3. 0 \in S
    <2>1. /\ T[0].sizes = <<2>> /\ T[0].at = NoBundle /\ DOMAIN T[0].at = {} /\ Len(T[0].sizes) = 1
          /\ T[0].sizes[1] = 2
      BY <1>1 DEF NoBundle
    <2>2. Within(T[0], 1) = {}
      BY <2>1 DEF Within
    <2>3. Bytes({}, 0) = 2
      BY WeightIs DEF Bytes, Commas
    <2>4. First(0) = {}
      BY DEF First
    <2>5. ASSUME NEW m \in 1 .. Len(T[0].sizes) PROVE T[0].sizes[m] = Bytes(Within(T[0], m), 0)
      <3>1. m = 1
        BY <2>1
      <3>. QED
        BY <2>1, <2>2, <2>3, <3>1
    <2>6. PackInv(T[0], keys, 0)
      BY <1>1, <2>1, <2>4, <2>5 DEF PackInv
    <2>. QED
      BY <2>6
  <1>4. ASSUME NEW i \in 0 .. n - 1, i \in S PROVE i + 1 \in S
    <2>1. i + 1 \in 1 .. n /\ (i + 1) - 1 = i /\ i \in Nat /\ i < n /\ i <= n
      BY <1>0
    <2>2. T[i + 1] = Fits(T[i], keys, i + 1)
      BY <1>2, <2>1
    <2>3. PackInv(T[i], keys, i)
      BY <1>4, <2>1
    <2>4. PackInv(T[i + 1], keys, i + 1)
      BY <2>1, <2>2, <2>3, PackStep DEF n
    <2>. QED
      BY <2>1, <2>4
  <1>5. n \in S
    <2>. HIDE DEF S
    <2>1. \A i \in 0 .. n : i \in S
      BY <1>0, <1>3, <1>4, Upward
    <2>. QED
      BY <1>0, <2>1
  <1>6. PackInv(T[n], keys, n)
    BY <1>0, <1>5
  <1>. QED
    BY <1>6 DEF T, n

(* What is packed and fits, fits.                                          *)
LEMMA PackedFits ==
    ASSUME NEW rows \in SUBSET Source, BundleFits(rows), NEW n \in Nat,
           NEW mine, mine = {k \in {Key(r) : r \in Captured(rows)} : Packed(rows).at[k] = n}, mine # {}
    PROVE  2 + Weight(mine)[Len(Order)] + Cardinality(mine) - 1 <= Limit
  <1>. DEFINE keys == {Key(r) : r \in Captured(rows)}
              p == Packed(rows)
  <1>0. p = Packing(keys)[Len(Order)]
    BY DEF Packed
  <1>1. keys \subseteq Keys
    BY DEF Keys, Captured, Written
  <1>2. Keys \subseteq First(Len(Order)) /\ Len(Order) \in Nat /\ IsFiniteSet(First(Len(Order)))
    <2>1. Len(Order) \in 0 .. Len(Order) /\ Len(Order) \in Nat
      BY OrderIs
    <2>. QED
      BY <2>1, OrderIs, FirstIs DEF First
  <1>3. mine = {k \in keys : p.at[k] = n}
    OBVIOUS
  <1>. HIDE DEF keys, p
  <1>4. PackInv(p, keys, Len(Order))
    BY <1>0, PackedBytes
  <1>5. DOMAIN p.at = keys /\ mine = Within(p, n)
    BY <1>1, <1>2, <1>3, <1>4 DEF PackInv, Within
  <1>6. n \in 1 .. Len(p.sizes) /\ p.sizes[n] = Bytes(mine, Len(Order))
    BY <1>4, <1>5 DEF PackInv, Within
  <1>7. p.sizes[n] <= Limit
    <2>1. \A m \in DOMAIN p.sizes : p.sizes[m] <= Limit
      BY DEF BundleFits, p
    <2>2. DOMAIN p.sizes = 1 .. Len(p.sizes)
      BY <1>4 DEF PackInv, Pack
    <2>. QED
      BY <1>6, <2>1, <2>2
  <1>8. Weight(mine)[Len(Order)] \in Nat /\ Cardinality(mine) \in Nat
    <2>1. IsFiniteSet(mine)
      BY <1>1, <1>2, <1>3, FS_Subset
    <2>2. Cardinality(mine) \in Nat
      BY <2>1, FS_CardinalityType
    <2>. QED
      BY <1>2, <2>2, WeightIs
  <1>. QED
    BY <1>6, <1>7, <1>8 DEF Bytes, Commas
-----------------------------------------------------------------------------
(* The bundle on disk is the packing of some rows that fitted.             *)

PackedFrom(b, rows) ==
    /\ BundleFits(rows) /\ DOMAIN b = {Key(r) : r \in Captured(rows)}
    /\ \A k \in DOMAIN b : b[k].shard = Packed(rows).at[k]

ShardInv ==
    /\ live \subseteq Source /\ job \in [Importer -> Job]
    /\ bundle = NoBundle \/ \E rows \in SUBSET Source : PackedFrom(bundle, rows)

LEMMA ShardInit == ASSUME Init PROVE ShardInv
  <1>1. job \in [Importer -> Job]
    BY IdleJob DEF Init
  <1>. QED
    BY <1>1 DEF Init, ShardInv

LEMMA MovedJob ==
    ASSUME job \in [Importer -> Job], NEW i \in Importer, NEW j \in Job, Go(i, j)
    PROVE  job' \in [Importer -> Job]
  BY DEF Go

LEMMA ReadTyped ==
    ASSUME ShardInv, NEW i \in Importer, NEW a, NEW rows \in SUBSET Source, Complete(a) => a.rows = rows,
           Read(i, a, rows)
    PROVE  job' \in [Importer -> Job]
  <1>0. job[i] \in Job /\ job \in [Importer -> Job]
    BY DEF ShardInv
  <1>1. CASE Complete(a)
    <2>. DEFINE j == [job[i] EXCEPT !.pc = "gates", !.rows = a.rows, !.truth = rows]
    <2>1. j \in Job
      BY <1>0, <1>1 DEF Job, Stages
    <2>2. Go(i, j)
      BY <1>1 DEF Read
    <2>. HIDE DEF j
    <2>. QED
      BY <1>0, <2>1, <2>2, MovedJob
  <1>2. CASE ~Complete(a)
    BY <1>0, <1>2, IdleJob, MovedJob DEF Read, End
  <1>. QED
    BY <1>1, <1>2

(* Whatever an importer does, its rows are rows of the source.             *)
LEMMA JobsTyped ==
    ASSUME ShardInv, NEW i \in Importer,
           \/ Start(i) \/ ReadApi(i) \/ ReadFile(i) \/ Gates(i) \/ PublishBundle(i)
           \/ Inspect(i) \/ Recheck(i) \/ Rename(i) \/ Crash(i)
    PROVE  job' \in [Importer -> Job]
  <1>0. job[i] \in Job /\ job \in [Importer -> Job]
    BY DEF ShardInv
  <1>1. ASSUME End(i) PROVE job' \in [Importer -> Job]
    BY <1>0, <1>1, IdleJob, MovedJob DEF End
  <1>2. ASSUME NEW l \in Stages, Goto(i, l) PROVE job' \in [Importer -> Job]
    <2>1. [job[i] EXCEPT !.pc = l] \in Job
      BY <1>0 DEF Job
    <2>. QED
      BY <1>0, <1>2, <2>1, MovedJob DEF Goto
  <1>3. CASE Start(i)
    <2>1. [Idle EXCEPT !.pc = "read"] \in Job
      BY DEF Idle, Job, Stages, Places
    <2>. QED
      BY <1>0, <1>3, <2>1, MovedJob DEF Start
  <1>4. CASE ReadApi(i)
    <2>1. PICK ns \in Namespace :
            \E a \in Answer({r \in live : r.ns = ns}) : Read(i, a, {r \in live : r.ns = ns})
      BY <1>4 DEF ReadApi
    <2>. DEFINE rows == {r \in live : r.ns = ns}
    <2>2. PICK a \in Answer(rows) : Read(i, a, rows)
      BY <2>1
    <2>3. rows \in SUBSET Source
      BY DEF ShardInv
    <2>. HIDE DEF rows
    <2>4. Complete(a) => a.rows = rows
      BY <2>2 DEF Answer, Complete
    <2>. QED
      BY <2>2, <2>3, <2>4, ReadTyped
  <1>5. CASE ReadFile(i)
    <2>. DEFINE a == [rows |-> live, cached |-> FALSE, sealed |-> TRUE]
    <2>1. Read(i, a, live) \/ End(i)
      BY <1>5 DEF ReadFile
    <2>2. live \in SUBSET Source /\ (Complete(a) => a.rows = live)
      BY DEF ShardInv
    <2>. HIDE DEF a
    <2>. QED
      BY <1>1, <2>1, <2>2, ReadTyped
  <1>6. CASE Gates(i)
    <2>1. PICK opts \in Options, where \in {"none", "outside", "inside"} :
            LET j == [job[i] EXCEPT !.opts = opts, !.where = where, !.pc = "bundle"] IN
            IF Passes(j) /\ out.state \in {"absent", "empty"} THEN Go(i, j) ELSE End(i)
      BY <1>6 DEF Gates
    <2>. DEFINE j == [job[i] EXCEPT !.opts = opts, !.where = where, !.pc = "bundle"]
    <2>2. j \in Job
      BY <1>0 DEF Job, Stages, Past, Options, Flags, Places
    <2>3. Go(i, j) \/ End(i)
      BY <2>1
    <2>. HIDE DEF j
    <2>. QED
      BY <1>0, <1>1, <2>2, <2>3, MovedJob
  <1>7. CASE PublishBundle(i)
    <2>1. Goto(i, "inspect") \/ End(i)
      BY <1>7 DEF PublishBundle
    <2>2. "inspect" \in Stages
      BY DEF Stages, Past
    <2>. QED
      BY <1>1, <1>2, <2>1, <2>2
  <1>8. CASE Inspect(i)
    <2>. DEFINE j == [job[i] EXCEPT !.pc = "recheck", !.existed = out.state = "empty"]
    <2>1. j \in Job
      BY <1>0 DEF Job, Stages, Past
    <2>2. Go(i, j) \/ End(i)
      BY <1>8 DEF Inspect
    <2>. HIDE DEF j
    <2>. QED
      BY <1>0, <1>1, <2>1, <2>2, MovedJob
  <1>9. CASE Recheck(i)
    <2>1. Goto(i, "rename") \/ End(i)
      BY <1>9 DEF Recheck
    <2>2. "rename" \in Stages
      BY DEF Stages, Past
    <2>. QED
      BY <1>1, <1>2, <2>1, <2>2
  <1>10. CASE Rename(i) \/ Crash(i)
    <2>1. End(i)
      BY <1>10 DEF Rename, Crash
    <2>. QED
      BY <1>1, <2>1
  <1>. QED
    BY <1>3, <1>4, <1>5, <1>6, <1>7, <1>8, <1>9, <1>10

(* Only a bundle that fits is published, and only publishing changes it.   *)
LEMMA PublishPacks ==
    ASSUME ShardInv, NEW i \in Importer, PublishBundle(i)
    PROVE  bundle' = bundle \/ \E rows \in SUBSET Source : PackedFrom(bundle', rows)
  <1>. DEFINE rows == job[i].rows
              new == [k \in {Key(r) : r \in Captured(rows)} |->
                        [row |-> CHOOSE r \in Captured(rows) : Key(r) = k, shard |-> Packed(rows).at[k]]]
  <1>1. bundle' = bundle \/ (BundleFits(rows) /\ bundle' = new)
    BY DEF PublishBundle, Replaced
  <1>2. rows \in SUBSET Source
    <2>1. job[i] \in Job
      BY DEF ShardInv
    <2>. QED
      BY <2>1 DEF Job
  <1>3. DOMAIN new = {Key(r) : r \in Captured(rows)}
    OBVIOUS
  <1>4. \A k \in DOMAIN new : new[k].shard = Packed(rows).at[k]
    OBVIOUS
  <1>. HIDE DEF new, rows
  <1>5. BundleFits(rows) /\ bundle' = new => PackedFrom(bundle', rows)
    BY <1>3, <1>4 DEF PackedFrom
  <1>. QED
    BY <1>1, <1>2, <1>5

LEMMA ShardStep == ASSUME ShardInv, [Next]_vars PROVE ShardInv'
  <1>1. CASE UNCHANGED vars
    BY <1>1 DEF vars, ShardInv
  <1>2. ASSUME NEW i \in Importer,
               \/ Start(i) \/ ReadApi(i) \/ ReadFile(i) \/ Gates(i) \/ PublishBundle(i)
               \/ Inspect(i) \/ Recheck(i) \/ Rename(i) \/ Crash(i)
        PROVE  ShardInv'
    <2>1. live' = live
      BY <1>2 DEF Start, ReadApi, ReadFile, Gates, PublishBundle, Inspect, Recheck, Rename, Crash, Env
    <2>2. bundle' = bundle \/ PublishBundle(i)
      BY <1>2 DEF Start, ReadApi, ReadFile, Gates, Inspect, Recheck, Rename, Crash
    <2>3. bundle' = bundle \/ \E rows \in SUBSET Source : PackedFrom(bundle', rows)
      BY <2>2, PublishPacks
    <2>4. job' \in [Importer -> Job]
      BY <1>2, JobsTyped
    <2>. QED
      BY <2>1, <2>3, <2>4 DEF ShardInv
  <1>3. CASE Change
    <2>1. live' \subseteq Source /\ UNCHANGED <<bundle, job>>
      BY <1>3 DEF Change, ShardInv
    <2>. QED
      BY <2>1 DEF ShardInv
  <1>4. CASE Intrude
    BY <1>4 DEF Intrude, ShardInv
  <1>5. CASE Done
    BY <1>1, <1>5 DEF Done
  <1>. QED
    BY <1>1, <1>2, <1>3, <1>4, <1>5 DEF Next

(* No shard of the bundle is over the limit, commas and braces counted:    *)
(* whatever the slots weigh, and of imports that overlap, too.             *)
THEOREM ShardsAlwaysFit == Spec => []ShardsFit
  <1>1. Init => ShardInv
    BY ShardInit
  <1>2. ShardInv /\ [Next]_vars => ShardInv'
    BY ShardStep
  <1>3. ShardInv => ShardsFit
    <2>. SUFFICES ASSUME ShardInv, NEW n \in 1 .. MaxShards,
                         {k \in DOMAIN bundle : bundle[k].shard = n} # {}
                  PROVE  LET mine == {k \in DOMAIN bundle : bundle[k].shard = n}
                         IN  2 + Weight(mine)[Len(Order)] + Cardinality(mine) - 1 <= Limit
      BY DEF ShardsFit
    <2>. DEFINE mine == {k \in DOMAIN bundle : bundle[k].shard = n}
    <2>1. bundle # NoBundle
      BY DEF NoBundle
    <2>2. PICK rows \in SUBSET Source : PackedFrom(bundle, rows)
      BY <2>1 DEF ShardInv
    <2>3. mine = {k \in {Key(r) : r \in Captured(rows)} : Packed(rows).at[k] = n}
      BY <2>2 DEF PackedFrom
    <2>4. BundleFits(rows) /\ n \in Nat /\ mine # {}
      BY <2>2 DEF PackedFrom
    <2>. HIDE DEF mine
    <2>5. 2 + Weight(mine)[Len(Order)] + Cardinality(mine) - 1 <= Limit
      BY <2>3, <2>4, PackedFits
    <2>. QED
      BY <2>5 DEF mine
  <1>. QED
    BY <1>1, <1>2, <1>3, PTL DEF Spec
-----------------------------------------------------------------------------
(* The assembly of the tree an import, or a person, has written: for any   *)
(* files, fragments and filter.                                            *)
CONSTANTS Base, Overlay, Territory, AllNs, Lexical, NoName, NoList, MaxBase, MaxOverlay
VARIABLES base, over, filter, tree, rest, targets, parts, mesh, gateway, phase
A == INSTANCE Assembly WITH Namespace <- Territory

LEMMA AssemblyLibrary ==
    /\ \A S : A!IsFiniteSet(S) <=> IsFiniteSet(S)
    /\ \A S : A!Cardinality(S) = Cardinality(S)
  <1>1. \A S : A!IsFiniteSet(S) <=> IsFiniteSet(S)
    BY DEF A!IsFiniteSet, IsFiniteSet
  <1>. QED
    BY <1>1 DEF A!Cardinality, Cardinality
-----------------------------------------------------------------------------
(* Lists that are built one member at a time.                              *)

(* What placing a member does to a list.                                   *)
Spares(x, m) == x.name = NoName \/ x.name # m.name

LEMMA PlaceIs ==
    ASSUME NEW X, NEW items \in Seq(X), NEW m \in X
    PROVE  /\ A!Place(items, m) \in Seq(X) /\ Len(items) <= Len(A!Place(items, m))
           /\ m \in A!Members(A!Place(items, m))
           /\ \A k \in 1 .. Len(items) : Spares(items[k], m) => A!Place(items, m)[k] = items[k]
           /\ \A x \in A!Members(items) : Spares(x, m) => x \in A!Members(A!Place(items, m))
  <1>. DEFINE ds == A!Place(items, m)
              same == {i \in DOMAIN items : items[i].name = m.name}
              c == CHOOSE i \in same : \A j \in same : i <= j
  <1>1. ASSUME ds = items, m \in A!Members(items)
        PROVE  /\ ds \in Seq(X) /\ Len(items) <= Len(ds) /\ m \in A!Members(ds)
               /\ \A k \in 1 .. Len(items) : Spares(items[k], m) => ds[k] = items[k]
    BY <1>1
  <1>2. ASSUME ds = Append(items, m)
        PROVE  /\ ds \in Seq(X) /\ Len(items) <= Len(ds) /\ m \in A!Members(ds)
               /\ \A k \in 1 .. Len(items) : Spares(items[k], m) => ds[k] = items[k]
    BY <1>2 DEF A!Members
  <1>3. ASSUME m.name # NoName, same # {}, ds = [items EXCEPT ![c] = m]
        PROVE  /\ ds \in Seq(X) /\ Len(items) <= Len(ds) /\ m \in A!Members(ds)
               /\ \A k \in 1 .. Len(items) : Spares(items[k], m) => ds[k] = items[k]
    <2>1. same \in SUBSET Nat
      OBVIOUS
    <2>2. \E i \in same : \A j \in same : i <= j
      BY <1>3, <2>1, Least
    <2>3. c \in same
      BY <2>2
    <2>4. c \in 1 .. Len(items) /\ items[c].name = m.name
      BY <2>3
    <2>. HIDE DEF c, same
    <2>5. ds \in Seq(X) /\ Len(ds) = Len(items) /\ ds[c] = m
      BY <1>3, <2>4
    <2>. QED
      BY <1>3, <2>4, <2>5 DEF A!Members, Spares
  <1>4. \/ ds = items /\ m \in A!Members(items)
        \/ ds = Append(items, m)
        \/ m.name # NoName /\ same # {} /\ ds = [items EXCEPT ![c] = m]
    BY DEF A!Place
  <1>5. /\ ds \in Seq(X) /\ Len(items) <= Len(ds) /\ m \in A!Members(ds)
        /\ \A k \in 1 .. Len(items) : Spares(items[k], m) => ds[k] = items[k]
    BY <1>1, <1>2, <1>3, <1>4
  <1>6. ASSUME NEW x \in A!Members(items), Spares(x, m) PROVE x \in A!Members(ds)
    <2>. HIDE DEF ds
    <2>1. PICK k \in 1 .. Len(items) : x = items[k]
      BY DEF A!Members
    <2>. QED
      BY <1>5, <1>6, <2>1 DEF A!Members
  <1>. QED
    BY <1>5, <1>6

LEMMA PlacedIs ==
    ASSUME NEW X, NEW old \in Seq(X), NEW new \in Seq(X)
    PROVE  /\ A!Placed(old, new)[0] = old
           /\ \A i \in 1 .. Len(new) : A!Placed(old, new)[i] = A!Place(A!Placed(old, new)[i - 1], new[i])
           /\ \A i \in 0 .. Len(new) : A!Placed(old, new)[i] \in Seq(X)
  <1>. DEFINE n == Len(new)
              T == A!Placed(old, new)
              step == [i \in 1 .. n |-> [g \in Seq(X) |-> A!Place(g, new[i])]]
  <1>0. ASSUME NEW i \in 1 .. n, NEW g \in Seq(X) PROVE new[i] \in X /\ A!Place(g, new[i]) \in Seq(X)
    <2>1. new[i] \in X
      OBVIOUS
    <2>. QED
      BY <2>1, PlaceIs
  <1>1. step \in [1 .. n -> [Seq(X) -> Seq(X)]] /\ n \in Nat
    <2>1. n \in Nat
      OBVIOUS
    <2>. HIDE DEF n
    <2>. QED
      BY <1>0, <2>1
  <1>2. \A i \in 1 .. n, g \in Seq(X) : step[i][g] = A!Place(g, new[i])
    OBVIOUS
  <1>3. PICK f \in [0 .. n -> Seq(X)] :
           f[0] = old /\ \A i \in 1 .. n : f[i] = step[i][f[i - 1]]
    <2>. DEFINE Y == Seq(X)
    <2>1. old \in Y /\ n \in Nat /\ step \in [1 .. n -> [Y -> Y]]
      BY <1>1
    <2>. HIDE DEF step, n, Y
    <2>2. Leads(Y, old, n, step)
      BY <2>1, StepsExist, Zenon
    <2>. QED
      BY <2>2 DEF Y, Leads
  <1>4. f = [i \in 0 .. n |-> IF i = 0 THEN old ELSE A!Place(f[i - 1], new[i])]
    <2>. HIDE DEF step
    <2>1. ASSUME NEW i \in 0 .. n PROVE f[i] = IF i = 0 THEN old ELSE A!Place(f[i - 1], new[i])
      <3>1. CASE i = 0
        BY <1>3, <3>1
      <3>2. CASE i # 0
        <4>1. i \in 1 .. n /\ i - 1 \in 0 .. n
          BY <3>2, <1>1
        <4>2. f[i - 1] \in Seq(X)
          BY <4>1
        <4>. QED
          BY <1>2, <1>3, <3>2, <4>1, <4>2
      <3>. QED
        BY <3>1, <3>2
    <2>. QED
      BY <2>1
  <1>5. T = [i \in 0 .. n |-> IF i = 0 THEN old ELSE A!Place(T[i - 1], new[i])]
    BY <1>4, Zenon DEF A!Placed
  <1>6. \A i \in 0 .. n : T[i] = IF i = 0 THEN old ELSE A!Place(T[i - 1], new[i])
    <2>. HIDE DEF T, n
    <2>. QED
      BY <1>5, Zenon
  <1>. DEFINE S == {i \in Nat : T[i] \in Seq(X)}
  <1>7. 0 \in S /\ T[0] = old
    BY <1>1, <1>6
  <1>8. ASSUME NEW i \in 1 .. n PROVE T[i] = A!Place(T[i - 1], new[i])
    <2>. HIDE DEF T
    <2>. QED
      BY <1>1, <1>6
  <1>9. ASSUME NEW i \in 0 .. n - 1, i \in S PROVE i + 1 \in S
    <2>1. i + 1 \in 1 .. n /\ (i + 1) - 1 = i
      BY <1>1
    <2>2. T[i + 1] = A!Place(T[i], new[i + 1])
      BY <1>8, <2>1
    <2>3. A!Place(T[i], new[i + 1]) \in Seq(X)
      BY <1>0, <1>9, <2>1
    <2>. HIDE DEF T
    <2>. QED
      BY <2>1, <2>2, <2>3
  <1>10. \A i \in 0 .. n : i \in S
    <2>. HIDE DEF S
    <2>. QED
      BY <1>1, <1>7, <1>9, Upward
  <1>. QED
    BY <1>7, <1>8, <1>10

LEMMA FirstsIs ==
    ASSUME NEW X, NEW s \in Seq(X)
    PROVE  /\ A!Firsts(s)[0] = <<>>
           /\ \A i \in 1 .. Len(s) : A!Firsts(s)[i] = A!Associate(A!Firsts(s)[i - 1], s[i])
           /\ \A i \in 0 .. Len(s) : A!Firsts(s)[i] \in Seq(X)
  <1>. DEFINE n == Len(s)
              T == A!Firsts(s)
              step == [i \in 1 .. n |-> [g \in Seq(X) |-> A!Associate(g, s[i])]]
  <1>0. ASSUME NEW i \in 1 .. n, NEW g \in Seq(X) PROVE s[i] \in X /\ A!Associate(g, s[i]) \in Seq(X)
    <2>1. s[i] \in X
      OBVIOUS
    <2>. QED
      BY <2>1 DEF A!Associate
  <1>1. step \in [1 .. n -> [Seq(X) -> Seq(X)]] /\ n \in Nat
    BY <1>0
  <1>2. \A i \in 1 .. n, g \in Seq(X) : step[i][g] = A!Associate(g, s[i])
    OBVIOUS
  <1>3. PICK f \in [0 .. n -> Seq(X)] :
           f[0] = <<>> /\ \A i \in 1 .. n : f[i] = step[i][f[i - 1]]
    <2>. DEFINE Y == Seq(X)
    <2>1. <<>> \in Y /\ n \in Nat /\ step \in [1 .. n -> [Y -> Y]]
      BY <1>1
    <2>. HIDE DEF step, n, Y
    <2>2. Leads(Y, <<>>, n, step)
      BY <2>1, StepsExist, Zenon
    <2>. QED
      BY <2>2 DEF Y, Leads
  <1>4. f = [i \in 0 .. n |-> IF i = 0 THEN <<>> ELSE A!Associate(f[i - 1], s[i])]
    <2>. HIDE DEF step
    <2>1. ASSUME NEW i \in 0 .. n PROVE f[i] = IF i = 0 THEN <<>> ELSE A!Associate(f[i - 1], s[i])
      <3>1. CASE i = 0
        BY <1>3, <3>1
      <3>2. CASE i # 0
        <4>1. i \in 1 .. n /\ i - 1 \in 0 .. n
          BY <3>2, <1>1
        <4>2. f[i - 1] \in Seq(X)
          BY <4>1
        <4>. QED
          BY <1>2, <1>3, <3>2, <4>1, <4>2
      <3>. QED
        BY <3>1, <3>2
    <2>. QED
      BY <2>1
  <1>5. T = [i \in 0 .. n |-> IF i = 0 THEN <<>> ELSE A!Associate(T[i - 1], s[i])]
    BY <1>4, Zenon DEF A!Firsts
  <1>6. \A i \in 0 .. n : T[i] = IF i = 0 THEN <<>> ELSE A!Associate(T[i - 1], s[i])
    <2>. HIDE DEF T, n
    <2>. QED
      BY <1>5, Zenon
  <1>. DEFINE S == {i \in Nat : T[i] \in Seq(X)}
  <1>7. 0 \in S /\ T[0] = <<>>
    <2>1. T[0] = <<>>
      <3>. HIDE DEF T, n
      <3>. QED
        BY <1>1, <1>6
    <2>. QED
      BY <2>1
  <1>8. ASSUME NEW i \in 1 .. n PROVE T[i] = A!Associate(T[i - 1], s[i])
    <2>. HIDE DEF T
    <2>. QED
      BY <1>1, <1>6
  <1>9. ASSUME NEW i \in 0 .. n - 1, i \in S PROVE i + 1 \in S
    <2>1. i + 1 \in 1 .. n /\ (i + 1) - 1 = i
      BY <1>1
    <2>2. T[i + 1] = A!Associate(T[i], s[i + 1])
      BY <1>8, <2>1
    <2>3. A!Associate(T[i], s[i + 1]) \in Seq(X)
      BY <1>0, <1>9, <2>1
    <2>. HIDE DEF T
    <2>. QED
      BY <2>1, <2>2, <2>3
  <1>10. \A i \in 0 .. n : i \in S
    <2>. HIDE DEF S
    <2>. QED
      BY <1>1, <1>7, <1>9, Upward
  <1>. QED
    BY <1>7, <1>8, <1>10

(* One plugin more, if it is scoped to the proxy.                          *)
Derive(items, x, ids) == IF x \in ids THEN A!Associate(items, A!Member(x)) ELSE items

LEMMA DerivedIs ==
    ASSUME A!AssemblyAssumption, NEW X, NEW items \in Seq(X), NEW ids,
           \A x \in A!Members(Lexical) : A!Member(x) \in X
    PROVE  /\ A!Derived(items, ids)[0] = items
           /\ \A i \in 1 .. Len(Lexical) : A!Derived(items, ids)[i] = Derive(A!Derived(items, ids)[i - 1], Lexical[i], ids)
           /\ \A i \in 0 .. Len(Lexical) : A!Derived(items, ids)[i] \in Seq(X)
  <1>. DEFINE n == Len(Lexical)
              T == A!Derived(items, ids)
              step == [i \in 1 .. n |-> [g \in Seq(X) |-> Derive(g, Lexical[i], ids)]]
  <1>0. ASSUME NEW i \in 1 .. n, NEW g \in Seq(X) PROVE Derive(g, Lexical[i], ids) \in Seq(X)
    <2>1. A!Member(Lexical[i]) \in X
      BY DEF A!AssemblyAssumption, A!IsList, A!Members
    <2>. QED
      BY <2>1 DEF Derive, A!Associate
  <1>1. step \in [1 .. n -> [Seq(X) -> Seq(X)]] /\ n \in Nat
    BY <1>0 DEF A!AssemblyAssumption, A!IsList
  <1>2. \A i \in 1 .. n, g \in Seq(X) : step[i][g] = Derive(g, Lexical[i], ids)
    OBVIOUS
  <1>3. PICK f \in [0 .. n -> Seq(X)] :
           f[0] = items /\ \A i \in 1 .. n : f[i] = step[i][f[i - 1]]
    <2>. DEFINE Y == Seq(X)
    <2>1. items \in Y /\ n \in Nat /\ step \in [1 .. n -> [Y -> Y]]
      BY <1>1
    <2>. HIDE DEF step, n, Y
    <2>2. Leads(Y, items, n, step)
      BY <2>1, StepsExist, Zenon
    <2>. QED
      BY <2>2 DEF Y, Leads
  <1>4. f = [i \in 0 .. n |-> IF i = 0 THEN items ELSE Derive(f[i - 1], Lexical[i], ids)]
    <2>. HIDE DEF step
    <2>1. ASSUME NEW i \in 0 .. n PROVE f[i] = IF i = 0 THEN items ELSE Derive(f[i - 1], Lexical[i], ids)
      <3>1. CASE i = 0
        BY <1>3, <3>1
      <3>2. CASE i # 0
        <4>1. i \in 1 .. n /\ i - 1 \in 0 .. n
          BY <3>2, <1>1
        <4>2. f[i - 1] \in Seq(X)
          BY <4>1
        <4>. QED
          BY <1>2, <1>3, <3>2, <4>1, <4>2
      <3>. QED
        BY <3>1, <3>2
    <2>. QED
      BY <2>1
  <1>5. T = [i \in 0 .. n |-> IF i = 0 THEN items ELSE Derive(T[i - 1], Lexical[i], ids)]
    BY <1>4, Zenon DEF A!Derived, Derive
  <1>6. \A i \in 0 .. n : T[i] = IF i = 0 THEN items ELSE Derive(T[i - 1], Lexical[i], ids)
    <2>. HIDE DEF T, n
    <2>. QED
      BY <1>5, Zenon
  <1>. DEFINE S == {i \in Nat : T[i] \in Seq(X)}
  <1>7. 0 \in S /\ T[0] = items
    BY <1>1, <1>6
  <1>8. ASSUME NEW i \in 1 .. n PROVE T[i] = Derive(T[i - 1], Lexical[i], ids)
    <2>. HIDE DEF T
    <2>. QED
      BY <1>1, <1>6
  <1>9. ASSUME NEW i \in 0 .. n - 1, i \in S PROVE i + 1 \in S
    <2>1. i + 1 \in 1 .. n /\ (i + 1) - 1 = i
      BY <1>1
    <2>2. T[i + 1] = Derive(T[i], Lexical[i + 1], ids)
      BY <1>8, <2>1
    <2>3. Derive(T[i], Lexical[i + 1], ids) \in Seq(X)
      BY <1>0, <1>9, <2>1
    <2>. HIDE DEF T
    <2>. QED
      BY <2>1, <2>2, <2>3
  <1>10. \A i \in 0 .. n : i \in S
    <2>. HIDE DEF S
    <2>. QED
      BY <1>1, <1>7, <1>9, Upward
  <1>. QED
    BY <1>7, <1>8, <1>10

LEMMA IncludedIs ==
    ASSUME NEW X, NEW items \in Seq(X), NEW s \in Seq(X)
    PROVE  /\ A!Included(items, s)[0] = items
           /\ \A i \in 1 .. Len(s) : A!Included(items, s)[i] = A!Include(A!Included(items, s)[i - 1], s[i])
           /\ \A i \in 0 .. Len(s) : A!Included(items, s)[i] \in Seq(X)
  <1>. DEFINE n == Len(s)
              T == A!Included(items, s)
              step == [i \in 1 .. n |-> [g \in Seq(X) |-> A!Include(g, s[i])]]
  <1>0. ASSUME NEW i \in 1 .. n, NEW g \in Seq(X) PROVE s[i] \in X /\ A!Include(g, s[i]) \in Seq(X)
    <2>1. s[i] \in X
      OBVIOUS
    <2>. QED
      BY <2>1 DEF A!Include
  <1>1. step \in [1 .. n -> [Seq(X) -> Seq(X)]] /\ n \in Nat
    <2>1. n \in Nat
      OBVIOUS
    <2>. HIDE DEF n
    <2>. QED
      BY <1>0, <2>1
  <1>2. \A i \in 1 .. n, g \in Seq(X) : step[i][g] = A!Include(g, s[i])
    OBVIOUS
  <1>3. PICK f \in [0 .. n -> Seq(X)] :
           f[0] = items /\ \A i \in 1 .. n : f[i] = step[i][f[i - 1]]
    <2>. DEFINE Y == Seq(X)
    <2>1. items \in Y /\ n \in Nat /\ step \in [1 .. n -> [Y -> Y]]
      BY <1>1
    <2>. HIDE DEF step, n, Y
    <2>2. Leads(Y, items, n, step)
      BY <2>1, StepsExist, Zenon
    <2>. QED
      BY <2>2 DEF Y, Leads
  <1>4. f = [i \in 0 .. n |-> IF i = 0 THEN items ELSE A!Include(f[i - 1], s[i])]
    <2>. HIDE DEF step
    <2>1. ASSUME NEW i \in 0 .. n PROVE f[i] = IF i = 0 THEN items ELSE A!Include(f[i - 1], s[i])
      <3>1. CASE i = 0
        BY <1>3, <3>1
      <3>2. CASE i # 0
        <4>1. i \in 1 .. n /\ i - 1 \in 0 .. n
          BY <3>2, <1>1
        <4>2. f[i - 1] \in Seq(X)
          BY <4>1
        <4>. QED
          BY <1>2, <1>3, <3>2, <4>1, <4>2
      <3>. QED
        BY <3>1, <3>2
    <2>. QED
      BY <2>1
  <1>5. T = [i \in 0 .. n |-> IF i = 0 THEN items ELSE A!Include(T[i - 1], s[i])]
    BY <1>4, Zenon DEF A!Included
  <1>6. \A i \in 0 .. n : T[i] = IF i = 0 THEN items ELSE A!Include(T[i - 1], s[i])
    <2>. HIDE DEF T, n
    <2>. QED
      BY <1>5, Zenon
  <1>. DEFINE S == {i \in Nat : T[i] \in Seq(X)}
  <1>7. 0 \in S /\ T[0] = items
    BY <1>1, <1>6
  <1>8. ASSUME NEW i \in 1 .. n PROVE T[i] = A!Include(T[i - 1], s[i])
    <2>. HIDE DEF T
    <2>. QED
      BY <1>1, <1>6
  <1>9. ASSUME NEW i \in 0 .. n - 1, i \in S PROVE i + 1 \in S
    <2>1. i + 1 \in 1 .. n /\ (i + 1) - 1 = i
      BY <1>1
    <2>2. T[i + 1] = A!Include(T[i], s[i + 1])
      BY <1>8, <2>1
    <2>3. A!Include(T[i], s[i + 1]) \in Seq(X)
      BY <1>0, <1>9, <2>1
    <2>. HIDE DEF T
    <2>. QED
      BY <2>1, <2>2, <2>3
  <1>10. \A i \in 0 .. n : i \in S
    <2>. HIDE DEF S
    <2>. QED
      BY <1>1, <1>7, <1>9, Upward
  <1>. QED
    BY <1>7, <1>8, <1>10
-----------------------------------------------------------------------------
(* What the built lists hold.                                              *)

LEMMA PlacedKeeps ==
    ASSUME NEW X, NEW old \in Seq(X), NEW new \in Seq(X), NEW ds, ds = A!Placed(old, new)[Len(new)]
    PROVE  /\ ds \in Seq(X)
           /\ \A k \in 1 .. Len(old) : old[k].name = NoName \/ old[k].name \notin A!Names(new) => ds[k] = old[k]
           /\ \A j \in 1 .. Len(new) : A!IsLast(j, new) => new[j] \in A!Members(ds)
  <1>. DEFINE n == Len(new)
              T == A!Placed(old, new)
              Kept(i) == \A k \in 1 .. Len(old) :
                             old[k].name = NoName \/ old[k].name \notin A!Names(new) => T[i][k] = old[k]
              Lasts(i, j) == new[j].name # NoName => \A l \in j + 1 .. i : new[l].name # new[j].name
              Came(i) == \A j \in 1 .. i : Lasts(i, j) => new[j] \in A!Members(T[i])
              S == {i \in Nat : i <= n => Len(old) <= Len(T[i]) /\ Kept(i) /\ Came(i)}
  <1>1. n \in Nat /\ \A i \in 1 .. n : new[i] \in X /\ new[i].name \in A!Names(new)
    BY DEF A!Names
  <1>2. /\ T[0] = old /\ \A i \in 0 .. n : T[i] \in Seq(X)
        /\ \A i \in 1 .. n : T[i] = A!Place(T[i - 1], new[i])
    BY PlacedIs
  <1>. HIDE DEF T, n
  <1>3. 0 \in S
    BY <1>2
  <1>4. ASSUME NEW i \in 0 .. n - 1, i \in S PROVE i + 1 \in S
    <2>1. i + 1 \in 1 .. n /\ i \in 0 .. n /\ (i + 1) - 1 = i /\ i \in Nat /\ i <= n
      BY <1>1
    <2>. DEFINE items == T[i]
                m == new[i + 1]
    <2>2. items \in Seq(X) /\ m \in X /\ T[i + 1] = A!Place(items, m) /\ m.name \in A!Names(new)
      BY <1>1, <1>2, <2>1
    <2>3. Len(old) <= Len(items) /\ Kept(i) /\ Came(i)
      BY <1>4, <2>1
    <2>. HIDE DEF items, m
    <2>4. /\ Len(items) <= Len(T[i + 1]) /\ m \in A!Members(T[i + 1])
          /\ \A k \in 1 .. Len(items) : Spares(items[k], m) => T[i + 1][k] = items[k]
          /\ \A x \in A!Members(items) : Spares(x, m) => x \in A!Members(T[i + 1])
      BY <2>2, PlaceIs
    <2>5. Len(old) \in Nat /\ Len(items) \in Nat /\ Len(T[i + 1]) \in Nat
      BY <1>2, <2>1, <2>2
    <2>6. Len(old) <= Len(T[i + 1])
      BY <2>3, <2>4, <2>5
    <2>7. Kept(i + 1)
      <3>. SUFFICES ASSUME NEW k \in 1 .. Len(old),
                           old[k].name = NoName \/ old[k].name \notin A!Names(new)
                    PROVE  T[i + 1][k] = old[k]
        OBVIOUS
      <3>1. k \in 1 .. Len(items) /\ items[k] = old[k]
        BY <2>3, <2>5 DEF items
      <3>2. Spares(items[k], m)
        BY <2>2, <3>1 DEF Spares
      <3>. QED
        BY <2>4, <3>1, <3>2
    <2>8. Came(i + 1)
      <3>. SUFFICES ASSUME NEW j \in 1 .. i + 1, Lasts(i + 1, j) PROVE new[j] \in A!Members(T[i + 1])
        OBVIOUS
      <3>1. CASE j = i + 1
        BY <2>4, <3>1 DEF m
      <3>2. CASE j # i + 1
        <4>1. j \in 1 .. i /\ i + 1 \in j + 1 .. i + 1 /\ \A l \in j + 1 .. i : l \in j + 1 .. i + 1
          BY <2>1, <3>2
        <4>2. Lasts(i, j) /\ Spares(new[j], m)
          BY <4>1 DEF Spares, m
        <4>3. new[j] \in A!Members(items)
          BY <2>3, <4>1, <4>2 DEF items
        <4>. QED
          BY <2>4, <4>2, <4>3
      <3>. QED
        BY <3>1, <3>2
    <2>. HIDE DEF Kept, Came
    <2>. QED
      BY <2>1, <2>6, <2>7, <2>8
  <1>5. n \in S
    <2>. HIDE DEF S
    <2>1. \A i \in 0 .. n : i \in S
      BY <1>1, <1>3, <1>4, Upward
    <2>. QED
      BY <1>1, <2>1
  <1>6. Kept(n) /\ Came(n)
    BY <1>1, <1>5
  <1>7. \A j \in 1 .. n : A!IsLast(j, new) => Lasts(n, j)
    BY <1>1 DEF A!IsLast, n
  <1>8. ds = T[n] /\ n \in 0 .. n
    BY <1>1 DEF T, n
  <1>9. \A j \in 1 .. n : A!IsLast(j, new) => new[j] \in A!Members(ds)
    BY <1>6, <1>7, <1>8
  <1>. QED
    BY <1>2, <1>6, <1>8, <1>9 DEF n

Distinct(f) == \A i, j \in DOMAIN f : f[i].name = f[j].name => i = j

LEMMA AssociateIs ==
    ASSUME NEW X, NEW items \in Seq(X), NEW m \in X
    PROVE  /\ A!Associate(items, m) \in Seq(X)
           /\ Distinct(items) => Distinct(A!Associate(items, m))
           /\ m.name \in A!Names(A!Associate(items, m)) /\ A!Names(items) \subseteq A!Names(A!Associate(items, m))
  <1>1. CASE m.name \in A!Names(items)
    BY <1>1 DEF A!Associate
  <1>2. CASE m.name \notin A!Names(items)
    <2>. DEFINE ds == Append(items, m)
    <2>1. A!Associate(items, m) = ds
      BY <1>2 DEF A!Associate
    <2>2. /\ ds \in Seq(X) /\ Len(items) \in Nat /\ Len(ds) = Len(items) + 1 /\ ds[Len(ds)] = m
          /\ DOMAIN ds = 1 .. Len(ds) /\ DOMAIN items = 1 .. Len(items)
          /\ \A i \in 1 .. Len(items) : ds[i] = items[i]
      OBVIOUS
    <2>3. \A i \in 1 .. Len(items) : items[i].name # m.name
      BY <1>2, <2>2 DEF A!Names
    <2>. HIDE DEF ds
    <2>4. Distinct(items) => Distinct(ds)
      BY <2>2, <2>3 DEF Distinct
    <2>5. m.name \in A!Names(ds) /\ A!Names(items) \subseteq A!Names(ds)
      BY <2>2 DEF A!Names
    <2>. QED
      BY <2>1, <2>2, <2>4, <2>5
  <1>. QED
    BY <1>1, <1>2

LEMMA FirstOnlyIs ==
    ASSUME NEW X, NEW s \in Seq(X)
    PROVE  A!FirstOnly(s) \in Seq(X) /\ Distinct(A!FirstOnly(s)) /\ (Distinct(s) => A!FirstOnly(s) = s)
  <1>. DEFINE n == Len(s)
              T == A!Firsts(s)
              S == {i \in Nat : i <= n => Distinct(T[i]) /\ (Distinct(s) => T[i] = SubSeq(s, 1, i))}
  <1>1. n \in Nat /\ \A i \in 1 .. n : s[i] \in X
    OBVIOUS
  <1>2. /\ T[0] = <<>> /\ \A i \in 0 .. n : T[i] \in Seq(X)
        /\ \A i \in 1 .. n : T[i] = A!Associate(T[i - 1], s[i])
    BY FirstsIs
  <1>. HIDE DEF T, n
  <1>3. 0 \in S
    BY <1>2 DEF Distinct
  <1>4. ASSUME NEW i \in 0 .. n - 1, i \in S PROVE i + 1 \in S
    <2>1. i + 1 \in 1 .. n /\ i \in 0 .. n /\ (i + 1) - 1 = i /\ i \in Nat /\ i <= n
      BY <1>1
    <2>2. T[i] \in Seq(X) /\ s[i + 1] \in X /\ T[i + 1] = A!Associate(T[i], s[i + 1])
      BY <1>1, <1>2, <2>1
    <2>3. Distinct(T[i]) /\ (Distinct(s) => T[i] = SubSeq(s, 1, i))
      BY <1>4, <2>1
    <2>4. Distinct(T[i + 1])
      BY <2>2, <2>3, AssociateIs
    <2>5. ASSUME Distinct(s) PROVE T[i + 1] = SubSeq(s, 1, i + 1)
      <3>1. DOMAIN s = 1 .. n
        BY DEF n
      <3>2. \A j \in 1 .. i : s[j].name # s[i + 1].name
        BY <1>1, <2>1, <2>5, <3>1 DEF Distinct
      <3>3. T[i] = SubSeq(s, 1, i)
        BY <2>3, <2>5
      <3>4. s[i + 1].name \notin A!Names(T[i])
        BY <2>1, <3>2, <3>3 DEF A!Names, n
      <3>5. T[i + 1] = Append(SubSeq(s, 1, i), s[i + 1])
        BY <2>2, <3>3, <3>4 DEF A!Associate
      <3>. QED
        BY <2>1, <3>5 DEF n
    <2>. QED
      BY <2>1, <2>4, <2>5
  <1>5. n \in S
    <2>. HIDE DEF S
    <2>1. \A i \in 0 .. n : i \in S
      BY <1>1, <1>3, <1>4, Upward
    <2>. QED
      BY <1>1, <2>1
  <1>6. A!FirstOnly(s) = T[n] /\ n \in 0 .. n
    BY <1>1 DEF A!FirstOnly, T, n
  <1>7. SubSeq(s, 1, n) = s
    BY DEF n
  <1>. QED
    BY <1>1, <1>2, <1>5, <1>6, <1>7

LEMMA DerivedKeeps ==
    ASSUME A!AssemblyAssumption, NEW X, NEW items \in Seq(X), NEW ids,
           \A x \in A!Members(Lexical) : A!Member(x) \in X, NEW ds, ds = A!Derived(items, ids)[Len(Lexical)]
    PROVE  /\ ds \in Seq(X) /\ (Distinct(items) => Distinct(ds))
           /\ A!Members(Lexical) \cap ids \subseteq A!Names(ds)
           /\ A!Members(Lexical) \cap ids \subseteq A!Names(items) => ds = items
  <1>. DEFINE n == Len(Lexical)
              T == A!Derived(items, ids)
              Has(i) == \A j \in 1 .. i : Lexical[j] \in ids => Lexical[j] \in A!Names(T[i])
              Full == A!Members(Lexical) \cap ids \subseteq A!Names(items)
              S == {i \in Nat : i <= n => /\ Distinct(items) => Distinct(T[i])
                                          /\ Has(i) /\ (Full => T[i] = items)}
  <1>1. n \in Nat /\ \A i \in 1 .. n : Lexical[i] \in A!Members(Lexical)
    BY DEF A!AssemblyAssumption, A!IsList, A!Members
  <1>2. /\ T[0] = items /\ \A i \in 0 .. n : T[i] \in Seq(X)
        /\ \A i \in 1 .. n : T[i] = Derive(T[i - 1], Lexical[i], ids)
    BY DerivedIs
  <1>3. A!Members(Lexical) = {Lexical[i] : i \in 1 .. n}
    <2>1. A!IsList(Lexical)
      BY Zenon DEF A!AssemblyAssumption
    <2>2. DOMAIN Lexical = 1 .. n
      BY <2>1 DEF A!IsList
    <2>. QED
      BY <2>2, Zenon DEF A!Members
  <1>. HIDE DEF T, n
  <1>4. 0 \in S
    BY <1>2
  <1>5. ASSUME NEW i \in 0 .. n - 1, i \in S PROVE i + 1 \in S
    <2>1. i + 1 \in 1 .. n /\ i \in 0 .. n /\ (i + 1) - 1 = i /\ i \in Nat /\ i <= n
      BY <1>1
    <2>. DEFINE x == Lexical[i + 1]
    <2>2. T[i] \in Seq(X) /\ x \in A!Members(Lexical) /\ A!Member(x) \in X /\ T[i + 1] = Derive(T[i], x, ids)
      BY <1>1, <1>2, <2>1
    <2>3. (Distinct(items) => Distinct(T[i])) /\ Has(i) /\ (Full => T[i] = items)
      BY <1>5, <2>1
    <2>. HIDE DEF x
    <2>4. \/ x \in ids /\ T[i + 1] = A!Associate(T[i], A!Member(x))
          \/ x \notin ids /\ T[i + 1] = T[i]
      BY <2>2 DEF Derive
    <2>5. /\ Distinct(T[i]) => Distinct(T[i + 1])
          /\ A!Names(T[i]) \subseteq A!Names(T[i + 1])
          /\ x \in ids => x \in A!Names(T[i + 1])
      <3>1. CASE x \in ids
        <4>1. A!Member(x).name = x
          BY DEF A!Member
        <4>. QED
          BY <2>2, <2>4, <3>1, <4>1, AssociateIs
      <3>2. CASE x \notin ids
        BY <2>4, <3>2
      <3>. QED
        BY <3>1, <3>2
    <2>6. Has(i + 1)
      BY <2>1, <2>3, <2>5 DEF x
    <2>7. Full => T[i + 1] = items
      BY <2>2, <2>3, <2>4 DEF A!Associate, A!Member
    <2>. HIDE DEF Full, Has
    <2>. QED
      BY <2>1, <2>3, <2>5, <2>6, <2>7
  <1>6. n \in S
    <2>. HIDE DEF S
    <2>1. \A i \in 0 .. n : i \in S
      BY <1>1, <1>4, <1>5, Upward
    <2>. QED
      BY <1>1, <2>1
  <1>7. ds = T[n] /\ n \in 0 .. n
    BY <1>1 DEF T, n
  <1>8. (Distinct(items) => Distinct(ds)) /\ Has(n) /\ (Full => ds = items)
    <2>. HIDE DEF Full, Has
    <2>. QED
      BY <1>1, <1>6, <1>7
  <1>9. A!Members(Lexical) \cap ids \subseteq A!Names(ds)
    BY <1>3, <1>7, <1>8
  <1>. QED
    BY <1>2, <1>7, <1>8, <1>9

NamedOnce(f) == \A i, j \in DOMAIN f : f[i].name = f[j].name /\ f[i].name # NoName => i = j
Agreeing(M) == \A x, y \in M : x.name = y.name /\ x.name # NoName => x = y

LEMMA IncludedKeeps ==
    ASSUME NEW X, NEW items \in Seq(X), NEW s \in Seq(X), NEW ds, ds = A!Included(items, s)[Len(s)]
    PROVE  /\ ds \in Seq(X) /\ A!Members(ds) = A!Members(items) \cup A!Members(s)
           /\ NamedOnce(items) /\ Agreeing(A!Members(items) \cup A!Members(s)) => NamedOnce(ds)
  <1>. DEFINE n == Len(s)
              T == A!Included(items, s)
              All(i) == A!Members(T[i]) = A!Members(items) \cup {s[j] : j \in 1 .. i}
              Apart == NamedOnce(items) /\ Agreeing(A!Members(items) \cup A!Members(s))
              S == {i \in Nat : i <= n => All(i) /\ (Apart => NamedOnce(T[i]))}
  <1>1. n \in Nat /\ A!Members(s) = {s[j] : j \in 1 .. n} /\ \A i \in 1 .. n : s[i] \in X /\ s[i] \in A!Members(s)
    BY DEF A!Members
  <1>2. /\ T[0] = items /\ \A i \in 0 .. n : T[i] \in Seq(X)
        /\ \A i \in 1 .. n : T[i] = A!Include(T[i - 1], s[i])
    BY IncludedIs
  <1>. HIDE DEF T, n
  <1>3. 0 \in S
    BY <1>2
  <1>4. ASSUME NEW i \in 0 .. n - 1, i \in S PROVE i + 1 \in S
    <2>1. i + 1 \in 1 .. n /\ i \in 0 .. n /\ (i + 1) - 1 = i /\ i \in Nat /\ i <= n
      BY <1>1
    <2>. DEFINE old == T[i]
                ns == T[i + 1]
                m == s[i + 1]
    <2>2. old \in Seq(X) /\ m \in X /\ m \in A!Members(s) /\ ns = A!Include(old, m)
      BY <1>1, <1>2, <2>1
    <2>3. All(i) /\ (Apart => NamedOnce(old))
      BY <1>4, <2>1
    <2>4. {s[j] : j \in 1 .. i + 1} = {s[j] : j \in 1 .. i} \cup {m}
      BY <2>1
    <2>5. A!Members(old) = A!Members(items) \cup {s[j] : j \in 1 .. i}
      BY <2>3
    <2>. HIDE DEF old, ns, m
    <2>6. CASE m.name # NoName /\ m \in A!Members(old)
      <3>1. ns = old
        BY <2>2, <2>6 DEF A!Include
      <3>2. A!Members(ns) = A!Members(items) \cup {s[j] : j \in 1 .. i + 1}
        BY <2>4, <2>5, <2>6, <3>1
      <3>. QED
        BY <2>3, <3>1, <3>2 DEF ns
    <2>7. CASE ~(m.name # NoName /\ m \in A!Members(old))
      <3>1. ns = Append(old, m)
        BY <2>2, <2>7 DEF A!Include
      <3>2. /\ Len(old) \in Nat /\ Len(ns) = Len(old) + 1 /\ ns[Len(ns)] = m
            /\ DOMAIN ns = 1 .. Len(ns) /\ DOMAIN old = 1 .. Len(old)
            /\ \A k \in 1 .. Len(old) : ns[k] = old[k]
        BY <2>2, <3>1
      <3>3. A!Members(ns) = A!Members(old) \cup {m}
        BY <3>2 DEF A!Members
      <3>4. A!Members(ns) = A!Members(items) \cup {s[j] : j \in 1 .. i + 1}
        BY <2>4, <2>5, <3>3
      <3>5. ASSUME Apart PROVE NamedOnce(ns)
        <4>1. \A k \in 1 .. Len(old) : old[k] \in A!Members(old)
          BY <3>2 DEF A!Members
        <4>2. A!Members(old) \subseteq A!Members(items) \cup A!Members(s)
          BY <1>1, <2>1, <2>5
        <4>3. \A k \in 1 .. Len(old) : m.name # NoName => old[k].name # m.name
          BY <2>2, <2>7, <3>5, <4>1, <4>2 DEF Agreeing
        <4>4. NamedOnce(old)
          BY <2>3, <3>5
        <4>. QED
          BY <3>2, <4>3, <4>4 DEF NamedOnce
      <3>. HIDE DEF Apart
      <3>. QED
        BY <3>4, <3>5 DEF ns
    <2>. HIDE DEF S
    <2>. QED
      BY <2>6, <2>7
  <1>5. n \in S
    <2>. HIDE DEF S
    <2>1. \A i \in 0 .. n : i \in S
      BY <1>1, <1>3, <1>4, Upward
    <2>. QED
      BY <1>1, <2>1
  <1>6. ds = T[n] /\ n \in 0 .. n
    BY <1>1 DEF T, n
  <1>7. All(n) /\ (Apart => NamedOnce(ds))
    <2>. HIDE DEF All, Apart
    <2>. QED
      BY <1>1, <1>5, <1>6
  <1>. QED
    BY <1>1, <1>2, <1>6, <1>7
-----------------------------------------------------------------------------
(* Resources, as they are merged, settled and normalised.                  *)

IsBase(r) ==
    /\ A!IsResource(r) /\ A!IsList(r.list)
    /\ r.kind = "PluginConfig" => r.id \in A!Members(Lexical)

LEMMA ListOf == \A s : A!IsList(s) => s \in Seq(A!Members(s)) /\ DOMAIN s = 1 .. Len(s) /\ Len(s) \in Nat
  BY DEF A!IsList

LEMMA IsListIs ==
    ASSUME NEW X, NEW s \in Seq(X) PROVE A!IsList(s)
  <1>1. DOMAIN s = 1 .. Len(s) /\ Len(s) \in Nat
    OBVIOUS
  <1>2. \A i \in 1 .. Len(s) : s[i] \in A!Members(s)
    BY <1>1 DEF A!Members
  <1>. QED
    BY <1>1, <1>2 DEF A!IsList

LEMMA MergeListIs ==
    ASSUME NEW kind, NEW old, NEW new, A!IsList(old), A!IsList(new), NEW ds, ds = A!MergeList(kind, old, new)
    PROVE  /\ A!IsList(ds)
           /\ IF A!Additive(kind)
              THEN /\ \A k \in DOMAIN old :
                         old[k].name = NoName \/ old[k].name \notin A!Names(new) => ds[k] = old[k]
                   /\ \A j \in DOMAIN new : A!IsLast(j, new) => new[j] \in A!Members(ds)
              ELSE ds = new
  <1>1. CASE ~A!Additive(kind)
    BY <1>1 DEF A!MergeList
  <1>2. CASE A!Additive(kind)
    <2>. DEFINE X == A!Members(old) \cup A!Members(new)
    <2>1. old \in Seq(X) /\ new \in Seq(X)
      <3>1. old \in Seq(A!Members(old)) /\ new \in Seq(A!Members(new))
        BY ListOf
      <3>. QED
        BY <3>1
    <2>2. ds = A!Placed(old, new)[Len(new)]
      BY <1>2 DEF A!MergeList
    <2>3. DOMAIN old = 1 .. Len(old) /\ DOMAIN new = 1 .. Len(new)
      BY ListOf
    <2>. HIDE DEF X
    <2>4. /\ ds \in Seq(X)
          /\ \A k \in 1 .. Len(old) : old[k].name = NoName \/ old[k].name \notin A!Names(new) => ds[k] = old[k]
          /\ \A j \in 1 .. Len(new) : A!IsLast(j, new) => new[j] \in A!Members(ds)
      BY <2>1, <2>2, PlacedKeeps
    <2>. QED
      BY <1>2, <2>3, <2>4, IsListIs
  <1>. QED
    BY <1>1, <1>2

LEMMA MergedIs ==
    ASSUME A!AssemblyAssumption, NEW r, IsBase(r), NEW o \in Overlay, A!Key(r) = A!Target(o),
           NEW m, m = A!Merged(r, o)
    PROVE  /\ IsBase(m) /\ A!Key(m) = A!Key(r) /\ m.kind = r.kind
           /\ m.list = IF o.list = NoList THEN r.list ELSE A!MergeList(r.kind, r.list, o.list)
  <1>. DEFINE list == IF o.list = NoList THEN r.list ELSE A!MergeList(r.kind, r.list, o.list)
              ns == IF o.ns = "" THEN r.ns ELSE o.ns
              fields == A!Override(r.fields, A!Canonical(o.fields))
  <1>1. A!IsResource(o) /\ (o.list # NoList => A!IsList(o.list))
    BY DEF A!AssemblyAssumption
  <1>2. A!IsList(list)
    BY <1>1, MergeListIs DEF IsBase
  <1>. HIDE DEF list, fields
  <1>3. m = [kind |-> r.kind, dir |-> A!Target(o).ns, ns |-> ns, id |-> r.id, fields |-> fields, list |-> list]
    BY DEF A!Merged, A!Anchor, IsBase, A!IsResource, list, fields
  <1>4. IsBase(m) /\ m.kind = r.kind /\ m.id = r.id /\ m.dir = A!Target(o).ns /\ m.ns = ns /\ m.list = list
    <2>. HIDE DEF ns
    <2>1. /\ m.kind = r.kind /\ m.id = r.id /\ m.dir = A!Target(o).ns /\ m.ns = ns /\ m.list = list
          /\ A!IsResource(m)
      BY <1>3 DEF A!IsResource
    <2>. QED
      BY <1>2, <2>1 DEF IsBase
  <1>5. /\ A!Target(o).kind = o.kind /\ A!Target(o).kind = r.kind
        /\ A!Target(o).ns = A!Key(r).ns
        /\ o.kind = "MeshConfig" => A!Target(o).ns = o.dir
        /\ o.kind # "MeshConfig" /\ o.ns \notin {"", A!DefaultNs} => A!Target(o).ns = o.ns
    BY <1>1 DEF A!Target, A!Key, A!Effective, A!IsResource, A!DefaultNs
  <1>6. A!Key(m) = A!Key(r)
    BY <1>4, <1>5 DEF A!Key, A!Effective, A!DefaultNs
  <1>. QED
    BY <1>4, <1>6 DEF list

(* What is settled is the same resource, and says so in its own namespace. *)
Settling(r) == [r EXCEPT !.ns = A!Key(r).ns, !.dir = A!Key(r).ns]
IsSettled(r) == IsBase(r) /\ r.dir = r.ns /\ A!Key(r) = [kind |-> r.kind, id |-> r.id, ns |-> r.ns]

LEMMA SettlingIs ==
    ASSUME NEW r, IsBase(r), NEW q, q = Settling(r)
    PROVE  /\ IsSettled(q) /\ A!Key(q) = A!Key(r) /\ q.ns = A!Key(r).ns
           /\ q.kind = r.kind /\ q.id = r.id /\ q.fields = r.fields /\ q.list = r.list
  <1>1. q = [kind |-> r.kind, dir |-> A!Key(r).ns, ns |-> A!Key(r).ns, id |-> r.id,
             fields |-> r.fields, list |-> r.list]
    BY DEF Settling, IsBase, A!IsResource
  <1>2. IsBase(q)
    BY <1>1 DEF IsBase, A!IsResource
  <1>3. A!Key(q) = A!Key(r)
    BY <1>1 DEF A!Key, A!Effective
  <1>4. A!Key(q) = [kind |-> q.kind, id |-> q.id, ns |-> q.ns]
    BY <1>1 DEF A!Key, A!Effective
  <1>. QED
    BY <1>1, <1>2, <1>3, <1>4 DEF IsSettled

LEMMA SettledAre ==
    ASSUME NEW rs, \A r \in rs : IsBase(r)
    PROVE  /\ \A q \in A!Settled(rs) : IsSettled(q)
           /\ A!Settled(rs) = {Settling(r) : r \in rs}
  <1>1. A!Settled(rs) = {Settling(r) : r \in rs}
    BY DEF A!Settled, Settling
  <1>. QED
    BY <1>1, SettlingIs

LEMMA AssociatedIs ==
    ASSUME A!AssemblyAssumption, NEW p, A!IsList(p.list), NEW rs
    PROVE  /\ A!IsList(A!Associated(p, rs)) /\ Distinct(A!Associated(p, rs))
           /\ A!Members(Lexical) \cap A!ScopedTo(p, rs) \subseteq A!Names(A!Associated(p, rs))
  <1>. DEFINE X == A!Members(p.list) \cup {A!Member(x) : x \in A!Members(Lexical)}
              ids == A!ScopedTo(p, rs)
              items == A!FirstOnly(p.list)
  <1>1. p.list \in Seq(X)
    <2>1. p.list \in Seq(A!Members(p.list))
      BY ListOf
    <2>. QED
      BY <2>1
  <1>2. \A x \in A!Members(Lexical) : A!Member(x) \in X
    OBVIOUS
  <1>. HIDE DEF X, ids
  <1>3. items \in Seq(X) /\ Distinct(items)
    BY <1>1, FirstOnlyIs
  <1>4. A!Associated(p, rs) = A!Derived(items, ids)[Len(Lexical)]
    BY DEF A!Associated, ids
  <1>. HIDE DEF items
  <1>5. /\ A!Associated(p, rs) \in Seq(X) /\ Distinct(A!Associated(p, rs))
        /\ A!Members(Lexical) \cap ids \subseteq A!Names(A!Associated(p, rs))
    BY <1>2, <1>3, <1>4, DerivedKeeps
  <1>. QED
    BY <1>5, IsListIs DEF ids

(* Associating again adds nothing.                                         *)
LEMMA AssociatedTwice ==
    ASSUME A!AssemblyAssumption, NEW p, A!IsList(p.list), NEW rs, Distinct(p.list),
           A!Members(Lexical) \cap A!ScopedTo(p, rs) \subseteq A!Names(p.list)
    PROVE  A!Associated(p, rs) = p.list
  <1>. DEFINE X == A!Members(p.list) \cup {A!Member(x) : x \in A!Members(Lexical)}
              ids == A!ScopedTo(p, rs)
  <1>1. p.list \in Seq(X)
    <2>1. p.list \in Seq(A!Members(p.list))
      BY ListOf
    <2>. QED
      BY <2>1
  <1>2. \A x \in A!Members(Lexical) : A!Member(x) \in X
    OBVIOUS
  <1>. HIDE DEF X, ids
  <1>3. A!FirstOnly(p.list) = p.list
    BY <1>1, FirstOnlyIs
  <1>4. A!Members(Lexical) \cap ids \subseteq A!Names(p.list)
    BY DEF ids
  <1>5. A!Associated(p, rs) = A!Derived(p.list, ids)[Len(Lexical)]
    BY <1>3 DEF A!Associated, ids
  <1>. QED
    BY <1>1, <1>2, <1>4, <1>5, DerivedKeeps

LEMMA StoredIs ==
    ASSUME A!AssemblyAssumption, NEW r, IsSettled(r), NEW rs, NEW q, q = A!Stored(r, rs)
    PROVE  /\ IsSettled(q) /\ A!Key(q) = A!Key(r) /\ q.kind = r.kind /\ q.id = r.id /\ q.ns = r.ns
           /\ r.kind \notin {"Proxy", "Consumer"} => q = r
           /\ r.kind = "Proxy" =>
                 /\ q.list = A!Associated(r, rs) /\ q.fields = A!WithScheme(r).fields
                 /\ A!IsStream(q) \/ A!Scheme \in DOMAIN q.fields
                 /\ A!IsStream(q) /\ A!Scheme \in DOMAIN q.fields => A!Scheme \in DOMAIN r.fields
           /\ r.kind = "Consumer" => "object" \notin DOMAIN q.fields
  <1>0. /\ r = [kind |-> r.kind, dir |-> r.dir, ns |-> r.ns, id |-> r.id,
                fields |-> r.fields, list |-> r.list]
        /\ A!IsList(r.list) /\ r.dir = r.ns /\ (r.kind = "PluginConfig" => r.id \in A!Members(Lexical))
    BY DEF IsSettled, IsBase, A!IsResource
  <1>1. ASSUME NEW f, NEW l, A!IsList(l),
               q = [kind |-> r.kind, dir |-> r.dir, ns |-> r.ns, id |-> r.id, fields |-> f, list |-> l]
        PROVE  IsSettled(q) /\ A!Key(q) = A!Key(r) /\ q.kind = r.kind /\ q.id = r.id /\ q.ns = r.ns
    BY <1>0, <1>1 DEF IsSettled, IsBase, A!IsResource, A!Key, A!Effective
  <1>2. CASE r.kind = "Proxy"
    <2>. DEFINE w == A!WithScheme(r)
                f == w.fields
                l == A!Associated(r, rs)
    <2>1. q = [w EXCEPT !.list = l]
      BY <1>2 DEF A!Stored
    <2>2. /\ w = [kind |-> r.kind, dir |-> r.dir, ns |-> r.ns, id |-> r.id, fields |-> f, list |-> r.list]
          /\ \/ f = r.fields /\ (A!IsStream(r) \/ A!Scheme \in DOMAIN r.fields)
             \/ ~A!IsStream(r) /\ DOMAIN f = DOMAIN r.fields \cup {A!Scheme}
      BY <1>0 DEF A!WithScheme, A!Override
    <2>3. A!IsList(l)
      BY <1>0, AssociatedIs
    <2>. HIDE DEF w, f, l
    <2>4. q = [kind |-> r.kind, dir |-> r.dir, ns |-> r.ns, id |-> r.id, fields |-> f, list |-> l]
      BY <2>1, <2>2
    <2>5. q.list = l /\ q.fields = f
      BY <2>4
    <2>6. /\ A!IsStream(q) \/ A!Scheme \in DOMAIN q.fields
          /\ A!IsStream(q) /\ A!Scheme \in DOMAIN q.fields => A!Scheme \in DOMAIN r.fields
      BY <2>2, <2>5 DEF A!IsStream, A!Scheme
    <2>. QED
      BY <1>1, <1>2, <2>3, <2>4, <2>5, <2>6 DEF f, w, l
  <1>3. CASE r.kind = "Consumer"
    <2>1. q = A!WithArrays(r)
      BY <1>3 DEF A!Stored
    <2>2. \E f, l : /\ A!IsList(l) /\ "object" \notin DOMAIN f
                    /\ q = [kind |-> r.kind, dir |-> r.dir, ns |-> r.ns, id |-> r.id, fields |-> f, list |-> l]
      <3>1. CASE "object" \notin DOMAIN r.fields
        BY <1>0, <2>1, <3>1 DEF A!WithArrays
      <3>2. CASE "object" \in DOMAIN r.fields
        <4>. DEFINE f == [k \in DOMAIN r.fields \ {"object"} |-> r.fields[k]]
                    v == A!Member(r.fields["object"])
                    l == <<v>>
        <4>1. q = [r EXCEPT !.list = l, !.fields = f]
          BY <2>1, <3>2 DEF A!WithArrays
        <4>2. "object" \notin DOMAIN f
          OBVIOUS
        <4>3. A!IsList(l)
          <5>. HIDE DEF v
          <5>1. l \in Seq({v})
            OBVIOUS
          <5>. QED
            BY <5>1, IsListIs
        <4>. HIDE DEF f, l
        <4>4. q = [kind |-> r.kind, dir |-> r.dir, ns |-> r.ns, id |-> r.id, fields |-> f, list |-> l]
          BY <1>0, <4>1
        <4>. QED
          BY <4>2, <4>3, <4>4
      <3>. QED
        BY <3>1, <3>2
    <2>3. PICK f, l : /\ A!IsList(l) /\ "object" \notin DOMAIN f
                      /\ q = [kind |-> r.kind, dir |-> r.dir, ns |-> r.ns, id |-> r.id, fields |-> f, list |-> l]
      BY <2>2
    <2>4. q.fields = f
      BY <2>3
    <2>. QED
      BY <1>1, <1>3, <2>3, <2>4
  <1>4. CASE r.kind \notin {"Proxy", "Consumer"}
    BY <1>4, <1>0 DEF A!Stored
  <1>. QED
    BY <1>2, <1>3, <1>4


LEMMA ScopeIs ==
    ASSUME A!AssemblyAssumption, NEW rs, \A r \in rs : IsSettled(r)
    PROVE  /\ \A q \in A!Normalised(rs) : IsSettled(q)
           /\ A!Plugins(A!Normalised(rs)) = A!Plugins(rs)
           /\ \A r \in rs : A!ScopedTo(A!Stored(r, rs), A!Normalised(rs)) = A!ScopedTo(r, rs)
  <1>1. A!Normalised(rs) = {A!Stored(r, rs) : r \in rs}
    BY DEF A!Normalised
  <1>2. \A r \in rs : /\ IsSettled(A!Stored(r, rs)) /\ A!Stored(r, rs).kind = r.kind
                      /\ A!Stored(r, rs).id = r.id /\ A!Key(A!Stored(r, rs)) = A!Key(r)
                      /\ r.kind = "PluginConfig" => A!Stored(r, rs) = r
    BY StoredIs
  <1>3. A!Plugins(A!Normalised(rs)) = A!Plugins(rs)
    <2>1. ASSUME NEW q \in A!Plugins(A!Normalised(rs)) PROVE q \in A!Plugins(rs)
      <3>1. PICK r \in rs : q = A!Stored(r, rs)
        BY <1>1 DEF A!Plugins
      <3>. QED
        BY <1>2, <3>1 DEF A!Plugins
    <2>2. ASSUME NEW q \in A!Plugins(rs) PROVE q \in A!Plugins(A!Normalised(rs))
      BY <1>1, <1>2 DEF A!Plugins
    <2>. QED
      BY <2>1, <2>2
  <1>4. ASSUME NEW r \in rs PROVE A!ScopedTo(A!Stored(r, rs), A!Normalised(rs)) = A!ScopedTo(r, rs)
    BY <1>2, <1>3 DEF A!ScopedTo
  <1>. QED
    BY <1>1, <1>2, <1>3, <1>4

(* Normalising again changes nothing.                                      *)
LEMMA NormalisedTwice ==
    ASSUME A!AssemblyAssumption, NEW rs, \A r \in rs : IsSettled(r)
    PROVE  A!Normalised(A!Normalised(rs)) = A!Normalised(rs)
  <1>. DEFINE ns == A!Normalised(rs)
  <1>1. ns = {A!Stored(r, rs) : r \in rs} /\ A!Normalised(ns) = {A!Stored(q, ns) : q \in ns}
    BY DEF A!Normalised
  <1>. HIDE DEF ns
  <1>2. ASSUME NEW r \in rs, NEW q, q = A!Stored(r, rs) PROVE A!Stored(q, ns) = q
    <2>1. /\ IsSettled(q) /\ q.kind = r.kind /\ IsSettled(r)
          /\ A!ScopedTo(q, ns) = A!ScopedTo(r, rs)
      BY <1>2, StoredIs, ScopeIs DEF ns
    <2>2. CASE q.kind = "Proxy"
      <3>1. /\ q.list = A!Associated(r, rs) /\ (A!IsStream(q) \/ A!Scheme \in DOMAIN q.fields)
            /\ A!IsList(r.list) /\ A!IsList(q.list)
        BY <1>2, <2>1, <2>2, StoredIs DEF IsSettled, IsBase
      <3>2. Distinct(q.list) /\ A!Members(Lexical) \cap A!ScopedTo(r, rs) \subseteq A!Names(q.list)
        BY <3>1, AssociatedIs
      <3>3. A!Associated(q, ns) = q.list
        BY <2>1, <3>1, <3>2, AssociatedTwice
      <3>4. A!WithScheme(q) = q
        BY <3>1 DEF A!WithScheme
      <3>5. [q EXCEPT !.list = q.list] = q
        BY <2>1 DEF IsSettled, IsBase, A!IsResource
      <3>. QED
        BY <2>2, <3>3, <3>4, <3>5 DEF A!Stored
    <2>3. CASE q.kind = "Consumer"
      <3>1. "object" \notin DOMAIN q.fields
        BY <1>2, <2>1, <2>3, StoredIs
      <3>. QED
        BY <2>3, <3>1 DEF A!Stored, A!WithArrays
    <2>4. CASE q.kind \notin {"Proxy", "Consumer"}
      BY <2>4 DEF A!Stored
    <2>. QED
      BY <2>2, <2>3, <2>4
  <1>3. \A q \in ns : A!Stored(q, ns) = q
    BY <1>1, <1>2
  <1>4. A!Normalised(ns) = ns
    <2>1. ASSUME NEW q \in ns PROVE q \in {A!Stored(x, ns) : x \in ns}
      BY <1>3
    <2>2. ASSUME NEW q \in {A!Stored(x, ns) : x \in ns} PROVE q \in ns
      BY <1>3
    <2>. QED
      BY <1>1, <2>1, <2>2
  <1>. QED
    BY <1>4 DEF ns

(* A share of the resources is normalised as in the whole.                 *)
LEMMA ShareIs ==
    ASSUME A!AssemblyAssumption, NEW rs, \A r \in rs : IsSettled(r)
    PROVE  {q \in A!Normalised(rs) : A!Selected(q)} = A!Normalised({r \in rs : filter \in {AllNs, r.ns}})
  <1>. DEFINE mine == {r \in rs : filter \in {AllNs, r.ns}}
  <1>1. ASSUME NEW r \in rs PROVE A!Selected(A!Stored(r, rs)) <=> r \in mine
    <2>1. A!Key(A!Stored(r, rs)) = A!Key(r) /\ A!Key(r).ns = r.ns
      BY StoredIs DEF IsSettled
    <2>. QED
      BY <2>1 DEF A!Selected
  <1>2. ASSUME NEW r \in mine PROVE A!Stored(r, rs) = A!Stored(r, mine)
    <2>1. CASE filter = AllNs
      <3>1. mine = rs
        BY <2>1
      <3>. QED
        BY <3>1
    <2>2. CASE filter # AllNs
      <3>1. \A x \in rs : A!Key(x).ns = A!Key(r).ns <=> x.ns = r.ns
        BY DEF IsSettled
      <3>2. \A x \in rs : A!Key(x).ns = A!Key(r).ns => x \in mine
        BY <2>2, <3>1
      <3>3. A!ScopedTo(r, rs) = A!ScopedTo(r, mine)
        BY <3>2 DEF A!ScopedTo, A!Plugins
      <3>4. A!Associated(r, rs) = A!Associated(r, mine)
        BY <3>3, Zenon DEF A!Associated
      <3>. QED
        BY <3>4, Zenon DEF A!Stored
    <2>. QED
      BY <2>1, <2>2
  <1>. QED
    BY <1>1, <1>2 DEF A!Normalised
-----------------------------------------------------------------------------
(* The mesh document.                                                      *)
Mine == {r \in A!Fragments : A!Selected(r)}
Holds(doc, fs) ==
    /\ ~A!Conflict(fs) /\ A!IsList(doc.members) /\ NamedOnce(doc.members)
    /\ A!Members(doc.members) = UNION {A!Members(f.list) : f \in fs}
    /\ doc.root = UNION {A!RootOf(f) : f \in fs}

LEMMA OneRoot == \A a, b : Cardinality({a} \cup {b}) <= 1 <=> a = b
  <1>1. \A a : Cardinality({a}) = 1
    BY FS_Singleton
  <1>2. ASSUME NEW a, NEW b, a # b PROVE Cardinality({a} \cup {b}) = 2
    <2>1. IsFiniteSet({a}) /\ Cardinality({a}) = 1 /\ b \notin {a}
      BY <1>2, FS_Singleton
    <2>. QED
      BY <2>1, FS_AddElement
  <1>3. ASSUME NEW a, NEW b PROVE Cardinality({a} \cup {b}) <= 1 <=> a = b
    <2>1. CASE a = b
      <3>1. {a} \cup {b} = {a}
        BY <2>1
      <3>2. Cardinality({a} \cup {b}) = 1
        BY <1>1, <3>1, Zenon
      <3>. QED
        BY <2>1, <3>2
    <2>2. CASE a # b
      BY <1>2, <2>2
    <2>. QED
      BY <2>1, <2>2
  <1>. QED
    BY <1>3

LEMMA RootsAgree ==
    ASSUME NEW f, NEW fs, NEW root, root = UNION {A!RootOf(g) : g \in fs},
           \A g, h \in fs : A!RootOf(g) # {} /\ A!RootOf(h) # {} => A!RootOf(g) = A!RootOf(h)
    PROVE  /\ Cardinality(root \cup A!RootOf(f)) <= 1
                 <=> \A g \in fs : A!RootOf(g) # {} /\ A!RootOf(f) # {} => A!RootOf(g) = A!RootOf(f)
           /\ Cardinality(root \cup A!RootOf(f)) <= 1 =>
                 (IF root = {} THEN A!RootOf(f) ELSE root) = root \cup A!RootOf(f)
  <1>1. A!RootOf(f) = {} \/ \E b : A!RootOf(f) = {b}
    BY DEF A!RootOf
  <1>2. root = {} \/ \E a : root = {a}
    <2>1. \A g : A!RootOf(g) = {} \/ \E a : A!RootOf(g) = {a}
      BY DEF A!RootOf
    <2>. SUFFICES ASSUME root # {} PROVE \E a : root = {a}
      OBVIOUS
    <2>2. PICK g \in fs : A!RootOf(g) # {}
      OBVIOUS
    <2>3. \A h \in fs : A!RootOf(h) \subseteq A!RootOf(g)
      BY <2>2
    <2>4. root = A!RootOf(g)
      BY <2>2, <2>3
    <2>. QED
      BY <2>1, <2>2, <2>4
  <1>3. Cardinality({}) = 0 /\ \A a : Cardinality({a}) = 1
    BY FS_EmptySet, FS_Singleton
  <1>4. CASE root = {} \/ A!RootOf(f) = {}
    <2>1. Cardinality(root \cup A!RootOf(f)) <= 1
      <3>1. root \cup A!RootOf(f) = {} \/ \E a : root \cup A!RootOf(f) = {a}
        BY <1>1, <1>2, <1>4
      <3>2. Cardinality(root \cup A!RootOf(f)) = 0 \/ Cardinality(root \cup A!RootOf(f)) = 1
        BY <1>3, <3>1, Zenon
      <3>. QED
        BY <3>2
    <2>. QED
      BY <1>4, <2>1
  <1>5. CASE root # {} /\ A!RootOf(f) # {}
    <2>1. PICK a, b : root = {a} /\ A!RootOf(f) = {b}
      BY <1>1, <1>2, <1>5
    <2>2. Cardinality(root \cup A!RootOf(f)) <= 1 <=> a = b
      BY <2>1, OneRoot
    <2>3. \A g \in fs : A!RootOf(g) # {} => A!RootOf(g) = {a}
      BY <2>1 DEF A!RootOf
    <2>4. \E g \in fs : A!RootOf(g) = {a}
      BY <2>1, <2>3
    <2>. QED
      BY <2>1, <2>2, <2>3, <2>4
  <1>. QED
    BY <1>4, <1>5


LEMMA ConflictIs ==
    ASSUME NEW fs
    PROVE  ~A!Conflict(fs) <=>
              /\ \A g, h \in fs : A!RootOf(g) # {} /\ A!RootOf(h) # {} => A!RootOf(g) = A!RootOf(h)
              /\ Agreeing(UNION {A!Members(g.list) : g \in fs})
  <1>1. (\E g, h \in fs : \E i \in DOMAIN g.list, j \in DOMAIN h.list :
            /\ g.list[i].name = h.list[j].name /\ g.list[i].name # NoName /\ g.list[i] # h.list[j])
        <=> ~Agreeing(UNION {A!Members(g.list) : g \in fs})
    BY DEF Agreeing, A!Members
  <1>. QED
    BY <1>1 DEF A!Conflict

LEMMA FoldsIs ==
    ASSUME NEW f, NEW doc, Agreeing(A!Members(doc.members))
    PROVE  A!Folds(f, doc) <=>
              /\ Cardinality(doc.root \cup A!RootOf(f)) <= 1
              /\ Agreeing(A!Members(doc.members) \cup A!Members(f.list))
  <1>. DEFINE M == A!Members(doc.members)
              L == A!Members(f.list)
  <1>1. (\A i \in DOMAIN f.list : A!Agrees(f.list[i], doc))
        <=> \A m \in L, x \in M : m.name # NoName /\ x.name = m.name => x = m
    BY DEF A!Agrees, A!Members
  <1>2. (\A i, j \in DOMAIN f.list :
            f.list[i].name = f.list[j].name /\ f.list[i].name # NoName => f.list[i] = f.list[j])
        <=> Agreeing(L)
    BY DEF Agreeing, A!Members
  <1>3. Agreeing(M)
    OBVIOUS
  <1>. HIDE DEF M, L
  <1>4. Agreeing(M \cup L) <=>
            /\ \A m \in L, x \in M : m.name # NoName /\ x.name = m.name => x = m
            /\ Agreeing(L)
    BY <1>3 DEF Agreeing
  <1>5. A!Folds(f, doc) <=> Cardinality(doc.root \cup A!RootOf(f)) <= 1 /\ Agreeing(M \cup L)
    <2>1. A!Cardinality(doc.root \cup A!RootOf(f)) = Cardinality(doc.root \cup A!RootOf(f))
      BY AssemblyLibrary
    <2>. QED
      BY <1>1, <1>2, <1>4, <2>1, Zenon DEF A!Folds
  <1>. QED
    BY <1>5 DEF M, L

LEMMA UnionWith ==
    ASSUME NEW fs, NEW f
    PROVE  UNION {A!Members(g.list) : g \in fs \cup {f}}
               = A!Members(f.list) \cup UNION {A!Members(g.list) : g \in fs}
  OBVIOUS

LEMMA FoldStep ==
    ASSUME NEW doc, NEW fs, Holds(doc, fs), NEW f, A!IsList(f.list)
    PROVE  /\ A!Folds(f, doc) => Holds(A!Fold(f, doc), fs \cup {f})
           /\ ~A!Folds(f, doc) => A!Conflict(fs \cup {f})
  <1>. DEFINE M == A!Members(doc.members)
              L == A!Members(f.list)
              all == fs \cup {f}
              ds == A!Included(doc.members, f.list)[Len(f.list)]
              root == IF doc.root = {} THEN A!RootOf(f) ELSE doc.root
  <1>1. /\ \A g, h \in fs : A!RootOf(g) # {} /\ A!RootOf(h) # {} => A!RootOf(g) = A!RootOf(h)
        /\ Agreeing(UNION {A!Members(g.list) : g \in fs})
    BY ConflictIs DEF Holds
  <1>2. /\ M = UNION {A!Members(g.list) : g \in fs} /\ doc.root = UNION {A!RootOf(g) : g \in fs}
        /\ A!IsList(doc.members) /\ NamedOnce(doc.members)
    BY DEF Holds
  <1>3. UNION {A!Members(g.list) : g \in all} = M \cup L
    <2>1. UNION {A!Members(g.list) : g \in all} = L \cup UNION {A!Members(g.list) : g \in fs}
      BY UnionWith DEF L
    <2>. QED
      BY <1>2, <2>1
  <1>4. UNION {A!RootOf(g) : g \in all} = doc.root \cup A!RootOf(f)
    BY <1>2
  <1>5. Agreeing(M)
    BY <1>1, <1>2
  <1>6. A!Folds(f, doc) <=> Cardinality(doc.root \cup A!RootOf(f)) <= 1 /\ Agreeing(M \cup L)
    BY <1>5, FoldsIs
  <1>7. /\ Cardinality(doc.root \cup A!RootOf(f)) <= 1
               <=> \A g \in fs : A!RootOf(g) # {} /\ A!RootOf(f) # {} => A!RootOf(g) = A!RootOf(f)
        /\ Cardinality(doc.root \cup A!RootOf(f)) <= 1 => root = doc.root \cup A!RootOf(f)
    <2>. DEFINE dr == doc.root
    <2>1. dr = UNION {A!RootOf(g) : g \in fs}
      BY <1>2
    <2>. HIDE DEF dr
    <2>2. /\ Cardinality(dr \cup A!RootOf(f)) <= 1
                 <=> \A g \in fs : A!RootOf(g) # {} /\ A!RootOf(f) # {} => A!RootOf(g) = A!RootOf(f)
          /\ Cardinality(dr \cup A!RootOf(f)) <= 1 => (IF dr = {} THEN A!RootOf(f) ELSE dr) = dr \cup A!RootOf(f)
      BY <1>1, <2>1, RootsAgree
    <2>. QED
      BY <2>2 DEF dr
  <1>8. ~A!Conflict(all) <=>
            /\ \A g, h \in all : A!RootOf(g) # {} /\ A!RootOf(h) # {} => A!RootOf(g) = A!RootOf(h)
            /\ Agreeing(M \cup L)
    <2>. HIDE DEF all, M, L
    <2>. QED
      BY <1>3, ConflictIs
  <1>9. (\A g, h \in all : A!RootOf(g) # {} /\ A!RootOf(h) # {} => A!RootOf(g) = A!RootOf(h))
        <=> \A g \in fs : A!RootOf(g) # {} /\ A!RootOf(f) # {} => A!RootOf(g) = A!RootOf(f)
    BY <1>1
  <1>. HIDE DEF M, L, root, ds, all
  <1>10. ~A!Conflict(all) <=> A!Folds(f, doc)
    BY <1>6, <1>7, <1>8, <1>9
  <1>11. ASSUME A!Folds(f, doc) PROVE Holds(A!Fold(f, doc), all)
    <2>1. A!Fold(f, doc) = [root |-> root, members |-> ds]
      BY DEF A!Fold, root, ds
    <2>2. A!Fold(f, doc).root = root /\ A!Fold(f, doc).members = ds
      BY <2>1
    <2>. DEFINE X == M \cup L
                items == doc.members
                s == f.list
    <2>3. items \in Seq(X) /\ s \in Seq(X)
      <3>1. items \in Seq(M) /\ s \in Seq(L)
        BY <1>2, ListOf DEF M, L
      <3>. QED
        BY <3>1
    <2>4. ds = A!Included(items, s)[Len(s)] /\ M = A!Members(items) /\ L = A!Members(s) /\ NamedOnce(items)
      BY <1>2 DEF ds, M, L
    <2>5. Agreeing(A!Members(items) \cup A!Members(s))
      BY <1>6, <1>11, <2>4
    <2>. HIDE DEF X, items, s
    <2>6. ds \in Seq(X) /\ A!Members(ds) = A!Members(items) \cup A!Members(s) /\ NamedOnce(ds)
      BY <2>3, <2>4, <2>5, IncludedKeeps
    <2>7. A!IsList(ds)
      BY <2>6, IsListIs
    <2>8. root = UNION {A!RootOf(g) : g \in all}
      BY <1>4, <1>6, <1>7, <1>11
    <2>9. A!Members(ds) = UNION {A!Members(g.list) : g \in all}
      BY <1>3, <2>4, <2>6
    <2>. QED
      BY <1>10, <1>11, <2>2, <2>6, <2>7, <2>8, <2>9 DEF Holds
  <1>. QED
    BY <1>10, <1>11 DEF all
-----------------------------------------------------------------------------
(* The invariant.                                                          *)

Whole == A!Normalised(A!Settled(tree \ A!Fragments))

(* A resource of the base is as it was, or merged with the one fragment    *)
(* that is about it.                                                       *)
MergeInv ==
    phase # "refused" =>
        /\ \A o \in over \ rest : A!Target(o) \in targets
        /\ \A b \in base : A!Key(b) \notin targets => b \in tree
        /\ \A b \in base, o \in over \ rest : A!Key(b) = A!Target(o) => A!Merged(b, o) \in tree

ResourcesInv ==
    /\ base \subseteq Base /\ over \subseteq Overlay /\ rest \subseteq over
    /\ targets \subseteq {A!Target(o) : o \in over}
    /\ parts \subseteq A!Fragments
    /\ phase \in {"overlay", "mesh", "done", "conflict", "refused"}
    /\ \A r \in tree : IsBase(r)
    /\ A!OverlayKeepsKeys

GatewayInv ==
    /\ gateway \subseteq Whole
    /\ phase = "overlay" => gateway = {} /\ parts = {} /\ mesh = A!NoMesh
    /\ phase \in {"mesh", "conflict"} => gateway = Whole
    /\ phase = "done" => gateway = {r \in Whole : A!Selected(r)}

(* What is folded in so far is in the document, and nothing disagrees.     *)
MeshInv ==
    /\ phase \in {"mesh", "done"} => parts \subseteq Mine /\ Holds(mesh, Mine \ parts)
    /\ phase = "done" => parts = {}
    /\ phase = "conflict" => A!Conflict(Mine)

AssemblyInv == ResourcesInv /\ MergeInv /\ GatewayInv /\ MeshInv

LEMMA BaseIs ==
    ASSUME A!AssemblyAssumption, NEW r \in Base PROVE IsBase(r)
  <1>1. A!IsResource(r)
    BY Zenon DEF A!AssemblyAssumption
  <1>2. A!IsList(r.list)
    BY Zenon DEF A!AssemblyAssumption
  <1>3. r.kind = "PluginConfig" => r.id \in A!Members(Lexical)
    BY Zenon DEF A!AssemblyAssumption
  <1>. QED
    BY <1>1, <1>2, <1>3, Zenon DEF IsBase

LEMMA AssemblyInit == ASSUME A!AssemblyAssumption, A!Init PROVE AssemblyInv
  <1>1. base \subseteq Base /\ over \subseteq Overlay
    BY DEF A!Init, A!Few
  <1>2. ResourcesInv
    BY <1>1, BaseIs DEF A!Init, ResourcesInv, A!OverlayKeepsKeys
  <1>3. MergeInv
    BY DEF A!Init, MergeInv
  <1>4. GatewayInv /\ MeshInv
    BY DEF A!Init, GatewayInv, MeshInv
  <1>. QED
    BY <1>2, <1>3, <1>4 DEF AssemblyInv

LEMMA WholeIs ==
    ASSUME A!AssemblyAssumption, ResourcesInv
    PROVE  /\ \A r \in A!Settled(tree \ A!Fragments) : IsSettled(r)
           /\ \A r \in Whole : IsSettled(r)
  <1>1. \A r \in tree \ A!Fragments : IsBase(r)
    BY DEF ResourcesInv
  <1>2. \A r \in A!Settled(tree \ A!Fragments) : IsSettled(r)
    BY <1>1, SettledAre
  <1>. QED
    BY <1>2, ScopeIs DEF Whole

LEMMA RefuseStep == ASSUME A!AssemblyAssumption, AssemblyInv, A!RefuseDuplicates PROVE AssemblyInv'
  <1>1. UNCHANGED <<A!Inputs, tree, rest, targets, parts, mesh, gateway>> /\ phase' = "refused"
    BY DEF A!RefuseDuplicates
  <1>2. Whole' = Whole /\ A!Fragments' = A!Fragments
    BY <1>1 DEF Whole, A!Fragments
  <1>. QED
    BY <1>1, <1>2 DEF AssemblyInv, ResourcesInv, MergeInv, GatewayInv, MeshInv, A!OverlayKeepsKeys, A!Inputs

LEMMA MergeStep == ASSUME A!AssemblyAssumption, AssemblyInv, A!MergeOne PROVE AssemblyInv'
  <1>1. /\ phase = "overlay" /\ UNCHANGED <<base, over, filter, parts, mesh, gateway>>
        /\ gateway = {} /\ parts = {} /\ mesh = A!NoMesh
    BY DEF A!MergeOne, A!Inputs, AssemblyInv, GatewayInv
  <1>2. PICK o \in rest :
           /\ rest' = rest \ {o}
           /\ IF A!Accepts(o)
              THEN /\ targets' = targets \cup {A!Target(o)} /\ UNCHANGED phase
                   /\ tree' = {IF A!Key(r) = A!Target(o) THEN A!Merged(r, o) ELSE r : r \in tree}
              ELSE phase' = "refused" /\ UNCHANGED <<tree, targets>>
    BY DEF A!MergeOne
  <1>3. o \in over /\ o \in Overlay /\ rest \subseteq over
    BY DEF AssemblyInv, ResourcesInv
  <1>4. CASE ~A!Accepts(o)
    <2>1. phase' = "refused" /\ UNCHANGED <<tree, targets>>
      BY <1>2, <1>4
    <2>2. ResourcesInv'
      BY <1>1, <1>2, <2>1 DEF AssemblyInv, ResourcesInv, A!OverlayKeepsKeys
    <2>. QED
      BY <1>1, <2>1, <2>2 DEF AssemblyInv, MergeInv, GatewayInv, MeshInv
  <1>5. CASE A!Accepts(o)
    <2>. DEFINE New(r) == IF A!Key(r) = A!Target(o) THEN A!Merged(r, o) ELSE r
    <2>1. /\ targets' = targets \cup {A!Target(o)} /\ phase' = "overlay"
          /\ tree' = {New(r) : r \in tree} /\ A!Target(o) \notin targets
      BY <1>1, <1>2, <1>5 DEF A!Accepts
    <2>2. ASSUME NEW r \in tree PROVE IsBase(New(r)) /\ A!Key(New(r)) = A!Key(r)
      <3>1. IsBase(r)
        BY DEF AssemblyInv, ResourcesInv
      <3>2. CASE A!Key(r) = A!Target(o)
        BY <1>3, <3>1, <3>2, MergedIs
      <3>3. CASE A!Key(r) # A!Target(o)
        BY <3>1, <3>3
      <3>. QED
        BY <3>2, <3>3
    <2>. HIDE DEF New
    <2>3. ResourcesInv'
      <3>1. {A!Key(r) : r \in tree'} = {A!Key(r) : r \in tree}
        BY <2>1, <2>2
      <3>2. A!OverlayKeepsKeys'
        BY <1>1, <3>1 DEF AssemblyInv, ResourcesInv, A!OverlayKeepsKeys
      <3>3. \A r \in tree' : IsBase(r)
        BY <2>1, <2>2
      <3>. QED
        BY <1>1, <1>2, <1>3, <2>1, <3>2, <3>3 DEF AssemblyInv, ResourcesInv
    <2>4. MergeInv'
      <3>1. \A p \in over \ rest' : p = o \/ p \in over \ rest
        BY <1>2, <1>3
      <3>2. MergeInv /\ phase # "refused"
        BY <1>1 DEF AssemblyInv
      <3>3. \A p \in over \ rest' : A!Target(p) \in targets'
        BY <2>1, <3>1, <3>2 DEF MergeInv
      <3>4. ASSUME NEW b \in base, A!Key(b) \notin targets' PROVE b \in tree'
        <4>1. b \in tree /\ New(b) = b
          BY <2>1, <3>2, <3>4 DEF MergeInv, New
        <4>. QED
          BY <2>1, <4>1
      <3>5. ASSUME NEW b \in base, NEW p \in over \ rest', A!Key(b) = A!Target(p) PROVE A!Merged(b, p) \in tree'
        <4>1. CASE p = o
          <5>1. b \in tree /\ New(b) = A!Merged(b, o)
            BY <2>1, <3>2, <3>5, <4>1 DEF MergeInv, New
          <5>. QED
            BY <2>1, <4>1, <5>1
        <4>2. CASE p # o
          <5>1. p \in over \ rest /\ A!Target(p) \in targets
            BY <3>1, <3>2, <4>2 DEF MergeInv
          <5>2. A!Merged(b, p) \in tree
            BY <3>2, <3>5, <5>1 DEF MergeInv
          <5>3. IsBase(b) /\ p \in Overlay
            BY BaseIs, <5>1 DEF AssemblyInv, ResourcesInv
          <5>4. A!Key(A!Merged(b, p)) = A!Target(p)
            BY <3>5, <5>3, MergedIs
          <5>5. New(A!Merged(b, p)) = A!Merged(b, p)
            BY <2>1, <5>1, <5>4 DEF New
          <5>. QED
            BY <2>1, <5>2, <5>5
        <4>. QED
          BY <4>1, <4>2
      <3>. QED
        BY <1>1, <3>3, <3>4, <3>5 DEF MergeInv
    <2>. QED
      BY <1>1, <2>1, <2>3, <2>4 DEF AssemblyInv, GatewayInv, MeshInv
  <1>. QED
    BY <1>4, <1>5

LEMMA AssembleStep == ASSUME A!AssemblyAssumption, AssemblyInv, A!Assemble PROVE AssemblyInv'
  <1>1. /\ phase = "overlay" /\ phase' = "mesh" /\ gateway' = Whole /\ parts' = Mine
        /\ UNCHANGED <<base, over, filter, tree, rest, targets, mesh>> /\ mesh = A!NoMesh
    BY DEF A!Assemble, A!Inputs, AssemblyInv, GatewayInv, Whole, Mine
  <1>2. Whole' = Whole /\ A!Fragments' = A!Fragments /\ Mine' = Mine
    BY <1>1 DEF Whole, A!Fragments, Mine, A!Selected
  <1>3. Holds(A!NoMesh, {})
    <2>1. A!NoMesh.members = <<>> /\ A!NoMesh.root = {}
      BY DEF A!NoMesh
    <2>2. A!IsList(<<>>) /\ NamedOnce(<<>>) /\ A!Members(<<>>) = {}
      BY DEF A!IsList, NamedOnce, A!Members
    <2>. QED
      BY <2>1, <2>2 DEF Holds, A!Conflict
  <1>4. Mine \ Mine = {}
    OBVIOUS
  <1>5. MeshInv'
    BY <1>1, <1>2, <1>3, <1>4 DEF MeshInv
  <1>6. ResourcesInv'
    BY <1>1, <1>2 DEF AssemblyInv, ResourcesInv, A!OverlayKeepsKeys, Mine
  <1>. QED
    BY <1>1, <1>2, <1>5, <1>6 DEF AssemblyInv, MergeInv, GatewayInv

LEMMA FoldOneStep == ASSUME A!AssemblyAssumption, AssemblyInv, A!FoldOne PROVE AssemblyInv'
  <1>1. /\ phase = "mesh" /\ UNCHANGED <<base, over, filter, tree, rest, targets, gateway>>
    BY DEF A!FoldOne, A!Inputs
  <1>2. PICK f \in parts :
           /\ parts' = parts \ {f}
           /\ IF A!Folds(f, mesh) THEN mesh' = A!Fold(f, mesh) /\ UNCHANGED phase
              ELSE phase' = "conflict" /\ UNCHANGED mesh
    BY DEF A!FoldOne
  <1>3. Whole' = Whole /\ A!Fragments' = A!Fragments /\ Mine' = Mine
    BY <1>1 DEF Whole, A!Fragments, Mine, A!Selected
  <1>4. parts \subseteq Mine /\ Holds(mesh, Mine \ parts) /\ f \in Mine
    BY <1>1, <1>2 DEF AssemblyInv, MeshInv
  <1>5. A!IsList(f.list)
    BY <1>4 DEF Mine, A!Fragments, AssemblyInv, ResourcesInv, IsBase
  <1>6. (Mine \ parts) \cup {f} = Mine \ parts'
    BY <1>2, <1>4
  <1>7. /\ A!Folds(f, mesh) => Holds(A!Fold(f, mesh), Mine \ parts')
        /\ ~A!Folds(f, mesh) => A!Conflict(Mine \ parts')
    BY <1>4, <1>5, <1>6, FoldStep
  <1>8. A!Conflict(Mine \ parts') => A!Conflict(Mine)
    BY DEF A!Conflict
  <1>9. ResourcesInv'
    BY <1>1, <1>2, <1>3 DEF AssemblyInv, ResourcesInv, A!OverlayKeepsKeys
  <1>10. MeshInv'
    BY <1>1, <1>2, <1>3, <1>4, <1>7, <1>8 DEF MeshInv
  <1>11. phase' \in {"mesh", "conflict"}
    BY <1>1, <1>2
  <1>. QED
    BY <1>1, <1>3, <1>9, <1>10, <1>11 DEF AssemblyInv, MergeInv, GatewayInv

LEMMA SelectStep == ASSUME A!AssemblyAssumption, AssemblyInv, A!Select PROVE AssemblyInv'
  <1>1. /\ phase = "mesh" /\ parts = {} /\ gateway' = {r \in gateway : A!Selected(r)}
        /\ phase' \in {"done", "refused"}
        /\ UNCHANGED <<base, over, filter, tree, rest, targets, parts, mesh>>
    BY DEF A!Select, A!Inputs
  <1>2. Whole' = Whole /\ A!Fragments' = A!Fragments /\ Mine' = Mine /\ \A r : A!Selected(r)' <=> A!Selected(r)
    BY <1>1 DEF Whole, A!Fragments, Mine, A!Selected
  <1>3. gateway = Whole
    BY <1>1 DEF AssemblyInv, GatewayInv
  <1>4. GatewayInv'
    BY <1>1, <1>2, <1>3 DEF GatewayInv, A!Selected
  <1>5. ResourcesInv'
    BY <1>1, <1>2 DEF AssemblyInv, ResourcesInv, A!OverlayKeepsKeys
  <1>6. MeshInv'
    BY <1>1, <1>2 DEF AssemblyInv, MeshInv
  <1>. QED
    BY <1>1, <1>4, <1>5, <1>6 DEF AssemblyInv, MergeInv

LEMMA AssemblyStep == ASSUME A!AssemblyAssumption, AssemblyInv, [A!Next]_A!vars PROVE AssemblyInv'
  <1>1. CASE UNCHANGED A!vars
    <2>1. UNCHANGED <<base, over, filter, tree, rest, targets, parts, mesh, gateway, phase>>
      BY <1>1 DEF A!vars
    <2>2. Whole' = Whole /\ A!Fragments' = A!Fragments /\ Mine' = Mine
      BY <2>1 DEF Whole, A!Fragments, Mine, A!Selected
    <2>3. {r \in Whole : A!Selected(r)}' = {r \in Whole : A!Selected(r)}
      BY <2>1, <2>2 DEF A!Selected
    <2>. QED
      BY <2>1, <2>2, <2>3 DEF AssemblyInv, ResourcesInv, MergeInv, GatewayInv, MeshInv, A!OverlayKeepsKeys
  <1>. QED
    BY <1>1, RefuseStep, MergeStep, AssembleStep, FoldOneStep, SelectStep DEF A!Next, A!Done
-----------------------------------------------------------------------------
(* What the invariant says of the desired configuration.                   *)

LEMMA TypesHold ==
    ASSUME A!AssemblyAssumption, AssemblyInv PROVE A!TypeOK
  <1>1. gateway \subseteq Whole
    BY DEF AssemblyInv, GatewayInv
  <1>2. ASSUME NEW q \in gateway, q.kind = "Proxy", A!IsStream(q), A!Scheme \in DOMAIN q.fields
        PROVE  \E t \in tree : A!Key(t) = A!Key(q) /\ A!Scheme \in DOMAIN t.fields
    <2>. DEFINE rs == A!Settled(tree \ A!Fragments)
    <2>1. PICK r \in rs : q = A!Stored(r, rs)
      BY <1>1 DEF Whole, A!Normalised
    <2>2. IsSettled(r) /\ \A t \in tree \ A!Fragments : IsBase(t)
      BY WholeIs DEF AssemblyInv, ResourcesInv
    <2>3. PICK t \in tree \ A!Fragments : r = Settling(t)
      BY <2>2, SettledAre
    <2>. HIDE DEF rs
    <2>4. A!Key(r) = A!Key(t) /\ r.fields = t.fields
      BY <2>2, <2>3, SettlingIs
    <2>5. A!Key(q) = A!Key(r) /\ q.kind = r.kind
      BY <2>1, <2>2, StoredIs
    <2>6. A!Scheme \in DOMAIN r.fields
      BY <1>2, <2>1, <2>2, <2>5, StoredIs
    <2>. QED
      BY <2>4, <2>5, <2>6
  <1>3. /\ rest \subseteq over /\ targets \subseteq {A!Target(o) : o \in over}
        /\ parts \subseteq A!Fragments /\ phase \in {"overlay", "mesh", "done", "conflict", "refused"}
    BY DEF AssemblyInv, ResourcesInv
  <1>. QED
    BY <1>2, <1>3 DEF A!TypeOK, A!IsStream

LEMMA OverlaysHold ==
    ASSUME A!AssemblyAssumption, AssemblyInv PROVE A!OverlayNarrowsOrAdds
  <1>1. SUFFICES ASSUME NEW b \in base, NEW o \in over,
                        phase = "mesh" /\ A!Target(o) = A!Key(b) /\ o.list # NoList /\ o \notin rest
        PROVE  \E t \in tree :
             /\ A!Key(t) = A!Key(b)
             /\ IF b.kind \notin {"Proxy", "Upstream", "MeshConfig"} THEN t.list = o.list
                ELSE /\ \A i \in DOMAIN o.list: A!IsLast(i, o.list) => o.list[i] \in A!Members(t.list)
                     /\ \A i \in DOMAIN b.list:
                          (b.list[i].name = NoName \/ b.list[i].name \notin A!Names(o.list))
                          => t.list[i] = b.list[i]
    BY DEF A!OverlayNarrowsOrAdds
  <1>. DEFINE t == A!Merged(b, o)
  <1>2. t \in tree
    BY <1>1 DEF AssemblyInv, MergeInv
  <1>3. b \in Base /\ o \in Overlay
    BY DEF AssemblyInv, ResourcesInv
  <1>4. IsBase(b) /\ A!IsList(b.list) /\ A!IsList(o.list)
    BY <1>1, <1>3, BaseIs DEF IsBase, A!AssemblyAssumption
  <1>5. A!Key(t) = A!Key(b) /\ t.list = A!MergeList(b.kind, b.list, o.list)
    BY <1>1, <1>3, <1>4, MergedIs
  <1>. HIDE DEF t
  <1>6. IF A!Additive(b.kind)
        THEN /\ \A k \in DOMAIN b.list :
                   b.list[k].name = NoName \/ b.list[k].name \notin A!Names(o.list) => t.list[k] = b.list[k]
             /\ \A j \in DOMAIN o.list : A!IsLast(j, o.list) => o.list[j] \in A!Members(t.list)
        ELSE t.list = o.list
    BY <1>4, <1>5, MergeListIs
  <1>7. A!Additive(b.kind) <=> b.kind \in {"Proxy", "Upstream", "MeshConfig"}
    BY DEF A!Additive
  <1>. QED
    BY <1>2, <1>5, <1>6, <1>7

LEMMA NormalisingHolds ==
    ASSUME A!AssemblyAssumption, AssemblyInv PROVE A!NormalisingIsStable
  <1>. SUFFICES ASSUME phase = "mesh" 
                PROVE  /\ A!Normalised(gateway) = gateway
                       /\ \A p \in {r \in gateway : r.kind = "Proxy"}:
                            /\ \A i, j \in DOMAIN p.list: p.list[i].name = p.list[j].name => i = j
                            /\ \A q \in A!Plugins(gateway):
                                 (q.fields["scope"] = "proxy" /\ q.fields["proxy_id"] = p.id /\ q.ns = p.ns)
                                 => q.id \in A!Names(p.list)
    BY DEF A!NormalisingIsStable
  <1>. DEFINE rs == A!Settled(tree \ A!Fragments)
  <1>1. gateway = A!Normalised(rs) /\ \A r \in rs : IsSettled(r)
    BY WholeIs DEF AssemblyInv, GatewayInv, Whole
  <1>. HIDE DEF rs
  <1>2. A!Normalised(gateway) = gateway
    BY <1>1, NormalisedTwice
  <1>3. \A q \in gateway : IsSettled(q)
    BY <1>1, ScopeIs
  <1>4. ASSUME NEW p \in gateway, p.kind = "Proxy"
        PROVE  /\ \A i, j \in DOMAIN p.list: p.list[i].name = p.list[j].name => i = j
               /\ \A q \in A!Plugins(gateway):
                    (q.fields["scope"] = "proxy" /\ q.fields["proxy_id"] = p.id /\ q.ns = p.ns)
                    => q.id \in A!Names(p.list)
    <2>1. PICK r \in rs : p = A!Stored(r, rs)
      BY <1>1 DEF A!Normalised
    <2>2. /\ p.list = A!Associated(r, rs) /\ A!IsList(r.list)
          /\ A!ScopedTo(p, gateway) = A!ScopedTo(r, rs)
      <3>1. IsSettled(r) /\ r.kind = "Proxy"
        BY <1>1, <1>4, <2>1, StoredIs
      <3>2. p.list = A!Associated(r, rs)
        BY <2>1, <3>1, StoredIs
      <3>3. A!ScopedTo(p, gateway) = A!ScopedTo(r, rs)
        BY <1>1, <2>1, ScopeIs
      <3>. QED
        BY <3>1, <3>2, <3>3 DEF IsSettled, IsBase
    <2>3. Distinct(p.list) /\ A!Members(Lexical) \cap A!ScopedTo(p, gateway) \subseteq A!Names(p.list)
      BY <2>2, AssociatedIs
    <2>4. ASSUME NEW q \in A!Plugins(gateway),
                 q.fields["scope"] = "proxy" /\ q.fields["proxy_id"] = p.id /\ q.ns = p.ns
          PROVE  q.id \in A!Names(p.list)
      <3>1. IsSettled(q) /\ IsSettled(p) /\ q.kind = "PluginConfig"
        BY <1>3 DEF A!Plugins
      <3>2. A!Key(q).ns = A!Key(p).ns /\ q.id \in A!Members(Lexical)
        BY <2>4, <3>1 DEF IsSettled, IsBase
      <3>3. q.id \in A!ScopedTo(p, gateway)
        BY <2>4, <3>2 DEF A!ScopedTo
      <3>. QED
        BY <2>3, <3>2, <3>3
    <2>. QED
      BY <2>3, <2>4 DEF Distinct
  <1>. QED
    BY <1>2, <1>4

LEMMA MeshHolds ==
    ASSUME A!AssemblyAssumption, AssemblyInv PROVE A!MeshIsOrderless
  <1>1. phase = "conflict" => A!Conflict(Mine)
    BY DEF AssemblyInv, MeshInv
  <1>2. ASSUME phase = "done" PROVE Holds(mesh, Mine)
    <2>1. Holds(mesh, Mine \ parts) /\ parts = {}
      BY <1>2 DEF AssemblyInv, MeshInv
    <2>2. Mine \ parts = Mine
      BY <2>1
    <2>. QED
      BY <2>1, <2>2
  <1>. QED
    BY <1>1, <1>2 DEF A!MeshIsOrderless, Holds, NamedOnce, Mine

LEMMA SelectionHolds ==
    ASSUME A!AssemblyAssumption, AssemblyInv PROVE A!SelectionIsAShare
  <1>. DEFINE rs == A!Settled(tree \ A!Fragments)
  <1>1. ASSUME phase = "done"
        PROVE  gateway = A!Normalised({r \in rs : filter \in {AllNs, r.ns}})
    <2>1. \A r \in rs : IsSettled(r)
      BY WholeIs DEF AssemblyInv
    <2>2. gateway = {q \in A!Normalised(rs) : A!Selected(q)}
      BY <1>1 DEF AssemblyInv, GatewayInv, Whole
    <2>. HIDE DEF rs
    <2>. QED
      BY <2>1, <2>2, ShareIs
  <1>. QED
    BY <1>1 DEF A!SelectionIsAShare

LEMMA AssemblySound ==
    ASSUME A!AssemblyAssumption, AssemblyInv PROVE A!DesiredIsSound
  <1>1. A!OverlayKeepsKeys
    BY DEF AssemblyInv, ResourcesInv
  <1>. QED
    BY <1>1, TypesHold, OverlaysHold, NormalisingHolds, MeshHolds, SelectionHolds DEF A!DesiredIsSound

(* The desired configuration, for any files, fragments, filter and order   *)
(* of folding: overlays keep every key, narrow or add as their array says, *)
(* normalising again changes nothing, the mesh is refused exactly when two *)
(* fragments disagree, and a filtered run deploys its share of the whole.  *)
THEOREM DesiredIsAlwaysDetermined ==
    ASSUME A!AssemblyAssumption PROVE A!Spec => []A!DesiredIsSound
  <1>1. A!Init => AssemblyInv
    BY AssemblyInit
  <1>2. AssemblyInv /\ [A!Next]_A!vars => AssemblyInv'
    BY AssemblyStep
  <1>3. AssemblyInv => A!DesiredIsSound
    BY AssemblySound
  <1>. QED
    BY <1>1, <1>2, <1>3, PTL DEF A!Spec
=============================================================================
