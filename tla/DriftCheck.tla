----------------------------- MODULE DriftCheck -----------------------------
(***************************************************************************)
(* `diff`, the drift check: scheduled runs that compare a gateway other    *)
(* people write to with the repository, and end in one exit code.          *)
(*                                                                         *)
(* With a viewer credential the check reads GET /config/export, where      *)
(* every secret is a keyed fingerprint the check cannot compute; only a    *)
(* baseline file of earlier fingerprints can tell that one changed.  With  *)
(* the admin credential it reads GET /backup.  A fingerprint is modelled   *)
(* by the key that made it, the version of the secret it covers, and the   *)
(* place it stands at.                                                     *)
(***************************************************************************)
EXTENDS Integers, FiniteSets

CONSTANTS
    Namespace,
    Consumers,      \* namespaces whose declared resources carry secrets
    Run,            \* drift checks that may overlap
    Options,        \* the command lines and environments they are given
    MaxVersions,    \* bound: versions of the secrets
    MaxKeys,        \* bound: fingerprint keys of the gateway
    MaxChanges,     \* bound: changes other actors make
    NoFile, NoEntry, NotRead

DriftAssumption ==
    /\ Consumers \subseteq Namespace
    /\ MaxVersions \in Nat \ {0} /\ MaxKeys \in Nat \ {0} /\ MaxChanges \in Nat

(* What can differ besides a secret.  "buried" lies inside a value that     *)
(* also holds a secret; "conflict" is a declared row the gateway's spec     *)
(* importer owns.                                                           *)
Plain == {"same", "modified", "buried", "missing", "prunable", "unmanaged", "conflict"}

Category == {"managed_modified", "managed_deleted", "unmanaged_added"}

(* How the gateway answered for one namespace: from its cache, with the    *)
(* declared consumer that holds the secret lacking its hidden fingerprint, *)
(* or with a whole value fingerprinted around the secret.                  *)
Quality == {"good", "cached", "unsealed", "masked"}

Option ==
    [export : BOOLEAN,      \* is the viewer secret configured?
     exitOnDrift : BOOLEAN,
     read : BOOLEAN, write : BOOLEAN, force : BOOLEAN, accept : BOOLEAN,
     muted : SUBSET Category,
     bundle : BOOLEAN,      \* are the repository's placeholders resolved?
     scope : SUBSET Namespace]

OptionsAssumption == Options \subseteq Option /\ Options # {}

Version == 0..MaxVersions           \* 0: the row does not exist
Blank == -1                         \* the row exists, its fingerprint is absent

(* Where a secret's fingerprint stands: at the secret itself, at a whole    *)
(* value around it, or at such a value whose other contents are not the     *)
(* declared ones.                                                           *)
Place == {"itself", "around", "buried"}

Live == [secret : Version, plain : Plain]
Entry == [key : 1..MaxKeys, secret : Version \cup {Blank}, at : Place]
File == [Namespace -> Entry \cup {NoEntry}]
Export == [quality : Quality, key : 1..MaxKeys, secret : Version, plain : Plain]

AbsenceAssumption == NoFile \notin File /\ NoEntry \notin Entry /\ NotRead \notin Export

VARIABLES
    live, cache,    \* the database, and the snapshot the gateway may serve
    want,           \* the version the repository and its bundle declare
    key, made,      \* the fingerprint key; versions made so far
    changes,
    file,           \* the baseline file
    pc, opt, base, desired, seen, held, wrote, exit, inSync, \* per run
    alarm           \* history: namespaces whose changed secret was reported,
                    \* and whose entry in the file still tells

world == <<live, cache, want, key, made, changes>>
runs == <<pc, opt, base, desired, seen, held, wrote, exit, inSync>>
vars == <<world, file, runs, alarm>>

NoOption == CHOOSE o \in Options : TRUE
Steps == {"start", "read", "conclude", "load", "rename", "done"}

TypeOK ==
    /\ live \in [Namespace -> Live] /\ cache \in [Namespace -> Live]
    /\ want \in [Namespace -> Version]
    /\ key \in 1..MaxKeys /\ made \in Version /\ changes \in 0..MaxChanges
    /\ file \in File \cup {NoFile}
    /\ pc \in [Run -> Steps] /\ opt \in [Run -> Options]
    /\ base \in [Run -> File \cup {NoFile}]
    /\ desired \in [Run -> [Namespace -> Version]]
    /\ seen \in [Run -> [Namespace -> Export \cup {NotRead}]]
    /\ held \in [Run -> File \cup {NoFile}]
    /\ wrote \in [Run -> BOOLEAN] /\ exit \in [Run -> {-1, 0, 1, 2, 6}]
    /\ inSync \in [Run -> BOOLEAN]
    /\ alarm \subseteq Namespace

Init ==
    /\ live = [n \in Namespace |-> [secret |-> 1, plain |-> "same"]]
    /\ cache = live /\ want = [n \in Namespace |-> 1]
    /\ key = 1 /\ made = 1 /\ changes = 0 /\ file = NoFile
    /\ pc = [r \in Run |-> "start"] /\ opt = [r \in Run |-> NoOption]
    /\ base = [r \in Run |-> NoFile] /\ desired = [r \in Run |-> want]
    /\ seen = [r \in Run |-> [n \in Namespace |-> NotRead]]
    /\ held = [r \in Run |-> NoFile] /\ wrote = [r \in Run |-> FALSE]
    /\ exit = [r \in Run |-> -1] /\ inSync = [r \in Run |-> FALSE]
    /\ alarm = {}
-----------------------------------------------------------------------------
(* The gateway and the actors that change it (external to the check).       *)

Changed(n, row) ==
    /\ changes < MaxChanges /\ changes' = changes + 1
    /\ live' = [live EXCEPT ![n] = row]
    /\ cache' = [cache EXCEPT ![n] = live[n]]
    /\ UNCHANGED <<key, file, runs>>

(* Someone writes a secret, or removes the row that holds it.               *)
Tamper(n) ==
    /\ n \in Consumers
    /\ \/ /\ made < MaxVersions /\ made' = made + 1
          /\ Changed(n, [live[n] EXCEPT !.secret = made + 1])
       \/ Changed(n, [live[n] EXCEPT !.secret = 0]) /\ UNCHANGED made
    /\ UNCHANGED <<want, alarm>>

Drift(n, p) ==
    /\ live[n].plain = "same" /\ p # "same"
    /\ p = "buried" => n \in Consumers
    /\ Changed(n, [live[n] EXCEPT !.plain = p])
    /\ UNCHANGED <<want, made, alarm>>

(* An apply brings a namespace to the declaration, possibly with a rotated  *)
(* credential.                                                              *)
Reconcile(n) ==
    /\ \/ UNCHANGED <<want, made>>
       \/ /\ n \in Consumers /\ made < MaxVersions /\ made' = made + 1
          /\ want' = [want EXCEPT ![n] = made + 1]
    /\ Changed(n, [secret |-> want'[n], plain |-> "same"])
    /\ alarm' = alarm \ {n}

RotateKey ==
    /\ key < MaxKeys /\ key' = key + 1
    /\ changes < MaxChanges /\ changes' = changes + 1
    /\ UNCHANGED <<live, cache, want, made, file, runs, alarm>>
-----------------------------------------------------------------------------
(* config_export.rs: what one namespace's export establishes.               *)

Recorded(b, n) == b # NoFile /\ b[n] # NoEntry

(* What the record keeps of an answer: a fingerprint the answer lacks is    *)
(* collected for no row, and says nothing of the secret's version.          *)
Shown(a) ==
    [key |-> a.key,
     secret |-> IF a.quality = "unsealed" /\ a.secret # 0 THEN Blank ELSE a.secret,
     at |-> IF a.quality # "masked" \/ a.secret = 0 THEN "itself"
            ELSE IF a.plain = "buried" THEN "buried" ELSE "around"]

(* Every declared consumer's hidden fingerprint counts as uncompared, and   *)
(* so does each fingerprint at a declared secret.                           *)
Uncompared(r) == {n \in opt[r].scope \cap Consumers : seen[r][n].secret # 0}

(* The row's place in the baseline: a declared, live row it never saw.      *)
NotYetRecorded(r, n) ==
    n \in Consumers /\ seen[r][n].secret # 0 /\ base[r][n].secret = 0

KeyChanged(r, n) == Recorded(base[r], n) /\ base[r][n].key # seen[r][n].key

Compared(r, n) ==
    /\ seen[r][n].quality # "cached"
    /\ Recorded(base[r], n) /\ ~KeyChanged(r, n)

(* The fingerprints of a compared row, place by place: one that differs,    *)
(* one the record lacked, or one the answer lacks.  Where both lack it,     *)
(* nothing changed.                                                         *)
SecretChanges(r) ==
    {n \in opt[r].scope \cap Consumers :
        /\ Compared(r, n)
        /\ seen[r][n].secret # 0 /\ base[r][n].secret # 0
        /\ Shown(seen[r][n]) # base[r][n]}

Unsealed(r, n) == seen[r][n].quality = "unsealed" /\ seen[r][n].secret # 0

Complete(r) ==
    /\ base[r] # NoFile
    /\ \A n \in opt[r].scope :
        Compared(r, n) /\ ~Unsealed(r, n) /\ ~NotYetRecorded(r, n)

Invalidated(r) ==
    opt[r].read /\
        \/ base[r] = NoFile
        \/ \E n \in opt[r].scope :
            /\ seen[r][n].quality # "cached" /\ Recorded(base[r], n)
            /\ KeyChanged(r, n) \/ Unsealed(r, n)

AnyKeyChanged(r) ==
    \E n \in opt[r].scope : seen[r][n].quality # "cached" /\ KeyChanged(r, n)

Verified(r) ==
    opt[r].export => ~AnyKeyChanged(r) /\ (Uncompared(r) = {} \/ Complete(r))

Masked(r) == \E n \in Uncompared(r) : seen[r][n].quality = "masked"
-----------------------------------------------------------------------------
(* main.rs cmd_diff.                                                        *)

Cached(r) == \E n \in opt[r].scope : seen[r][n].quality = "cached"

(* A masked ancestor hides what it contains.  The export strips the tag     *)
(* that shows a spec-owned row.                                             *)
Visible(r, n) ==
    CASE seen[r][n].plain = "buried" -> ~(opt[r].export /\ seen[r][n].quality = "masked" /\ seen[r][n].secret # 0)
      [] seen[r][n].plain = "conflict" -> ~opt[r].export /\ seen[r][n].quality # "cached"
      [] OTHER -> seen[r][n].plain # "same"

(* Rows whose secret, or absence, shows as an ordinary difference.          *)
SecretDiffers(r, n) ==
    /\ n \in Consumers
    /\ \/ seen[r][n].secret = 0
       \/ ~opt[r].export /\ opt[r].bundle /\ seen[r][n].secret # desired[r][n]

Found(r) == {seen[r][n].plain : n \in {m \in opt[r].scope : Visible(r, m)}}
Diffs(r) ==
    (Found(r) \cap {"modified", "buried", "missing", "prunable"}) # {}
    \/ \E n \in opt[r].scope : SecretDiffers(r, n)

Alerted(r, c) == c \notin opt[r].muted

HasDrift(r) ==
    \/ /\ Alerted(r, "managed_modified")
       /\ \/ Found(r) \cap {"modified", "buried", "missing"} # {}
          \/ \E n \in opt[r].scope : SecretDiffers(r, n)
          \/ SecretChanges(r) # {}
    \/ Alerted(r, "managed_deleted") /\ "prunable" \in Found(r)
    \/ Alerted(r, "unmanaged_added") /\ "unmanaged" \in Found(r)
    \/ "conflict" \in Found(r)

\* mutant: a secret change alone does not stop the record
Refused_DiffsOnly(r) == opt[r].write /\ ~opt[r].force /\ Diffs(r)

Refused(r) == opt[r].write /\ ~opt[r].force /\ (Diffs(r) \/ SecretChanges(r) # {})

(* verdict.rs DiffExit, then what cmd_diff makes of it.                     *)

\* mutant: the accept flag covers masked ancestors
Outcome_AcceptsMasked(r) ==
    IF HasDrift(r) THEN "drift"
    ELSE IF opt[r].accept THEN "insync"
    ELSE IF opt[r].export /\ Masked(r) THEN "masked"
    ELSE IF Verified(r) THEN "insync"
    ELSE IF Invalidated(r) THEN "invalidated" ELSE "unverified"

Outcome(r) ==
    IF HasDrift(r) THEN "drift"
    ELSE IF opt[r].export /\ Masked(r) THEN "masked"
    ELSE IF Verified(r) \/ opt[r].accept THEN "insync"
    ELSE IF Invalidated(r) THEN "invalidated" ELSE "unverified"

Code(r) ==
    IF ~opt[r].exitOnDrift THEN IF Refused(r) THEN 1 ELSE 0
    ELSE IF Outcome(r) = "drift" THEN 2
    ELSE IF Outcome(r) \in {"masked", "invalidated"} \/ Refused(r) THEN 1
    ELSE IF Outcome(r) = "insync" THEN 0 ELSE 6

(* The JSON document's in_sync ignores what is muted or accepted.           *)
InSync(r) ==
    /\ ~Diffs(r) /\ Found(r) \cap {"unmanaged", "conflict"} = {}
    /\ SecretChanges(r) = {} /\ Verified(r) /\ ~(opt[r].export /\ Masked(r)) /\ ~Cached(r)
-----------------------------------------------------------------------------
ExportOnly(o) == o.read \/ o.write \/ o.force \/ o.accept

(* The baseline is read before the gateway is.                              *)
Start(r) ==
    \E o \in Options :
        /\ pc[r] = "start"
        /\ opt' = [opt EXCEPT ![r] = o]
        /\ IF ~o.export /\ ExportOnly(o)
           THEN /\ exit' = [exit EXCEPT ![r] = 1] /\ pc' = [pc EXCEPT ![r] = "done"]
                /\ UNCHANGED <<base, desired>>
           ELSE /\ base' = [base EXCEPT ![r] = IF o.read THEN file ELSE NoFile]
                /\ desired' = [desired EXCEPT ![r] = want]
                /\ pc' = [pc EXCEPT ![r] = "read"] /\ UNCHANGED exit
        /\ UNCHANGED <<world, file, seen, held, wrote, inSync, alarm>>

Answer(n, q) ==
    LET row == IF q = "cached" THEN cache[n] ELSE live[n]
    IN  [quality |-> q, key |-> key, secret |-> row.secret, plain |-> row.plain]

Read(r) ==
    \E n \in opt[r].scope, q \in Quality :
        /\ pc[r] = "read" /\ seen[r][n] = NotRead
        /\ q \in {"unsealed", "masked"} => n \in Consumers /\ opt[r].export
        /\ seen' = [seen EXCEPT ![r][n] = Answer(n, q)]
        /\ pc' = [pc EXCEPT ![r] =
            IF \A m \in opt[r].scope \ {n} : seen[r][m] # NotRead THEN "conclude" ELSE "read"]
        /\ UNCHANGED <<world, file, opt, base, desired, held, wrote, exit, inSync, alarm>>

End(r, code) ==
    /\ exit' = [exit EXCEPT ![r] = code]
    /\ pc' = [pc EXCEPT ![r] = "done"]

ReadFails(r) ==
    /\ pc[r] = "read" /\ End(r, 1)
    /\ UNCHANGED <<world, file, opt, base, desired, seen, held, wrote, inSync, alarm>>

(* A cached answer ends a run that must decide, or record, there and then.  *)
RefuseCached(r) ==
    /\ pc[r] = "conclude" /\ Cached(r)
    /\ opt[r].exitOnDrift \/ opt[r].write
    /\ End(r, 1)
    /\ UNCHANGED <<world, file, opt, base, desired, seen, held, wrote, inSync, alarm>>

(* An alarm is of a secret that still differs from what the baseline says   *)
(* when the run reports it; no version is what a blank says.                *)
Alarming(r) == {n \in SecretChanges(r) : live[n].secret # base[r][n].secret}

Report(r) ==
    /\ inSync' = [inSync EXCEPT ![r] = InSync(r)]
    /\ alarm' = alarm \cup Alarming(r)

(* The end of a run that does not record.  An empty selection is an error   *)
(* that comes after the record and before the verdict.                      *)
Conclude(r) ==
    /\ pc[r] = "conclude"
    /\ ~(Cached(r) /\ (opt[r].exitOnDrift \/ opt[r].write))
    /\ ~opt[r].write \/ Refused(r)
    /\ Report(r)
    /\ \E empty \in BOOLEAN : End(r, IF empty THEN 1 ELSE Code(r))
    /\ UNCHANGED <<world, file, opt, base, desired, seen, held, wrote>>

(* Recording reads the file again, and replaces the entries of the          *)
(* namespaces it exported.                                                  *)
LoadExisting(r) ==
    /\ pc[r] = "conclude" /\ ~Cached(r) /\ opt[r].write /\ ~Refused(r)
    /\ held' = [held EXCEPT ![r] = file]
    /\ pc' = [pc EXCEPT ![r] = "rename"]
    /\ UNCHANGED <<world, file, opt, base, desired, seen, wrote, exit, inSync, alarm>>

Record(r) ==
    [n \in Namespace |->
        CASE n \in opt[r].scope -> Shown(seen[r][n])
          [] Recorded(held[r], n) /\ n \notin opt[r].scope -> held[r][n]
          [] OTHER -> NoEntry]

(* A record ends the alarms of the entries it changes: the next check is    *)
(* measured by what it wrote.  One that writes what was there ends none.    *)
Rename(r) ==
    /\ pc[r] = "rename"
    /\ file' = Record(r)
    /\ wrote' = [wrote EXCEPT ![r] = TRUE]
    /\ inSync' = [inSync EXCEPT ![r] = InSync(r)]
    /\ alarm' = {n \in alarm : n \in opt[r].scope => Record(r)[n] = file[n]}
    /\ \E empty \in BOOLEAN : End(r, IF empty THEN 1 ELSE Code(r))
    /\ UNCHANGED <<world, opt, base, desired, seen, held>>

(* The next scheduled check; the runner keeps nothing of the last.          *)
Again(r) ==
    /\ pc[r] = "done"
    /\ pc' = [pc EXCEPT ![r] = "start"] /\ opt' = [opt EXCEPT ![r] = NoOption]
    /\ base' = [base EXCEPT ![r] = NoFile] /\ held' = [held EXCEPT ![r] = NoFile]
    /\ desired' = [desired EXCEPT ![r] = [n \in Namespace |-> 1]]
    /\ seen' = [seen EXCEPT ![r] = [n \in Namespace |-> NotRead]]
    /\ wrote' = [wrote EXCEPT ![r] = FALSE] /\ exit' = [exit EXCEPT ![r] = -1]
    /\ inSync' = [inSync EXCEPT ![r] = FALSE]
    /\ UNCHANGED <<world, file, alarm>>

Next ==
    \/ \E n \in Namespace : Tamper(n)
    \/ \E n \in Namespace, p \in Plain : Drift(n, p)
    \/ \E n \in Namespace : Reconcile(n)
    \/ RotateKey
    \/ \E r \in Run : Start(r)
    \/ \E r \in Run : Read(r)
    \/ \E r \in Run : ReadFails(r)
    \/ \E r \in Run : RefuseCached(r)
    \/ \E r \in Run : Conclude(r)
    \/ \E r \in Run : LoadExisting(r)
    \/ \E r \in Run : Rename(r)
    \/ \E r \in Run : Again(r)

Spec == Init /\ [][Next]_vars
-----------------------------------------------------------------------------
(* Properties.                                                              *)

Decided(r) == pc[r] = "done" /\ opt[r].exitOnDrift

(* What really differs, alerted on, in the answer a run read: whatever the  *)
(* check could or could not see of it.                                      *)
Differs(r, n) ==
    CASE seen[r][n].plain \in {"modified", "buried", "missing"} -> Alerted(r, "managed_modified")
      [] seen[r][n].plain = "prunable" -> Alerted(r, "managed_deleted")
      [] seen[r][n].plain = "unmanaged" -> Alerted(r, "unmanaged_added")
      [] seen[r][n].plain = "conflict" -> ~opt[r].export
      [] OTHER -> FALSE

(* The entry of an answer that carries the secret's own fingerprint.        *)
Sealed(a) == [key |-> a.key, secret |-> a.secret, at |-> "itself"]

(* A check that ends with 0, and was not told to accept unverified secrets, *)
(* read every namespace from the database, nothing it alerts on differs,    *)
(* not even inside a value the export hid, and every declared secret is the *)
(* one its baseline recorded under the same key (or, from a backup, the one *)
(* the bundle resolves).                                                    *)
ZeroIsEarned ==
    \A r \in Run : (Decided(r) /\ exit[r] = 0) =>
        \A n \in opt[r].scope :
            /\ seen[r][n].quality # "cached"
            /\ ~Differs(r, n)
            /\ (n \in Consumers /\ Alerted(r, "managed_modified")) =>
                IF opt[r].export
                THEN opt[r].accept \/
                     /\ Recorded(base[r], n)
                     /\ base[r][n] = Sealed(seen[r][n])
                ELSE opt[r].bundle => seen[r][n].secret = desired[r][n]

(* A run whose answers were all fresh and show a difference it alerts on    *)
(* ends with 2 (or the empty-selection error): neither unverified secrets,  *)
(* an accepting flag nor a refused record turns it into anything else.      *)
DriftIsReported ==
    \A r \in Run : (Decided(r) /\ exit[r] \in {0, 6}) =>
        \A n \in opt[r].scope :
            /\ Differs(r, n) => seen[r][n].plain = "buried" /\ seen[r][n].quality = "masked"
            /\ seen[r][n].secret = 0 => ~Alerted(r, "managed_modified") \/ n \notin Consumers

(* An answer from the gateway's cache supports neither result and is never  *)
(* recorded.                                                                *)
CachedDecidesNothing ==
    \A r \in Run : pc[r] = "done" /\ (\E n \in opt[r].scope :
                        seen[r][n] # NotRead /\ seen[r][n].quality = "cached")
        => (opt[r].exitOnDrift => exit[r] = 1) /\ ~inSync[r] /\ ~wrote[r]

(* Six says only that no baseline was given or that it has not seen a       *)
(* namespace or a resource yet; a baseline that failed to verify what it    *)
(* recorded is a failed check.                                              *)
SixIsIncremental ==
    \A r \in Run : (Decided(r) /\ exit[r] = 6 /\ opt[r].read) =>
        /\ base[r] # NoFile
        /\ \A n \in opt[r].scope : base[r][n] # NoEntry =>
            /\ base[r][n].key = seen[r][n].key
            /\ ~(n \in Consumers /\ seen[r][n].secret # 0 /\ seen[r][n].quality = "unsealed")

(* A run asked to record that ends with 0 or 6 has recorded what it read.   *)
RecordedOrRefused ==
    \A r \in Run : (pc[r] = "done" /\ opt[r].write /\ exit[r] \in {0, 6}) => wrote[r]

(* The JSON document says "in sync" only of an answer in which nothing      *)
(* differs, muted or not, and in which every secret was verified.           *)
InSyncIsWhole ==
    \A r \in Run : (pc[r] = "done" /\ inSync[r]) =>
        \A n \in opt[r].scope :
            /\ seen[r][n].quality \in {"good", "unsealed"}
            /\ seen[r][n].plain \in {"same"} \cup (IF opt[r].export THEN {"conflict"} ELSE {})
            /\ (n \in Consumers /\ opt[r].export) =>
                /\ seen[r][n].quality = "good" /\ Recorded(base[r], n)
                /\ base[r][n] = Sealed(seen[r][n])

(* Once a changed secret was reported, every check that reads the baseline  *)
(* and alerts on it keeps failing until the namespace is reconciled or a    *)
(* record changes its entry: whether the answer carries the fingerprint, or *)
(* lacks it as the baseline may, and also after a record that went through  *)
(* because both lacked it.                                                  *)
AlarmPersists ==
    \A r \in Run : (/\ Decided(r) /\ opt[r].read /\ ~opt[r].accept
                    /\ Alerted(r, "managed_modified")
                    /\ alarm \cap opt[r].scope # {}) => exit[r] \notin {0, 6}

(* Recording changes what the baseline says of an alarmed secret only when  *)
(* forced, when the run compared with no baseline, or when the gateway's    *)
(* key changed; nothing but an apply ends the alarm otherwise.  A record of *)
(* an answer without the fingerprint is not refused where the baseline has  *)
(* none either: it must leave the entry, and the alarm, as they were.       *)
AlarmsEndKnowingly ==
    [][\A n \in alarm \ alarm' :
          \/ live'[n] = [secret |-> want'[n], plain |-> "same"]
          \/ \E r \in Run : /\ pc[r] = "rename" /\ pc'[r] = "done"
                            /\ \/ opt[r].force \/ ~opt[r].read
                               \/ file[n].key # seen[r][n].key]_vars

(* A namespace recorded in the file keeps an entry there.                   *)
EntriesAreKept ==
    [][\A n \in Namespace : Recorded(file, n) => Recorded(file', n)]_vars

(* The exit code of a drift check: zero only of an answer in which nothing *)
(* differs and every secret was verified, six only where a baseline has    *)
(* not seen a resource yet, and neither while a reported change of a       *)
(* secret stands.                                                          *)
VerdictsAreEarned ==
    /\ TypeOK /\ ZeroIsEarned /\ DriftIsReported /\ CachedDecidesNothing
    /\ SixIsIncremental /\ RecordedOrRefused /\ InSyncIsWhole
ExitCodesAreEarned == VerdictsAreEarned /\ AlarmPersists

(* Once a changed secret was reported, only an apply, or a record that is  *)
(* forced, under another key or without a baseline, changes what the next  *)
(* check is measured by; and what the baseline recorded of a namespace is  *)
(* never dropped.                                                          *)
AlarmsAreKept == AlarmsEndKnowingly /\ EntriesAreKept

=============================================================================
