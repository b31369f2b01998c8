# Verification of gitforgeops

TLA+ modules, TLC configurations and TLAPS proofs for `gitforgeops`, the tool
that keeps Ferrum Edge gateways in step with a Git repository. Paths below are
relative to the repository; `src/...` is its Rust source.

Contents: the system and its parts, how the project is laid out, the modules
and how they correspond to the code, the runs, what is proved, what is not
modelled.

## 1. The system

A repository declares resources (proxies, consumers, upstreams, plugin configs,
mesh fragments) per gateway namespace. On a merge a workflow runs
`gitforgeops apply`, which reads what the gateway has, works out a plan, writes
it through the gateway's admin API (or publishes files), and records in
`.state/<env>.json` which resources it manages. The workflow commits that file,
verifies traffic, and leaves a record that lets the next environment follow.
The gateway has other writers: administrators, and an importer that provisions
rows from API specs.

| Part | State | Operations | Talks to | Correct when |
|---|---|---|---|---|
| Ownership ledger (`src/state.rs`, `src/reconcile.rs`) | managed keys, pending creates, credentials' ids, overrides, mesh publication, lock file | load, reserve, record, reconcile, rebuild, save under a lock | apply, workflow | nothing the repository does not own is ever in the delete fence; nothing it created is ever forgotten |
| Plan (`src/diff/resource_diff.rs`) | none | adds, updates, deletes; prune guard | ledger, backup | deletes stay inside the fence and under the threshold |
| Incremental apply (`src/apply/api_target.rs`, `cmd_apply` in `src/main.rs`) | the plan, what landed, what failed, freshness evidence | backup, journal, create, batch, update, delete, adopt, record | gateway, ledger | no edit is reverted unseen, spec-owned rows are left alone, deletes wait for writes, a run converges |
| Full-replace apply (`src/apply/api_target.rs`, `src/http_client/conditional.rs`) | snapshots with their tokens, prepared bodies | read every namespace, prepare, restore one after the other | gateway, ledger | a replacement looks atomic to everybody else |
| Admin client (`src/http_client.rs`) | retry schedule, cached token | send with retry, list by pages, batch | gateway | what is retried is safe to retry; what is reported is so; a listing is complete |
| Credential broker (`src/secrets/`) | shards, bundle in GitHub secrets | resolve, allocate, deliver, rotate | GitHub, ledger | no credential is generated and then lost, delivered and not stored, or issued to somebody else |
| Policy and overrides (`src/policy/`) | none | check rules, check an override's authority | GitHub | an override authorises exactly what was reviewed |
| Assembly (`src/config/`) | none | overlay, merge, normalise, select | files | what is desired depends on the repository only |
| Plan, review, drift (`src/verdict.rs`, `src/review/`, `cmd_diff`) | baseline of fingerprints | decide, comment, alarm | gateway, GitHub | the commands decide alike; an exit code means what it says |
| Validation (`src/validate/`) | child processes | run the gateway's validator per document | the validator | a verdict is of the whole document; nothing hangs |
| File mode, mesh publication (`src/apply/file_target.rs`) | output files, publication record, lock | publish, retract | file system | a crash leaves the old document or the new one |
| Verify (`src/verify/`) | probe bindings, record | bind, hand over, check, record | data plane | a promotion is earned by this deployment |
| Import (`src/import/`) | staging tree, private bundle | read, gate, redact, stage, publish | gateway, files | the tree and its bundle hold all of it, the tree no secret |
| Workflows (`.github/`) | ledger on the default branch, promotion records | queue, supersede, apply, push, verify, promote, rotate | GitHub | one run per environment; nothing is rolled back; the ledger is not lost |

What is hard here is not in one function. A run is long (a backup, a call to a
secret store, many writes) and others write meanwhile; the gateway's answer to
a write may be lost, be late, or be a refusal of one's own retry; the process
may die anywhere and its ledger file may or may not reach the default branch;
the next run works from whatever was left. Decisions are made from evidence
that takes several requests to read, by three commands in three orders.
`PROJECT.json` lists these hazards with the line where each bites and the
properties that watch it.

## 2. How the project is laid out

What can destroy somebody's configuration comes first.

1. `Ledger`, `ResourceDiff`, `Apply`: the incremental apply against a gateway
   with other writers, with crashes, lost runners and lost answers. Proofs of
   the delete fence, of the freshness of every write, of the journal, and of
   what a run may delete and when.
2. `Shards`, `CredentialBroker`, and `SlotNames`, `SlotIdentity`: where
   credentials live, how they are delivered, and whose they are. Proofs of
   placement, capacity and of the hand-over before service.
3. The other ways a run writes: `FullReplace` against the abstract
   `Replacement`, `PluginAssociations`, `BatchCreate`; and under all of them one
   call, `AdminRequest`, and one listing, `NamespaceListing` (all with proofs).
4. What decides: `Gates`, `PolicyOverride`, `DriftCheck` (all with proofs).
5. What feeds a run and what follows it: `Import`, `Assembly`, `Validator`,
   `FilePublication`, `Verify`, and around everything `Deployment` (all with
   proofs).

A component has a module; an `MC` module gives small instances. Most `MC`
modules hold several instances side by side: a variable `part` says which one a
behaviour is of, the others rest in one of their initial states, and a property
speaks of its part. One run then answers related questions, and the states
explored are the sum of the parts', not their product. A property of a run is
mostly a conjunction of properties defined and commented in the component's
module. The mutant of a property, in `PROJECT.json`, changes one definition of
the model the way a plausible bug would change the code.

## 3. The modules

| Module | Models |
|---|---|
| `Ledger` | the ledger as a value: `ReserveAdds`, `ReconcilePending`, `ReconcileAbsent`, `RecordOps`, `RecordFullReplace`, `ResolvedNamespaces` |
| `ResourceDiff` (extends `Ledger`) | the plan: `Diff`, `PendingAssertions`, `AdoptionCandidates`, spec conflicts, prune guard |
| `Apply` (extends `ResourceDiff`) | the incremental run, the gateway, its other writers, crash and loss |
| `BatchCreate` | `try_batch_create`, `split_batch`, `batch_dependency_groups`: bulk creates |
| `PluginAssociations` | plugin writes beside the proxies that name a plugin |
| `Replacement` | what a full replacement promises, as one step per namespace |
| `FullReplace` (extends `Ledger`, implements `Replacement`) | snapshots, prepared bodies, conditional restores, record |
| `AdminRequest` | one call: `token_at`, `send_with_retry`, `classify_retry`, and what the caller is told |
| `NamespaceListing` | `list_namespaces` over pages that move |
| `Shards` | the bundle secrets as a value: where a slot lives, the merge, `ReserveShard` |
| `CredentialBroker` (extends `Shards`, instantiates `Ledger`) | runs of `apply` and `rotate` seen from the credentials |
| `SlotNames`, `SlotIdentity` (extends it) | how a credential leaf is named, its older spellings, and resolution while arrays are edited |
| `PolicyOverride` | `check_override_at`, `verify_input`, and the gates an override clears |
| `Gates` | the refusals of plan, review and apply, each in its own order; the review comment |
| `DriftCheck` | `cmd_diff` with either credential, its baseline and its exit codes |
| `Import`, `Assembly`, `Validator` | `cmd_import`; the loader and assembler; the supervised validator |
| `FilePublication` | `cmd_apply` and `cmd_export` in file mode, the mesh publication, the state lock |
| `Verify` | the binding of probes, the bundle handed over, the smoke checks, the record |
| `Deployment` | `apply-on-merge.yml`, `rotate.yml` and their scripts |
| `ApplyProofs`, `CredentialProofs`, `DeploymentProofs` | lemmas and theorems about the module they extend |
| `ImportProofs` | the same about `Import`, and about `Assembly` (instance `A`) |
| `FullReplaceProofs` | the same about `FullReplace`, and about `PluginAssociations` (instance `A`) |
| `RequestProofs` | the same about `AdminRequest`, and about `Verify` (instance `W`), `NamespaceListing` (`N`) and `BatchCreate` (`B`) |
| `FileProofs` | the same about `FilePublication`, and about `Validator` (instance `V`) |
| `DecisionProofs` | the same about `DriftCheck`, `Gates` (instance `G`) and `PolicyOverride` (instance `O`) |

### State of the incremental apply

`Apply` keeps three ledgers apart, because their differences are what a crash
exposes: `mem` (the process), `disk` (the file in the runner's work tree) and
`committed` (the default branch). The gateway is `live` (its rows) and
`landing` (creates that timed out at the client and may still commit). The run
has its view (`desired`, `nss`, `plan`, `blocked`), its position (`pc`, `left`,
`cur`, `todo`, `op`), its results (`applied`, `bad`, `failed`, `stale`) and its
freshness evidence: `tag` says that the tag read for the row of `op` still
names the stored version, `evidence` holds the consumers whose row is the one
captured at planning, `confirmed` the adoption candidates the confirmation
backup bore out. `origin`, `claimed`, `forgotten` and `calm` are history for
the properties; no action of the run reads them.

A row's content is one value. `Norm` is what `/backup` makes of it: a row
stored before a normalization rule was introduced reads differently through
`GET` and through `/backup`, and the code compares both forms at different
places, so the model keeps both. `Carried` is the subset test the readback
uses: the stored row has every field that was sent.

### State of the credential broker

`secrets` is what GitHub holds, write-only for the code and visible to the next
run as its loaded bundle; `shards` is the copy a run loaded and has updated
with what GitHub confirmed (`per_shard`). A batch is `plan` (the shard of each
slot), `fresh` (the values) and `out` (the slots whose PUT was confirmed:
`outcome.allocated`). The three ledgers are as in `Apply`; their keys are
handled by `Ledger`'s operators, and `meta` is `credentials`. A value is its
place in the order of generation. That order serves as the clock too: a record
is dated by the value it describes and `applied` by the last value generated
before the apply ended, which is all `from_state` compares. `revision` and
`author` are what `AllocationBinding` captures. `surfaced`, `lost`,
`untracked`, `retired`, `unrecorded` and `born` are history.

### Actions and code

| Actions | Code |
|---|---|
| `Apply`: `Begin`, `ReadBackup`, `Reconcile`, `Refuse`, `Journal` | `cmd_apply`: lock, load, backups, preflight, reconcile and save, prune guard, reserve and save |
| `Abort` | every early return of `cmd_apply` before the first write |
| `SkipBlocked`, `StartNamespace`, `EndNamespaces` | the loop of `apply_prepared` and the ordering part of `apply_incremental` |
| `Defer`, `Withhold` | the withheld and deferred operations of `apply_incremental` |
| `Create*`, `Readback`, `Verify*`, `Assert*` | `create_with_reconciliation` |
| `ReadRow`, `ReadFails`, `Confirm`, `Write*`, `Replay` | `Preconditions` and the conditional client calls, with the retry that meets its own commit |
| `StartAdoption`, `ReadCandidate`, `Claim*`, `Adopt*` | `adopt_matching_rows` |
| `WriteStopsRun`, `Stop` | `is_fatal` |
| `Record`, `Publish` | `record_op` for what landed, save; the workflow's commit of the file |
| `Crash`, `Lose` | the process dies and the file is committed all the same; the job is cancelled or the runner lost and the file goes with it |
| `AdminPut`, `AdminDelete`, `SpecImport`, `LateCommit` | external: the gateway's other writers, and its own late commits |
| `CredentialBroker`: `BeginApply`, `Refused`, `Revived`, `Orphaned` | `cmd_apply` up to its first write; `check_consumer_ledger`, `enforce_slot_remap_policy` |
| `BeginRotate` | the preflights of `cmd_rotate` and `PreparedConsumerRotation::prepare` |
| `PlanSlot`, `PutStored`, `PutFails` | the two phases of `allocate_and_deliver_at`, and `rotate_and_deliver_at` as a batch of one slot |
| `Journal`, `JournalFails`, `Surface` | `journal_allocation`, then `surface_delivered_credentials`, in `allocate_if_needed` and `cmd_apply`; in a rotation the printed blob |
| `ReserveAdds`, `PushOp`, `PushOpFails`, `Record` | the apply proper and its record, one step per row |
| `PublishRow`, `PublishRowFails` | `PreparedConsumerRotation::publish` and the `match push_status` of `cmd_rotate` |
| `EndRun`, `LoseRun`, `Crash` | the workflows' commit of the ledger file, or its loss |
| `Merge`, `Retire`, `AdminEdit` | the repository moves on; an operator edits a secret; an administrator edits a row |
| `FullReplace`: `ReadNamespace`, `Prepare`, `Restore*`, `Record` | `prepare_apply`, `apply_prepared`, `post_restore` with each of its answers, the rebuild of the ledger |

The other modules name the functions they translate in their header, and
`PROJECT.json` maps every definition to its lines. Each network call is a step
of its own, so another writer can act between any two of them. An action takes
the whole handler up to the next call.

### Abstractions

Of the applies (`Apply`, `CredentialBroker`):

- Runs are serial. The workflow has one concurrency group per environment with
  `cancel-in-progress: false`, and the state file is locked (`Deployment` and
  `FilePublication` model both).
- A request of one run is resolved before the next run starts. It may be
  resolved at any time while its own run goes on, or between two runs.
- The gateway honours `If-Match`, refuses a create under a taken id, and shows
  a row it holds in an uncached backup.
- Creates go out one at a time. A namespace that has only adds is sent as
  batches; a batch that commits is, for the ledger, the same as its creates in
  a row, and what differs is in `BatchCreate`. Likewise the proxy and plugin
  rewrites of one run are in `PluginAssociations`.
- Namespaces, and operations of one rank, go in any order; the code uses one
  order. This allows more behaviours than the code has.
- An earlier confirmation backup may be reused by the code when it shows the
  version just read. The verdict differs from a fresh backup only when the row
  changed since, and then the conditional write is refused.
- For a consumer the code reads its complete row at planning and compares
  all of it later; `evidence` is the outcome of that comparison.
- Documents and the writes of others are in normal form (`NormalFormAssumption`);
  a legacy row exists only in an initial view and is not a consumer's.
- In `CredentialBroker`, a push is one step per row with the outcomes `Apply`
  details: accepted, refused, or failed before or after the gateway took it.
  Merges come between runs, because a run reads its checkout once and the
  freshness guard stops a run whose revision is no longer the head; retirements
  come at any time. A Consumer has one `alloc=generate` slot of a directly
  comparable type and a namespace of its own, so a refused namespace is a
  refused slot. `Withheld` is the refusal of an ownership assertion whose row
  moved (`refuse_consumer_claim`), which fails the run: without it a run could
  be recorded as clean while it owns less than it declares, and the value it
  allocated would be refused as revived. Slots weigh one unit each. A
  recipient without a key is a failure before the first PUT.
  `--allow-credential-slot-remap` is the mode `remap`, and `partial` is a run
  with a namespace filter that is not the environment's.
- The policy check between plan and write can only make a run give up, which is
  `Abort`.

Of the other modules:

- `AdminRequest`: what stands between the client and the gateway may answer for
  it before, after or while a write commits; time is counted in ticks, and a
  wall clock may be set. `NamespaceListing`: the gateway may ignore an offset.
- `FullReplace`: content, API-spec owner and unknown fields of a row are three
  values. What others write outside a run is seen by the next run as if it came
  before that run's first read.
- `BatchCreate`, `PluginAssociations`: one namespace, one run. The gateway
  executes a body as one transaction, and keeps the associations in step with a
  plugin's scope by itself.
- `SlotIdentity`: between two applies one owner's array changes in one place.
  Values are distinct whenever they are issued apart.
- `Import`: one importer. The migration bundle has one path per destination, so
  the second of two importers into one destination replaces the first's bundle
  before its own re-check of the destination refuses it. Path arithmetic is the
  choice of inside or outside.
- `Gates`: the world does not change between the commands, and all three have
  the same bundle; writing the step summary may fail. `DriftCheck`: checks do not
  overlap, a fingerprint is its key, the version it covers and its place (at the
  secret or at a value around it), and an export does not show who owns a row.
  An answer without the hidden fingerprint is recorded as one (`Blank`): the
  baseline then holds the row and no fingerprint.
- `PolicyOverride`: the checkout is the run's own. Every request of the evidence
  is a step; people act on the pull request in between.
- `Validator`: the child may write, fork, close its pipes, exit or do nothing.
  A reader may die, or fail and report what it had; a failed poll ends the
  validation and leaves the child running, as the code does.
  Reuse of process ids, a `/bin/sh` that lives on, and a SIGKILL of the tool
  itself are left out.
- `FilePublication`: runs share one machine. Rendering is a count of resources
  and fragments by namespace; a write is whole unless the destination is not a
  regular file.
- `Verify`: an attempt takes any time up to its timeout and the scheduler may
  add some. `RefusedBeforeChange` is about the smoke file as it was at the
  apply, with its slots bound and without ad-hoc filters.
- `Deployment`: a commit is its deployment inputs and, per environment, what its
  ledger records. GitHub keeps one running and one pending job per group
  (external, as its documentation says). History is never rewritten; the
  environment's approval is part of `Start`; a step that was not run counts as
  skipped; `MaxPushes` is 2 where the script tries 5 times.

## 4. The runs

| Run | Instances | Question |
|---|---|---|
| `shared` (`MCApply`) | a proxy and a consumer, one spec, 2 writes by others, 2 faults, the proxy's row possibly there already in a legacy form | the fence, the journal and the preconditions in shared mode |
| `exclusive` (`MCEnvironments`) | *exclusive*: a proxy and the plugin it names, both there already, two specs, spec pruning confirmed, threshold 50 %, 2 writes, 2 faults; *scoped*: two namespaces, three keys, one row possibly there in a legacy form, a namespace filter, 1 write, 1 fault | prunes and takeovers; a run that reads one namespace concludes nothing about the other |
| `converges` (`MCConvergence`) | *apply* as `shared` without specs, 1 write, 1 fault; *broker*: two slots, six values, one rotation, one fault; *deploy*: two triggers, a re-run; *files*: two runs and a crash; *validate*: one attempt | liveness |
| `broker` (`MCCredentialBroker`) | *allocate*: two slots whose hashes collide, two secrets of one slot each, three values, one fault; *rotate*: secrets of two slots, one rotation, two faults; *retire*: one id, four revisions, three recipients, two faults, strict, filtered and remap-accepting runs; *adopt*: one slot whose row an administrator may move, three faults | placement, hand-over, rotation, reuse of an id, adoption |
| `requests` (`MCAdminRequest`) | *call*: three attempts; *clocks*: two scopes, six ticks, one set of the clock; *listing*: five namespaces, pages of two | what a retry may repeat and what an answer proves |
| `writes` (`MCWrites`) | *replace*: two namespaces, an API spec, two changes by others; *batch*: a consumer, two plugins and the two proxies that use them, cyclic or not, one other writer; *plugins*: two plugins of every scope, two proxies, one change, one fault | the ways to write beside single operations |
| `configuration` (`MCConfiguration`) | *import*: nine resources, one per way a name or a gate can go wrong, two namespaces; *assembly*: four of twelve files, two of nine overlays; *slots*, *aliases*: arrays of up to four entries, two owners; *override*: two people, two revisions, lists of up to three pages of two, two changes | where the configuration comes from, and what may let a blocked one through |
| `decisions` (`MCDecisions`) | *gates*: every set of facts, mode and pull-request state; *drift*: two namespaces, every combination of flags, two keys, two changes | what decides |
| `publish` (`MCPublish`) | *verify*: seven smoke files; *files*: two runs whose mesh path may name the gateway's file; *linked*: a destination that is a link; *validate*: an empty document, and a namespace with a mesh | what a change passes on its way to promotion |
| `deploy` (`MCDeployment`) | *promotion*: two runs, a re-run, staging and production; *queue*: three runs of one environment among merges, a ledger edit, a cancellation | the workflows |
| `absent` (`MCApply`), a violation | one fault | what an absent row proves |
| `stranded` (`MCDeployment`), a violation | the queue | what replaces a cancelled apply |

The number of applies is not bounded: a run can begin whenever the process is
idle. `MaxChanges` and `MaxFaults` bound the writes of others and the faults.
Two faults reach the sequences that matter: an unanswered create and then a
crash; a lost ledger and then an unanswered retry; a committed write whose
retry is refused, and a failed read after it. Two writes of others reach a
change and its reversal, and a change followed by a takeover. Two keys give a
reference between a proxy and a plugin, an operation that fails before another,
and a prune share of one half; the third key of *scoped* gives a second
namespace.

The broker's runs are not bounded in number either; values, merges, rotations
and faults are (`MaxValue`, `MaxRevision`, `MaxRotations`, `MaxFaults`). Two
colliding slots in secrets of one slot exercise the staged copy, the probe and
the growth of the count; a third value is a retry or a rotation. Four revisions
are: declare, remove, declare for another recipient, and once more after a
failed run. Three faults are: the row is there before the Consumer, its first
run is cut off after the allocation, and the row moves while the retry adopts
it. Three attempts of a call are a loss, a refusal that may answer one's own
write, and an answer after both. Five names in pages of two give a page that
shifts over a boundary twice. Three queued runs are one running, one pending
and one that cancels the pending one.

Deadlock is checked in every run but `broker`, where a history ends when the
values have run out with slots still to fill; its liveness instance in
`converges` has enough values and is checked. A module whose bounds may be used
up has a resting step for that state alone (`Done`, `Rest`).

### Properties

Of the applies:

- `ManagedIsClaimed`, `DeletesOnlyClaimed` (shared mode): no ledger gives
  authority to delete under a key the gateway never acknowledged a repository
  write of, and no run deletes there. A journaled intent or an equal row is not
  ownership.
- `CreatesAreAccounted`: a row the repository created, or may still create, is
  in the saved ledger, whatever crashed. Two exceptions are in the code: rows a
  run forgets with a warning, and a ledger file that was lost.
- `NoLostEdit`: a row that is overwritten or deleted is at that moment the row
  of the plan.
- `SpecRowsAreSafe`: a row a spec owns at the write is only pruned, with the
  operator's confirmation and planned for that very spec.
- `DeletesComeLast` (`DeletesAwaitWrites`): a delete goes out only when every
  add and update of its namespace has landed.
- `PruneIsBounded`: what a run deletes stays within the
  threshold's share.
- `RunsConverge` (`CleanRunSettlesLedger`, `CalmRunConverges`,
  `DeclaredRowsAreManaged`): a successful run leaves no journal entry and no
  stale key; an undisturbed run succeeds and leaves its namespaces as declared
  and in the delete fence, so no history wedges an environment. The only rows
  left out of the fence are legacy rows in shared mode (see the disagreements
  below).
- `Heals`: once the repository settles and somebody keeps running apply, the
  gateway settles on the declared state.

Of the credentials:

- `OneShardPerSlot`, `SecretsFit` (`CapacityRespected`), `PutsAreSafe`
  (`PutsKeepOtherSlots`, `RetiredValuesStayRetired`): a value lives in one
  secret, no batch overfills a secret, a PUT, which replaces the whole secret,
  takes nothing away from the others, and the value of a Consumer that went
  never reaches a row again.
- `ServedValuesAreHeld`, `ValuesAreAccounted` (`SurfacedWasStored`,
  `RevivedHasCause`, `LedgerTracksServedValues`): what authenticates was handed
  to its recipient, what was handed over is stored, a stored value is refused
  only for a reason, so a failed run does not block its retry, and the record of
  a slot describes the value the gateway serves. The exceptions are those
  nothing could prevent: a crash between the two, and a PUT whose answer was
  lost.
- `IssuedToItsOwner`: nobody is issued a value stored for another Consumer,
  plugin type, entry or leaf, whatever was inserted, removed or re-typed, and in
  whatever older spelling it is stored; two leaves of a document share no name;
  what was applied resolves again.
- `Recovers`: once merges, rotations and faults are over, every declared
  Consumer is served what its slot holds, and owned.

Of the other writes:

- `AtMostOnce`: a call that is not safe to repeat takes effect once, however
  often it is sent. `ReportsAreTrue`: a refusal wrote nothing and nothing of it
  is on its way, a success is stored, what a read concludes was in the database
  at a moment of the call. `TokensAreCurrent`: every attempt carries a token of
  the scope the client has, with its margin of life left in elapsed time.
- `ListingIsComplete`: a listing that reports success names every namespace that
  was there all along when none was removed meanwhile, each once.
- `NoLostUpdate`, `RestoreIsWhole`: a replacement overwrites only what its run
  read, and implements `Replacement`: to everybody else it is one step per
  namespace that keeps API specs, their rows, the trust roots and unknown
  fields. It stops before the first restore for what it can know then, and
  after the first nobody can vouch for.
- `CreatesAreProven`: no create is sent again over one that may be on its way, a
  row is recorded only when it is there as declared, every planned row ends
  applied or in an error, and a new proxy is served neither without its new
  scoped plugins nor over a plugin that failed.
- `AssociationsAreKept`: a plugin is detached only from proxies the plan
  accounts for, and no proxy's list is written over what others made of it.

Of what decides:

- `CommandsAgree`: what plan calls a blocker stops apply before anything is
  changed, and nothing else does; review shows the verdict, once, or fails.
- `OverrideIsEarned`: the evidence of an override held at one moment, for the
  checkout that is applied; it covers no finding a reviewer could not see, and
  what it cleared is on record.
- `ExitCodesAreEarned`, `AlarmsAreKept`: a drift check exits 0 only if nothing
  differs and every secret was verified; a reported change of a secret fails
  every later check that alerts on it until an apply, or a record that changes
  its entry (forced, under another key, or made without a baseline). A record of
  an answer without the fingerprint, over an entry that has none either, is not
  refused by the code: nothing changed between the two. It writes what was
  there, so it ends no alarm: the next answer with the fingerprint is reported
  as added again, and one without it is never verified.

Of what feeds and follows a run:

- `ImportIsWhole`, `OthersSurvive`: tree and bundle hold whatever the source
  had, the tree no secret, the loader reads all of it back, and nothing that was
  there is overwritten, through crashes and retries.
- `DesiredIsDetermined`: which resources are desired does not depend on file
  names, nor what a mesh holds on the order of its fragments (the order of
  members without an identity may), an overlay changes what it addresses, normalisation is idempotent, and
  an imported bundle fits its shards.
- `DocumentsAreWhole`: a verdict is of the document, whole (unless a reader
  failed) and by the right namespaces, and leaves no spec file behind, nor does
  a refusal leave a process of the group; a regular destination never holds part
  of a document, and a linked one ends with all of it.
- `CompletedRunConverges`, `FilesAreOurs`: a completed run leaves destinations
  and ledger as declared, a withdrawn mesh included; no overlapping run loses
  what another recorded, narrows a document, or retracts what no run published.
- `VerificationIsHonest`: a promotion is authorised by this deployment's own
  result, asked with its own credentials; no request that may act twice is
  repeated, and the deadline covers the declared checks.
- `JobsAreGrounded` (`LedgerIsFresh`, `PromotedWasVerified`): a job works from
  the last job's ledger, unless that one's commit was lost; a promoted
  environment changes only to inputs its predecessor applied and was seen to
  serve in the same run.
- `NothingIsUndone` (`NeverRollsBack`, `PushKeepsOthers`, `GreenIsRecorded`): no
  apply goes back to an older commit, no ledger push undoes another's commit, a
  green job is on record.
- `QueueIsAccounted` (`Accounted`): when nothing runs any more, an environment
  that does not serve the head's inputs had a job of the commit that brought
  them, and it was not refused for being old.
- `EveryRunEnds`: whatever queues behind whatever, the triggered workflows end;
  a dead run's lock is freed; a validation ends.

### Fairness

`Apply` has weak fairness of `RunStep` (a started process is scheduled, and
every request of the client has a timeout) and of `LateCommit` (a request at
the gateway ends). It does not promise that anybody starts a run; `Heals` has
that as its premise. The broker has weak fairness of its `RunStep` for the same
reason, of starting an apply (the workflow's retry, or the operator who re-runs
what failed) and of retiring a slot a refusal names, which is what the refusal
asks of the operator; `OnlyRefused` restricts `Retire` to that. The workflows
have it of a runner taking the next step of a job, and of GitHub taking a job
from the queue; the files of a run's next step and of `RemoveLock`, the
operator who follows the message about a stale lock; the validation of the
supervisor's loop and of its clock, and of nothing the validator does. Faults,
cancellations and other writers have no fairness.

### Disagreements between the code and its words

Two are runs:

- **An absent row proves less than the comment says** (`absent`).
  `create_with_reconciliation` says that a backup without the row proves the
  create did not commit. A create whose answer timed out may still be handled
  when the backup is read. The journal keeps the late row accounted for
  (`CreatesAreAccounted` holds in the same state space), so what is wrong is
  the diagnosis.
- **A queued apply can be stranded** (`stranded`). The head of
  `apply-on-merge.yml` calls a queued apply un-strandable because whatever
  supersedes it leaves a replacement. A dispatched rotation shares the group,
  and so does an older apply that reaches it late: either cancels the queued
  apply of the newest inputs and deploys nothing in its place.

Others were met while modelling; the models do what the code does.

- Shared-mode adoption compares a row as stored, without asking a backup: a row
  in legacy form is a candidate of every run and adopted by none, although
  `docs/ownership.md:82-84` promises adoption. These are the only rows an
  undisturbed run leaves out of the delete fence (`DeclaredRowsAreManaged`).
- When a rotation cannot confirm its publication, the next apply pushes the
  value but records nothing about it; the message of `cmd_rotate` says it does.
- A conditional DELETE that met its own commit on a retry is reported as a stale
  plan, with "nothing was written".
- The mesh document is on disk before the ledger says so (`main.rs:1212`), so a
  crash between the two leaves a document nobody retracts; a failed export
  leaves one too (`main.rs:1586-1588`); and a document is attributed by its path
  alone (`file_target.rs:224-227`), hand-made or not.
- An override's audit row (`state.rs:836-838`) is missing when the run fails
  after it wrote.
- The scan for retired positions does not see a bare string, which is entry 0;
  and two strings inside nested arrays get one name where a comment says
  "Injectivity is preserved" (`secrets/resolver.rs`).
- `docs/reference.md` promises of plan (lines 110 and 136), of review (139) and
  of a missing baseline (505) what holds only when the pull request can be
  looked up, the override can be read, and a field is fingerprinted.
- `cli.rs:87` lets drift checks share a baseline; two that overlap lose one
  another's namespaces.

## 5. What is proved

TLAPS proves the following for every value of the constants, from the
assumptions the modules name.

- Of the incremental apply: every finite set of keys, any namespaces, contents
  and documents, any number of runs, and any bounds on writers and faults
  (`NsOfAssumption`, `DiffAssumption`, `ApplyAssumption`: typing, and that
  `Norm` is idempotent). A configuration is finite, and the share of a prune is
  a count. Convergence also rests on `NormalFormAssumption`: the repository
  declares, and others write, what `/backup` shows unchanged, and so are the
  consumers found at the start. Other rows may be in any form.
- Of the broker: every finite set of slots, every number and size of secrets,
  every digest, and any recipients and bounds (`ShardsAssumption`,
  `BrokerAssumption`).
- Of the full replacement: every set of keys, declared or not, every order that
  lists each namespace once, any API specs and any bounds (`NsOfAssumption`,
  `FullReplaceAssumption`).
- Of plugins and proxies: any plugins, proxies, scopes and associations, and any
  number of writes by others (`AssociationsAssumption`: typing, and that scopes,
  plugins and proxies are told apart).
- Of one admin call: every kind of row, any scopes and lifetimes, margins up
  to half a lifetime, any numbers of attempts, edits, ticks and settings of the clock.
- Of the workflows: any environments, promotions and file-mode environments, any
  number of runs, re-runs, cancellations, other commits and pushes of one job
  (`DeploymentAssumption`; a predecessor is not itself promoted, which
  `RepoConfig::validate` refuses).
- Of the override: any people, revisions, histories, reviews, checkouts and
  page caps (`PolicyOverrideAssumption`: typing, and that GitHub numbers reviews
  in the order they were submitted).
- Of the refusals: every set of facts, mode, pull request and number of retries
  of the comment (`GatesAssumption`: the two bounds are counts).
- Of the drift check: any namespaces, command lines and bounds
  (`DriftAssumption`, `OptionsAssumption`; `AbsenceAssumption` only says that
  "no file" is not a file). What a verdict says of its own answers holds of any
  number of checks that overlap. That an alarm lasts is proved of checks that do
  not overlap (`OneRun`): the file is read twice and replaced once with no lock,
  so of two overlapping checks one record is lost.
- Of the import: any resources, names, sizes, gateways and bounds
  (`ImportAssumption`: typing, that an identifier is not empty, which
  `safe_path_component` refuses, and that the order of slot names lists each key
  once). That an import is whole is proved of imports that do not overlap
  (`OneImporter`): the bundle has one place, and a second import may replace it
  between the first one's bundle and its tree.
- Of the assembly: any files, fragments, members, namespaces and filter
  (`AssemblyAssumption`: typing, that "every namespace" is not one, and that the
  list of plugin identifiers in their order has those of all plugins).
- Of the validator: any documents, passes, caps and numbers of attempts, and a
  validator that may do anything (`ValidatorAssumption`: typing, and that the
  pseudo-names of a pass differ from the namespaces).
- Of the verification: any smoke files, selections, allowlists, credentials and
  budgets (`VerifyAssumption`: typing, which includes what `SmokeCheck::validate`
  enforces, at least one attempt and one second for each, and that "no slot" is
  not a slot). Time is a count.
- Of a listing: any finite set of names, any page size and safety limit
  (`ListingAssumption`: typing; a name is a number, for its place in the order).
- Of bulk creates: any finite set of creates, associations, sizes and budget, and
  any number of writes of others (`BatchAssumption`: typing, and that only a
  plugin is scoped to a proxy; a create is a number, for the order of kinds).

| Theorem | Module | States |
|---|---|---|
| `TypeCorrect` | `ApplyProofs` | `Spec => []TypeOK` |
| `ManagedIsAlwaysClaimed` | `ApplyProofs` | `Spec => []ManagedIsClaimed` |
| `OnlyClaimedIsDeleted` | `ApplyProofs` | `Spec => DeletesOnlyClaimed` |
| `NoEditIsLost` | `ApplyProofs` | `Spec => NoLostEdit` |
| `SpecRowsStaySafe` | `ApplyProofs` | `Spec => SpecRowsAreSafe` |
| `EveryCreateIsAccounted` | `ApplyProofs` | `Spec => []CreatesAreAccounted` |
| `PruningIsAlwaysBounded` | `ApplyProofs` | `Spec => []PruneIsBounded` |
| `DeletesAlwaysAwaitWrites` | `ApplyProofs` | `Spec => DeletesComeLast` |
| `SuccessSettlesLedger` | `ApplyProofs` | `Spec => []CleanRunSettlesLedger` |
| `CalmRunsAlwaysConverge` | `ApplyProofs` | `Spec => []CalmRunConverges` |
| `AdoptionIsComplete` | `ApplyProofs` | `Spec => []DeclaredRowsAreManaged` |
| `BrokerTypeCorrect` | `CredentialProofs` | `Spec => []TypeOK` (of the broker) |
| `SlotsHaveOneShard` | `CredentialProofs` | `Spec => []OneShardPerSlot` |
| `BundlesFit` | `CredentialProofs` | `Spec => []CapacityRespected` |
| `ServedValuesWereHandedOver` | `CredentialProofs` | `Spec => []ServedValuesAreHeld` |
| `HistoryInvariant` | `CredentialProofs` | `Spec => [](BrokerInv /\ HistoryInv)` |
| `ValuesAlwaysAccounted` | `CredentialProofs` | `Spec => []ValuesAreAccounted` |
| `PutsAreAlwaysSafe` | `CredentialProofs` | `Spec => PutsAreSafe` |
| `ReplacementTypeCorrect` | `FullReplaceProofs` | `Specification => []TypeOK` (of the replacement) |
| `NoUpdateIsLost` | `FullReplaceProofs` | `Specification => NoLostUpdate` |
| `ReplacementIsAtomic` | `FullReplaceProofs` | `Specification => ReplacesAtomically`: `FullReplace` implements `Replacement` |
| `ReplacementIsWhole` | `FullReplaceProofs` | `Specification => RestoreIsWhole` |
| `AssociationsAreAlwaysKept` | `FullReplaceProofs` | `A!Spec => A!AssociationsAreKept` (of plugins and proxies) |
| `RequestTypeCorrect` | `RequestProofs` | `Spec => []TypeOK` (of a call) |
| `NoCallTakesEffectTwice` | `RequestProofs` | `Spec => []AtMostOnce` |
| `ReportsAreAlwaysTrue` | `RequestProofs` | `Spec => []ReportsAreTrue` |
| `TokensAreAlwaysCurrent` | `RequestProofs` | `Spec => TokensAreCurrent` |
| `VerificationIsAlwaysHonest` | `RequestProofs` | `W!Spec => []W!VerificationIsHonest` (of the verification) |
| `ListingsAreAlwaysRight` | `RequestProofs` | `N!Spec => []N!ListingIsRight` (of a listing) |
| `CreatesAreAlwaysProven` | `RequestProofs` | `B!Spec => []B!CreatesAreSound /\ B!NoReplayOverUnknown /\ B!AppliedIsOurs` (of bulk creates) |
| `DeploymentTypeCorrect` | `DeploymentProofs` | `Spec => []TypeOK` (of the workflows) |
| `JobsAreAlwaysGrounded` | `DeploymentProofs` | `Spec => []JobsAreGrounded` |
| `EveryChangeIsAccounted` | `DeploymentProofs` | `Spec => []Accounted` |
| `NothingIsEverUndone` | `DeploymentProofs` | `Spec => NothingIsUndone` |
| `FileTypeCorrect` | `FileProofs` | `Spec => []TypeOK` (of file mode) |
| `DocumentsAreAlwaysWhole` | `FileProofs` | `Spec => []DocumentsStayWhole` |
| `CompletedRunsConverge` | `FileProofs` | `Spec => []CompletedRunConverges` |
| `RunsKeepEachOthersFiles` | `FileProofs` | `Spec => FilesAreOurs` |
| `VerdictsAreAlwaysWhole` | `FileProofs` | `V!Spec => []V!DocumentsAreWhole` (of the validator) |
| `VerdictsAlwaysEarned` | `DecisionProofs` | `Spec => []VerdictsAreEarned` |
| `ExitCodesAlwaysEarned` | `DecisionProofs` | `Spec => []ExitCodesAreEarned`, of checks that do not overlap |
| `AlarmsAreAlwaysKept` | `DecisionProofs` | `Spec => AlarmsAreKept`, of checks that do not overlap |
| `CommandsAlwaysAgree` | `DecisionProofs` | `G!Spec => []G!CommandsAgree` (of the refusals) |
| `OverridesAreAlwaysEarned` | `DecisionProofs` | `O!Spec => []O!OverrideIsEarned` (of the override) |
| `ImportsAreAlwaysWhole` | `ImportProofs` | `Spec => []ImportIsWhole`, of imports that do not overlap |
| `OthersAlwaysSurvive` | `ImportProofs` | `Spec => OthersSurvive` |
| `ShardsAlwaysFit` | `ImportProofs` | `Spec => []ShardsFit` (of the migration bundle) |
| `DesiredIsAlwaysDetermined` | `ImportProofs` | `A!Spec => []A!DesiredIsSound` (of the assembly) |

**The fence.** `ManagedIsClaimed` is not inductive: it says nothing about
`applied`, which `Record` turns into managed keys, nor about a delete the run
still holds. The inductive invariant is `TypeOK /\ OpsInv /\ FenceInv`: every
operation in `applied` whose row was written is under a claimed key, in shared
mode every planned delete is of a managed key, and `op` is one of the planned
operations. The first lemmas give what this needs of the pure operators, mainly
that recording is the only ledger operation that adds a managed key
(`OnlyRecordingManages`) and that shared deletes come from the managed set
(`SharedDeletesAreManaged`). The action property follows because a step that
removes a row either holds a delete or reads one.

**Freshness.** `NoLostEdit` needs to know why a held tag is worth anything:
`FreshInv` says that while the run stands at `write` with a valid tag, the
row, as a backup shows it, is the planned row. A write by anybody else
falsifies the tag in the same step, so the invariant survives; `Confirm` and
`ReadRow` establish it. `CurInv` and `TodoInv` tie `todo` and `op` to the
plan, so that a create is never a write over an existing row.

**A whole run.** What a run leaves behind depends on everything it planned, so
the second half of `ApplyProofs` first ties the run to its plan (`PlanInv`): one
plan against one ledger, nothing outside its namespaces, every delete a planned
one. On it rest five arguments. *Accounting* (`AccountInv`): the journal is saved before the
first create goes out, and covers every add; only declared rows are in flight,
and every backup of a repository's row shows it, or reconciling would forget a
create that is still to come. *Bound* (`BoundInv`): the guard's verdict on the
planned deletes stands while the run writes, and what it deletes is planned.
*Order* (`OrderInv`): a planned add or update of the namespace at hand is ahead,
applied or failed, and a delete is taken up only when none is ahead or failed.
*Settling* (`SettleInv`): after reconciling, what the ledger holds of the run's
namespaces is declared or was seen; a run that did not fail applied the whole
plan, and recording does the rest. *Convergence* (`Smooth`): while nothing
disturbs a run, every row of its namespaces is the row it planned against
(`Stands`) or as the operation that landed on it leaves it (`Done`). What is
still to do has therefore not been done, tags and evidence hold, and no
operation is refused, deferred or withheld (`NothingRefused`): a calm run fails
at a blocked namespace only. When it records, every planned row is as planned
and every other row was as declared to begin with. `Adopting` carries the claims:
a declared row that already matched lies in a namespace still ahead, is in hand,
was claimed, or is a legacy row that shared mode does not claim. The invariant
has to speak of rows as `/backup` shows them, which is why legacy rows converge
like any other and only their adoption is left out.

**Credentials.** `BrokerInv` is the conjunction of six parts, each preserved
with the help of the ones before it. `RunShape` says where a run is in its
batch. `Placed`: while a run allocates, its copy covers what GitHub holds, and
a planned slot lives nowhere but where it is planned, so replacing a secret
cannot leave a second copy. `Fits` bounds the staged copy, not the stored one:
that is the fact a PUT needs, and why the code plans on a clone. `Held`: every
stored value is surfaced, lost, or in the outcome of a run that has not handed
over yet, and from `reserve` on there are none of the last kind. `Provided`: a
row about to be written has a value in the run's copy. That is what makes even
the type invariant inductive, since a push of an empty slot would write no
value at all. `OneShardPerSlot` and `CapacityRespected` alone are not inductive
because the PUT follows the plan by several steps. The least and greatest
elements the placement chooses exist by the library's well-foundedness of `<`
(`LeastExists`).

What the ledgers say of a value is decided runs after it was generated, so it
needs a second invariant, `HistoryInv`, over the values a slot has anywhere:
`Kin`, and `Old` for those of earlier runs. Values of different slots never
mix (`Unique`), and a generated one is newer than anything the ledger it came
with is dated by (`Ordered`). `Replaced`: a slot in the outcome has no older
value left, an apply only fills empty slots, and a stored value outside the
outcome is one whose journal entry was lost. `Journaled` says what the run's
ledger and the file in its work tree hold of each slot at each phase, which is
what a crash or a lost runner leaves behind. `Owned`: a run disowns nothing
that is declared, and its apply is dated clean only once it owns everything
declared, since a row it had no operation for still serves what it read, was
adopted, or is `Withheld` and fails the run. From these follows `Tracked`:
every old value is in the committed record or among those whose entry was lost,
and one of this revision that somebody was to receive belongs to a known
Consumer or to an allocation that is still pending, hence is never taken for
revived. `LetGo` is the other direction: a value let go has a slot no ledger
vouches for, so a strict run refuses it, and only a remap takes it back.

**Replacement.** A run restores from bodies it built long before, so no
property of a restore is inductive by itself. `IInv` has two ideas. A snapshot
is `Fresh`: as long as the namespace's revision is the snapshot's, rows and
documents are the snapshot's too (`StaysFresh`, one argument for everybody who
moves a namespace). And what the run decided from its snapshots still stands:
`bodies`, `blocked` and the absence of a run-wide error are what the snapshots
give now (`DecisionsStand`). Where a restore is accepted its token matches, so
the snapshot is the gateway's state (`AcceptedIsFresh`), the body is the one the
atomic specification computes at that moment (`AcceptedIsAtomic`), and every
other step is one the atomic specification does not see (`StepIsAtomic`).

**Plugins and proxies.** Two tags are held for two different things. A plugin's
tag does not move with its associations, so what a write detaches is known from
the re-read only (`WriteInv`, its first half), or from the set the gateway is
told to expect. A proxy's tag does move, whoever moves the association
(`RescopeIs`, `RenameIs`), so one that still matches is worth the comparison made
at the read, `written` plugins aside; and no plugin whose declared scope is a
group, or that goes, is among those. `CalmInv` says what an undisturbed run has
made of every pair of a plugin and a proxy by now (`ByNow`), which is why no
effect of its own plugin writes makes a proxy write stale
(`CalmProxyAsPlanned`).

**A call.** `AtMostOnce` counts commits, and an attempt nobody waits for may
commit much later; so `RequestInv` speaks of exposure, a commit or an attempt
still at the gateway. A create or a restore, and any call not answered before,
has at most one exposed attempt (`SentOnceInv`): the schedule sends it again
only where the answer excludes execution, and the answers that may come from an
exposed attempt are `OpenReplies`, none of which reads as a refusal. A
conditional write may be sent again, but its first commit takes the tag it
carries from the row for good (`TagInv`), since versions only grow. `ReportInv`
and `ReadInv` say which answers a success, a missing row and a version read can
rest on, and `CacheInv` that a kept token is of the present scope.

**Workflows.** A job holds its group from the gate to its push, so the
invariant says what such a job knows (`JobKnows`): while it is to act, the
ledger at its revision is the head's and the gateway is at no later commit; once
it acted, its effect is the gateway's last; once its push landed, that is on the
head. `EnvInv` is the other side: the head's ledger is never ahead of the
gateway, and behind only for the one holder that has yet to push, or for a
commit on record as lost. That gives both the freshness of the next job
(`HolderOwes`) and that a push moves a ledger forward only. `JobIsProved`
carries an observed inputs-and-environment pair from the verification to the
record (`RecordInv`) and through the gate into the promoted job. `RunsInv` ties
changes of inputs on the branch to runs, and a job ends as superseded only when
the branch has something newer (`Newer`), hence never that of the last change.
The groups themselves rest on `Mutex`, which `Start` gives and nothing takes.

**File mode.** `FileInv` says what the state lock is worth. `LockInv`: who
stands between the lock and its removal holds it, and what the holder read is
still what is recorded, so a save loses nothing. An accepted apply has two
files to write and is as wide as the environment (`Shape`). `OursInv` carries
the attribution: a recorded mesh path, and one a run is about to record, names
a file some run wrote. `CalmInv` is the convergence: as long as no export, hand
edit, repointing or failure between two writes came in, a mesh document that
exists is recorded or its writer still holds the lock, so a withdrawal is
always recognised as one (`RecordedOrAboutToBe`).

**The override.** No answer of GitHub holds by the time the next one arrives, so
`EvidenceCoexisted` cannot follow from what was read last. `EvidenceInv` names,
for each reading, the moment it was true of, and `HeldInv` why the second pass
makes one moment of them: a label, a review or a permission that is found again,
although it was missing at some moment in between, would have to have been set
again, and then it would carry a later position or number than the first pass
kept (`LabelerMissed`, `ReviewMissed`), or another reading of the same pass
would differ (`PermissionLost`, `ReviewLost`, `Moved`). That is what the second
reading of each kind is for. `GateInv` ties what is written and recorded to the
findings the override was asked for.

**The drift check.** `RunInv` says that a run's verdict is computed from what it
read, which nobody else touches (`SameVerdict`, `RunAtRest`); from there each
part of `VerdictsAreEarned` is a reading of the verdict's cases. Alarms cross
runs. `MadeInv` says that no two secrets share a version, and that none is
`Blank`, so a changed secret is never the recorded one again; `FileInv` that a
lone run still has the file it started from; `AlarmInv` that an alarm is of a
secret that differs from the recorded one, and that a run which read its
namespace sees so (`Sees`): what it read differs from the entry, or lacks the
fingerprint. A run that sees a difference under the same key refuses to record
it; one that misses the fingerprint, as the entry may, has an incomplete
comparison, and what it records changes nothing; under another key the baseline
is invalidated. None of them ends with 0 or 6.

**The validator.** A verdict has to be of the whole report of one pass, but the
output arrives on two streams, whose writers may outlive the child. `StreamInv`
says that a reader which did not fail reports a stream only at its end or past
the cap, and that one heard of stays as it was; so a verdict, which needs both,
is of all that was written, unless a reader failed. `ChildInv`: a supervised
child grades the document of the present pass (`GradesItsPass`), and exits with
0 or 1 only for what it is worth. `LoopInv`: what is accepted and rejected
together is every pass so far, the last one included when the verdict is given
(`VerdictInv`).

**The refusals.** Apply's gates come in an order that depends on the mode, with
effects between them. `StepOrder` says what stands before an effect and before a
change; `ApplyInv` that every gate behind the present step refused nothing; and
`PlanCovers` that what an offline gate of apply refuses, plan calls a blocker.
`ReviewInv` follows the comment: what is shown is the verdict, in one copy.

**The import.** What a tree promises is decided before it exists: every gate
looks at the rows of one answer, the bundle is published from the rows that
passed, and the tree is made of the same rows. `JobInv` therefore carries the
verdict of the gates with the job up to the rename, past crashes and edits of
the destination, and `TreeInv` says the same of a tree that is there. That the
loader reads everything back rests on the names: the mapping from a resource to
its file is injective, and no name it makes is skipped as disabled
(`FileNames`). `OthersSurvive` needs none of this, and holds of imports that
overlap: the last look at the destination is the rename's own. So does
`ShardsFit`: `ShardInv` says that the bundle on disk is the packing of some rows
that fitted, and `PackInv`, kept by every slot that is placed, that a shard's
recorded size is the bytes of its slots, commas and braces counted.

**The assembly.** Lists are built one member at a time: an overlay places its
members, an association is added unless it is there, a mesh fragment's members
are included once. For each there is a lemma of what one step does (`PlaceIs`,
`AssociateIs`) and, by a least counterexample, of what all of them do
(`PlacedKeeps`, `DerivedKeeps`, `IncludedKeeps`). `ResourcesInv` keeps the keys
through the merges (`MergedIs`: the directory is anchored where the target is);
`MergeInv` says that a resource is the base's, or that merged with the one
fragment about it, so the order of fragments is no matter. Normalising is a
projection because settled resources keep their namespaces, and their plugins,
when they are normalised (`ScopeIs`, `NormalisedTwice`); and a share is
normalised as in the whole because what is scoped to a proxy has its namespace
(`ShareIs`). `MeshInv`: the document is exactly the fragments folded in so far,
and those agree; a fragment that cannot be folded in disagrees with one of them,
whichever came first (`FoldStep`).

**The verification.** What a record says was decided by a chain of small
verdicts. `HandoffInv`: the bundle handed over is this apply's own or none, and
what verify would refuse to bind, the preflight refused before the change
(`PreflightAnticipates`). `GrantInv`: a credential is granted from the list and
the labels verify itself read. `ChecksInv`: a check that passed was answered as
declared, and one that may act twice has not been sent while it can still be
retried. `BudgetInv` bounds the time spent, without what the scheduler added, by
the declared worst cases of the checks behind and the attempts made at the
present one; so a check that respects its own timeouts always has its time left
(`TimeLeft`). The worst cases are running sums, and those are facts about a
recursive function: that it exists, is a natural number and grows follows from
the least index at which it would not (`SumsExist`, `SumsGrow`, from `Least`).

**A listing.** An offset is a position, and what is at a position moves while others
write. Names come in an order, so a name's position is its rank, the number of
live names before it; while none is removed that rank only grows (`RanksGrow`).
So whatever now stands before the offset was read, or came after the call began
(`ProgressInv`), and at the end there is nothing behind the offset. That the page
served is the names of those ranks (`SortedIs`) needs that as many ranks as names
leave none out (`Ranks`), and the merge names what the pages named, each once, by
a least counterexample again (`MergeIs`).

**Bulk creates.** First how they are cut. The rows that name each other, step by
step, are a group: the sets grown from a row by one link at a time. A set that
grew at every step would outgrow the rows, so after as many steps as there are
rows it is closed, and it is the least closed set its row is in (`GroupIs`);
hence two groups that meet are one (`GroupsMeet`), each has one first row, and
the groups in the order of those are each row once (`InOrderIs`, from `RankIs`).
Packing adds a whole group at a time and keeps `Bodies`: disjoint, not empty,
whole groups, within the budget but for a body of one group (`PackIs`), up to
the last one by a least counterexample (`SplitIs`). Then what is done with the
bodies. `CutInv`: what was sent was cut from them. `NotedInv`: every row of the
bodies behind, and of the present one what is no longer to do, is applied or in an
error. `CleanInv`: what is still to be sent is neither stored by this run nor on its
way; a body is only cut up after an answer, or a reading, that shows none of it
is there. `AttachInv`: a new proxy goes out without its new scoped plugins only where the
operator allowed it, and then nothing but individual creates follows.

Only model-checked. Liveness under fairness and `ENABLED` are beyond the prover:
`Heals`, `Recovers`, `EveryRunEnds`. So are the library's theorems of induction,
which take an operator. Where a function recurs over the naturals, as the sums
of the verification, the merge of a listing, the groups and bodies of bulk
creates, the packing of an import and the lists of the assembly do, a least
counterexample serves instead; what a fold or a recursive operator computes for
every input stays with TLC, hence `IssuedToItsOwner` (`SlotNames`,
`SlotIdentity`). A property of a run with several instances is proved of each
one's module where the table has it: `RunsConverge` by three theorems of
`ApplyProofs`, `SecretsFit` by `BundlesFit`, `QueueIsAccounted` by
`EveryChangeIsAccounted`, `AssociationsAreKept` by `AssociationsAreAlwaysKept`,
`CreatesAreProven` by `CreatesAreAlwaysProven`, `ListingIsComplete` by
`ListingsAreAlwaysRight`, `DocumentsAreWhole` by three of `FileProofs`,
`VerificationIsHonest` by `VerificationIsAlwaysHonest`, `DesiredIsDetermined` by
`DesiredIsAlwaysDetermined` and `ShardsAlwaysFit`, `CommandsAgree` and
`OverrideIsEarned` by those of `DecisionProofs`.

## 6. What is not modelled

- Of the apply: the order in which a rename frees a unique name before another
  row takes it, the run's wall-clock limits, how a difference is described.
- Of the admin client: configuration reads of several pages, TLS, URLs.
- Of the credentials: `alloc=require`, the pages of GitHub's key lookup, the
  basic-auth exemption of a rotation and several slots per Consumer in one.
- Of the policy: what each rule finds (checks of one document). The state guard
  decides by the rule `PolicyOverride` models, in another program.
- Of assembly: YAML, the schema, the strict parser's lists of fields.
- Of validation: the stand-in values of unresolved credentials, the redaction
  of the validator's output, report formats. Of verify: header and URL syntax.
  Of import: notices and the manifest.
- Of review: how a comment is laid out and bounded. `doctor` and `display` only
  read and print.
