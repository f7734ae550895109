# Digital Life Memory Fabric: TLA+ models, checks and proofs

The Memory Fabric keeps one governed, canonical memory for a "digital life":
candidates come in from users, devices and distillation providers, an authority
commits them as numbered revisions, a change feed brings them to devices, an
outbox brings them to external memory providers, and retrieval only returns what
the canonical store confirms. These modules model the parts of that system in
which order, concurrency and failure decide whether the memory stays right.

Paths below are relative to the repository; `src/` is its TypeScript source.

## 1. The system

### Components, their state and their operations

| component | state it keeps | operations | models |
|---|---|---|---|
| canonical write path (`src/authority`, `src/candidates`) | candidates, heads, revisions, changes, outbox rows, conflicts | ingest, commit (create, update, merge, tombstone, restore) | CanonicalAuthority, MemoryLedger |
| in-memory canonical store | the same tables behind one write barrier | transaction | CanonicalAuthority (atomic step) |
| PostgreSQL canonical store | the same tables, locks, unique indexes, sequence rows | the SQL of a commit, claims, settlements, checkpoints | PostgresCommit, OutboxDelivery, DeviceSync |
| device synchronisation (`src/sync`) | checkpoint per device | pull, pull for device, acknowledge | DeviceSync |
| central operations and materialization (`src/operations`, `src/materialization`) | outbox claims and leases, provider materializations | claim, deliver, settle, retry | OutboxDelivery |
| verified retrieval (`src/verification`, `src/retrieval`) | none of its own | search, verifyMany, filter | VerifiedRead |
| transcript distillation (`src/distillation`, `src/curation`) | receipts, curation records | run: ingest, archive, distill, curate, admit and canonicalize unit by unit | Distillation |
| prune eligibility | the receipt's prune flag | evaluate, refresh | Distillation |
| admission policy, semantic governance | none | evaluate, classify, relate | Distillation, as the answers they may give |
| incremental source sync (`src/source-adapters`) | checkpoint file (snapshot, journal, lock) | runOnce, baselineCurrent, load, save | CheckpointFile, SourceSync |
| insight promotion (`src/insights`) | insights, promotion records and events, an advisory lock | createPlan, apply, promote | InsightPromotion |
| semantic review (`src/review`, `scripts/governance`, `scripts/production-pilot`) | review cases and events | enqueue, resolve; the closure and canary tools; remediation | SemanticReview |
| historical migration (`src/source-adapters`, `scripts/historical-migration`) | a state file, an advisory lock | run, window by window, under the bounded pilot | HistoricalMigration |
| capture inbox and context publisher (`src/integration`) | a capture file per conversation, a lock file | put, publish | ContextCapture |
| raw archive, extraction artifacts, Hindsight's distill (`src/archive`, `src/distillation`) | archived records, artifacts, the receipt's binding; operations and units at the provider | archive, distill, put, resolve | ProviderExtraction |
| recall and reflect, HTTP delivery, HTTP ingress, source parsers, retrieval view, Obsidian projection | none that outlives a call | translation | not modelled |

### How they interact

* Producers call `MemoryCandidateService.ingest`, then
  `CanonicalMemoryAuthority.commit` with an idempotency key. A provider's
  candidate commits only if a curation record backs it.
* Distillation is such a producer: it writes the curation record, the candidate,
  the record again, commits, and writes the record a third time. Nothing spans
  these steps but the receipt, which is put after each stage.
* A commit appends a change and an outbox row in the same transaction. Devices
  page through the changes and acknowledge with a compare-and-set; workers claim
  outbox rows under a lease and a token.
* Source sync feeds distillation: it watches transcripts and captures that still
  grow, hands over those that have come to rest and records their fingerprint in a
  checkpoint file that several processes share.
* Inside a distillation run the raw experience is archived, the provider extracts
  its documents in asynchronous operations and the result is kept as an artifact
  that the receipt names from then on. Units the admission policy leaves undecided
  get a review case; reviewers and tools decide the cases, and a later run may reject
  a candidate because of such a decision.
* The historical migration hands old sessions to distillation, and the capture inbox
  is where the ChatGPT source adapter finds what publishers and other transports
  have put.
* Insight promotion is another producer: a reviewer's approval turns a derived
  insight into a candidate and a commit, between four writes of its own record.
* Retrieval takes candidates from an untrusted provider and confirms them against
  heads and revisions without taking a lock.

### What is hard

* Two callers on one base revision, one semantic key or one idempotency key.
* A verification made before the transaction and used in it.
* A lost connection between drawing a sequence number and COMMIT.
* Locks that different operations take in different orders.
* Replies lost, repeated and out of date at the device and at the provider.
* Leases that run out under a delivery that is still going on, on clocks that
  disagree.
* Three reads without a lock beside commits.
* A process that dies between a canonical commit and the record of it.
* Read, decide, read again, write: the prune refresh beside a running distillation.
* A power loss between a rename, the fsync of its directory and the removal of the
  journal it replaces; an append cut off in the middle of a line.
* A source that changes between its reading, the decision and the hand-over.
* A provider that goes on after its caller has timed out, and is asked again by the
  same host or another one.
* Reviewers and tools who decide on a version of a case they read earlier.
* A window of units that fails in part, with the units after the failure ingested.
* Repeated messages in a visible context, which can be aligned with the capture in
  more than one way; a lock file whose owner has died.
* A database lock lost while the work under it goes on, and a plan validated before
  the lock is taken.

`PROJECT.json` lists each at its line under `hazards`.

## 2. Modules

| module | what it is |
|---|---|
| `CanonicalAuthority` | the write path over atomic transactions: the core specification |
| `MemoryLedger` | what the write path promises others: an append-only, numbered ledger per scope |
| `CanonicalRefinement` | CanonicalAuthority implements MemoryLedger |
| `PostgresCommit` | the commit at SQL statement granularity, with locks; implements CanonicalAuthority |
| `DeviceSync` | MemorySyncService and devices over MemoryLedger |
| `OutboxDelivery` | claims, leases, deliveries, settlements |
| `VerifiedRead` | retrievals beside CanonicalAuthority |
| `Distillation` | TranscriptDistillationService and PruneEligibilityService |
| `CheckpointFile` | the checkpoint of a source adapter as files that crashes and power losses can tear |
| `SourceSync` | GenericIncrementalSourceSyncService over CheckpointFile |
| `InsightPromotion` | ReflectiveInsightPromotionService, InsightPromotionOperator and their record store |
| `SemanticReview` | the review queue of a receipt: host, reviewers, closure, canary, remediation |
| `HistoricalMigration` | HistoricalExperienceMigrationRunner under the bounded pilot |
| `ContextCapture` | ChatGptCaptureInboxStore and ChatGptContextPublisher |
| `ProviderExtraction` | the archive and provider stages of a run, taken apart |
| `Operations` | the four modules above as alternative deployments, for one run |
| `CanonicalAuthorityProofs` | theorems about CanonicalAuthority |
| `CanonicalStoreProofs` | theorems about CanonicalRefinement, PostgresCommit and VerifiedRead, on top of those |
| `DistillationProofs`, `InsightPromotionProofs`, `SourceSyncProofs`, `ContextCaptureProofs` | theorems about the module of that name; the last has lemmas on sequences that `OperationsProofs` uses too |
| `DeliveryProofs` | theorems about OutboxDelivery and DeviceSync |
| `OperationsProofs` | theorems about ProviderExtraction, SemanticReview and HistoricalMigration |
| `MC*` | instances for TLC |

### CanonicalAuthority

The variables are the tables: `candidates`, `heads`, `revisions`, `changes`,
`outbox`, `conflicts`, `lastSeq`; `admission` is the curation record behind a candidate and
`calls` what each caller is doing. Actions:

* `Ingest` is `MemoryCandidateService.ingest`: key, type and fingerprint are
  filled in from the base or from defaults.
* `Curate` is a put on the curation store: the record behind a candidate comes to
  back it, or is replaced by one that does not, at any time.
* `BeginCommit` is the first phase of `commit`: the admission is verified outside
  the transaction.
* `Transact` is the transaction: replay of a used key, refusals, a recorded
  revision conflict, or the commit with all its rows. One disjunct per outcome.
* `Return` ends a call, its answer received or lost; the caller may send the same
  request again.

Identifiers are drawn from finite sets. Texts and evidence are model values; a
fingerprint is the tuple of what `candidateSemanticFingerprint` hashes. Clocks,
authors and validity windows are left out, except that VerifiedRead knows which
texts are in force.

### PostgresCommit

The committed tables are CanonicalAuthority's variables; `tx` holds each open
transaction: its next statement, the names of the locks and pending index entries
it holds, and what it has read. A statement waits while another transaction holds
a name it needs. `Rollback` and `Crash` drop everything. That the module
implements `CanonicalAuthority!Spec` with the identity mapping
(`ImplementsAtomicCommit`) is what justifies using the atomic model elsewhere.

### DeviceSync

Extends MemoryLedger by checkpoints, device copies and sessions. `StartPull`
reads the checkpoint, `ReadPage` a page, `Apply` is the device's part, `CheckAck`
and `CompareAndSet` are the store calls of the acknowledgement (the session may
learn that it succeeded or not), and `Stop` is a session that ends anywhere. Two
sessions act for one device.

### OutboxDelivery

Rows of one scope's outbox with status, token, lease and attempt timers; workers
claim, deliver, receive and settle. Time is what is left of each timer; a worker
with a fast clock sees timers as run out early. `executed` is what providers
really carried out, an external fact the model keeps to state properties about.

### VerifiedRead

`Search` takes any claims from the provider, `ReadHeads`, `ReadRevisions` and
`RereadHeads` are the three reads of `verifyMany`, `Finish` returns.

### Distillation

One process is one run of `runWithIdempotency`; every await is the end of a step.
`Advance` covers the stages that only put the receipt; then per unit
`ReuseUnit`, or `DecideUnit`, `Record`, `Ingest`, `Bind`, `Veto` or
`VerifyAdmission`, `CommitUnit` / `CommitRefused` / `CommitCollides`,
`Supersede`, `Retry`, `Remediate`, `Settle`; at the end `Canonicalize`, `Close`, `Return`.
`Throws` is an error at any await, handled by the catch block (`Fail`), `Crash` a
process that dies. `OtherCommit` stands for the other callers of the authority.
`Evaluate`, `Reread`, `WritePrune` are the three store calls of the prune
refresh. Upserts are those of the PostgreSQL stores. The canonical side is what
the proved properties of CanonicalAuthority leave: one memory per semantic key,
revisions that count up, commits that are atomic.

Candidate ids are reused when nothing refers to them, so that runs which fail
for ever have finitely many states; `CandidateIds` bounds how many are in use at once.

### CheckpointFile and SourceSync

`snapshot` and `journal` are the files as the running system sees them,
`snapshotKept` and `journalKept` what a power loss leaves of their directory entries
until the directory is synced; the journal's lines past the last fsync may be lost
from the end, the last one torn. A line is written in two steps, and `RecoverTail`
cuts a torn tail off.
SourceSync's actions are the awaits of a run: `Load`, `Consider`, `Read`, `Verify`,
`DecideUnit`, `Revalidate`, `Ingest`, `Persist`, the steps of
`appendFingerprint`, the steps of `save`, `Unlock`. `BeginBorrow` and `BeginSave`
are callers of the public `load` and `save`. `Change` and `FallIdle` are the
sources, `Throw`, `Die`, `PowerLoss` the faults, `ClearLock` the operator who
removes a lock file left behind. `ingested`, `referenced` and `claimed` record what
was done, for the properties. Distillation is seen through its receipt only:
terminal or not. Source formats are abstracted to a fingerprint of the evidence, a
version key and whether the source is still open. The Codex policy (`IdleGated`)
allows every decision the ChatGPT policy takes on the same sample and is the one
the run uses; what it shows of safety holds for both.

### InsightPromotion

`DraftPlan` and `SealPlan` are the operator's `createPlan` and the reviewer's
manifest, `BeginApply`, `Lookup`, `Validate` the checks of `apply` before the
service is called, `Audit`, `CheckEvents`, `Finish` those after. `BeginPromote` is a
direct caller of the service. `TakeLock` to `Done` are the awaits of
`promoteLocked`. `Put` is the record store's upsert with the two triggers of
migration 0007, `Accept` the put of the insight with its trigger. Counts of
`Snapshot` leave out `changes`, which is always the number of revisions. The
update-time checks of store and triggers are not kept: they can only refuse, which
is `Break`. An approval stands for reviewer and evidence; a sealed one is accepted
by the verifier that `apply` builds, others by the caller's.

### SemanticReview

`curation`, `reviewCases` and `reviewEvents` are the tables, by unit. The host puts a
record (`HostPut`), enqueues what awaits review (`HostEnqueue`), closes the receipt
and samples canonical units for the canary (`HostSample`, `HostQueue`); after a death
it judges its units again, not always as before. A call of `resolve` is `GetCase`,
`CheckPrior`, `StoreResolve`, with the answer lost in `CallBreaks`; reviewers and both
tools go through it. `ClosurePlan` to `ClosureListDeferred` and `CanaryStart` to
`CanaryAssess` are the awaits of the two scripts, `Remediates` is the join by which a
later run is given a decision. Facts stand for all fields a case copies of its record.

### HistoricalMigration

A host examines the state file, writes a successor's seed (`SaveSeed`), tries the lock,
loads the state and then goes from window to window: `Discover` takes units after the
cursor, `ReadUnit`, `VerifyUnit`, `IngestUnit` or `FailUnit` process those of a window in
any order, `SettleWindow` keeps the prefix before the first failure, `SaveUnit` saves
one unit after the other. `EditUnit` changes or deletes sessions, `LockDropped` ends the
session that holds the lock without the host's noticing. `settledUnits` records terminal
receipts and skips.

### ContextCapture

`ReadAndMerge` reads the capture and merges the visible context into it by the
publisher's own alignment; `Inspect`, `Link`, `Compare`, `Write`, `ReleaseLock` are the
awaits of `put`; `GoesAround` is the bounded retry. `Post` is a capture of another
transport. `RecoveryBegins` and `RecoveryEnds` are the operator who reviews a stale lock.
The alignment is the longest common subsequence with its uniqueness test, as functions.

### ProviderExtraction

Documents are sequences of slices, computed by `fullSourceEvidenceChunks` and the user
projection as in the adapter. A run goes through `OpenReceipt`, `Archive`,
`PutArchived`, `TakeArtifact`; if there is no artifact, per document `Preflight` (user
projection only), `Retain` or `RetainFails`, `waitForAsyncRetain`,
`listDocumentMemories` page by page; then `StoreArtifact`, `BindReceipt`,
`PutDistilled`, `CloseRun`. `PutExtraction` is the receipt's upsert with the trigger of
migration 0008. The provider (`Accept`, `ExtractFragment`, `EndOperation`) is external:
it does an operation id that is under way or completed once, and starts a document afresh
when one has failed. `curated` records what went on to curation. A source without
segments, which is chunked by characters alone, is left out.

## 3. Runs

| run | instance | result |
|---|---|---|
| `commits` | 2 callers, 3 candidates of 14 inputs in 2 scopes, 3 keys, 2 memories | holds |
| `pg_interleavings` | 2 transactions, 3 candidates, 3 keys | holds |
| `device_sync` | 2 sessions of one device, 3 changes, batches of 2 | holds |
| `outbox_order` | 2 workers under one id, 2 providers, 2 revisions, clocks one tick apart | holds |
| `outbox_progress` | 1 worker, 2 memories, batches of 2 | holds |
| `verified_reads` | 1 retrieval, 3 candidates | holds |
| `restored_read` | a memory tombstoned and restored | violated (finding) |
| `distillation` | three deployments: 1 process on 2 units of one key, 2 processes on one source of 1 unit, 1 process beside a prune refresh; other commits | holds |
| `distillation_stuck` | 1 process, 1 unit, one fault | violated (finding) |
| `source_sync` | 2 pollers, baselines and public saves in both modes, a source that changes, 2 faults | holds |
| `insight_promotion` | 2 processes, an eligible and an ineligible insight, operator and service, one fault, one other commit | holds |
| `operations` | review: 2 units, 1 reviewer, both tools, host dies once; migration: 2 hosts, 4 sessions, windows of 2, a predecessor, 1 edit, 1 fault; capture: 2 publishers, 1 poster, 6 contexts, 1 death; extraction: 2 hosts, 2 documents, 2 extractions, 1 fault | holds |

`operations` asks about four parts that share no table, file or lock: every step of one
commutes with every step of another, so each of its initial states deploys one of them.

What the properties say:

* **Chain and feed.** `RevisionChain`: the revisions of a memory are 1 ..
  current, one row each. `FeedSound`: the changes of a scope are numbered without
  gap, and replaying them gives the heads.
* **Once and whole.** `ExactlyOnce`: a commit is all of its rows; retries, lost
  answers and reused keys give one change, and the answer names it.
* **Meaning.** `SemanticIdentityUnique`, `ContentLineage`, `TombstoneHolds`,
  `ProviderGate`: one memory per key; merge, tombstone and restore keep text and
  evidence; only a restore ends a tombstone; a provider's commit was backed by an
  admitted record.
* **Abstraction.** `ImplementsLedger` and `ImplementsAtomicCommit` are refinements.
* **Locks.** `NoWaitCycle`: transactions never wait in a circle.
* **Devices.** `NothingSkipped`: what a device has applied is a prefix of the feed
  and its checkpoint never runs ahead of that; `CheckpointAdvances`: nor does it move
  back; `CatchesUp`: the device reaches the end of the feed.
* **Outbox.** `RevisionOrder`: a provider sees the revisions of a memory in order;
  `MaterializationTruth`, `NoRegress`: the materialization row never says more than
  was carried out and never goes back; `EventuallyDone`.
* **Retrieval.** `AllowedIsCurrent`: what is allowed was active, current and intact
  at the second reading; `NothingHidden`: what is so and was asked for is allowed.
* **Distillation.** `RecordsBound`: a record that names a memory names the accepted
  candidate that committed it, and candidates that lost a collision are closed.
  `PrunableIsPreserved`: a complete receipt leaves no unit undecided, and only an
  archived, complete source may be pruned. `ReceiptTruth`: the receipt lists the
  memories of its own commits, all of them when complete. `MemoryStaysRecorded`: a
  record that names a memory goes on naming it. The two about receipts are stated for
  sources that one host runs; see Findings.
* **Source sync.** `ProgressKept`: what a power loss leaves can always be loaded, and
  the store answers for each source a version that was acknowledged last or that was
  being written. `CheckpointIsSettled`: a recorded version was handed over and
  answered, or passed by on purpose. `ActsUndisturbed`: what was handed over did not
  change between its sample and the act. `CatchesUp`: a source that comes to rest is
  recorded in the end.
* **Promotion.** `PromotedOnce`: an insight is committed at most once, whatever
  keys, lost locks and repetitions. `RecordTruth`: a commit is the one its record
  links, committed records are of real commits, and the events are those of the
  transitions made. `ReportIsPlanned`: a report of success is of the operation and
  base the reviewer saw.
* **Review.** `ReviewHistory`: a case has one event per version, a resolution is
  final, no key decides twice. `PendingIsQueued`: a closed receipt leaves nothing for
  review that is not in the queue as it was recorded. `ClosureTruth` and
  `EligibleIsReviewed`: what the closure and the canary report is so, although they
  read in several steps. `RemediationIsReviewed`: only a candidate with the very facts
  a reviewer called invalid is rejected without asking.
* **Migration.** `CheckpointCovers`: whatever the state file has passed was ingested,
  skipped or inherited, and counted once, with the fingerprint of what was ingested.
* **Capture.** `MergeIsSound`: a merge is the one shortest conversation that contains
  both what was captured and what is visible, in order. `NothingDropped`: a publisher
  only adds to its capture, and an acknowledged context stays in it.
* **Extraction.** `ExtractionIsWhole`: the chunks of a source tile it from its first
  character to its last within their bounds, and an artifact has every unit the provider found, once and in order.
  `OneExtraction`: the artifact a receipt names stays resolvable, and whatever goes on
  to curation under a bound receipt is that artifact's result.

Each module has a type invariant. Those of the write path, DeviceSync, Distillation and
SemanticReview are proved; those of the other modules document their variables.

Every property has a mutant in `PROJECT.json`: a change of one mapped definition,
such as a plausible slip in the code would be, under which TLC finds the property
violated.

### Bounds and why they are enough

Two callers, sessions, workers or processes are what every race in the code
needs: each protocol step excludes or compares against one other party. Three
candidates and keys let a commit, its competitor and a retry under a used key
meet, and give every chain of three operations, as create, tombstone, restore.
Three changes with batches of two give a full, a partial and an empty
page. Two outbox rows give an order to break; a third adds states and no new
case, since the order test looks at earlier rows of the same memory. In
`distillation` every await can be the last one, and each further run starts from what
the stores hold, as after the first fault; the deployments are those in which units of
a source collide, hosts collide, and the refresh meets a run.

In `insight_promotion` one fault is one lost lock or one break-off, which is what
lets two processes be under way on one insight or one of them resume the other's
record; two creation times let their records differ; one commit of another caller
moves the target, the support or only the counts.

In `operations` a unit that is judged in three ways, a deferral with a decision after
it, a decision that races both and a key used twice give every order of host, reviewer
and tool on a case; four sessions in windows of two, after a predecessor that passed
one, give a window that fails in the middle, one cut short by the unit limit and one at
the end; contexts with a repetition, an overlap, a gap and an insertion, with
`MAX_MESSAGES` at three (512 in the code, only compared), give every verdict of the
alignment; two documents of which one has two fragments, pages of two and a limit of
five units give an operation half done, short and full pages and a document at the
limit. The chunking is checked on all sources of up to three segments with lengths at
both sides of its bounds (`OtherSegments`). One fault each is a death, an error or a
lost lock at any await.

Bounds on counters are constants: `MaxRows`, `MaxVersion`, `MaxOthers`, `Stamps`, `MaxClaim`, `MaxClaimed`, `TopK`,
`MaxBatch`, `MaxRevision` (what other callers commit), `MaxFaults`,
`MaxSemanticAttempts` (4 in the code, 2 in the runs; the loop only counts),
`MaxHostFaults`, `MaxEdits`, `MaxMigrationFaults`, `MaxPublishes`, `MaxDeaths`,
`MaxDistills`, `MaxExtractionFaults`. Symmetry is used over candidate ids, keys and callers, which no action
distinguishes, in runs without liveness.

### Fairness

* `FairSyncSpec`: a session that wants to synchronise goes on (weak fairness of
  starting, strong fairness of each step, which lost replies and conflicts disable
  again and again). It says that not every reply is lost for ever.
* `OutboxDelivery!FairSpec`: workers poll, clocks tick, and a row that is delivered
  again and again is in the end carried out and settled in time. `Punctual` says
  that only waiting for the provider takes time; the lease then covers a batch.
* `Distillation!FairSpec`: a run goes on, and the caller runs an unfinished source
  again. Faults are not fair and bounded.

* `SourceSync!FairSpec`: a run does not stop half way (weak fairness of each step),
  each mode is polled again and again and a borrowed checkpoint is saved back
  (strong fairness, for the lock is free only now and then), an untouched journal
  becomes idle, and the operator removes a lock file that a dead process left. The
  pollers are started by a scheduler, and the code names the stale lock as the
  operator's business. Changes and faults are bounded and not fair.

`operations` states no liveness: whether a case is decided, a lock file recovered or a
migration started again is up to people.

Deadlock is checked wherever the system can always go on; `distillation*` and
`operations` turn it off because closed receipts and a complete migration with all
bounds used up are the intended end.

## 4. Findings

1. **A restored memory is not returned.** `verifyRevision` takes a revision whose
   provenance fingerprint differs from its semantic fingerprint as corrupt
   (`src/verification/canonical-verifier.ts:251`), and a restore writes exactly
   that: content and fingerprint of the tombstoned revision, provenance of the
   restoring candidate. Run `restored_read`.
2. **A merge interrupted before its record is never resumed.** The next run makes
   a new candidate with the same idempotency key, which the authority refuses for
   good. Run `distillation_stuck`.

Also seen, and no violation of anything documented: two hosts that run one source at
once can leave a complete receipt with a unit that waits for review; an error in
the last read of a run leaves a complete receipt that is never prunable; a
refresh that read the receipt before a run closed it puts the older values back,
in PostgreSQL with the status kept. A promotion that breaks off after the insight
was accepted cannot be applied again under its manifest, since the plan's
fingerprint is that of the pending insight, and cannot be planned anew, since the
insight has a record; a linked candidate whose base has moved is a conflict for
good. `docs/dlmf-sg-010` says that a state change "fails closed before promotion";
one between the validation and the lock is noticed by the counts after the commit,
so no report is issued but the memory is written. The authority asks for a curation
record of provider candidates only. A review case of a judgement that a rerun no
longer makes is never withdrawn, and the rerun fails on it until its judgement is the
recorded one again. A receipt that is bound to an artifact fails on every run with other
metadata, which its documents call failing closed. An empty page ends a listing whatever
the total says, and the user projection's document id does not bind its text; both
depend on the provider and are left open.

## 5. Proofs

`CanonicalAuthorityProofs` proves, for every set of scopes, memories, candidates,
keys, callers and inputs, the properties TLC checks on the instances above:
`TypeCorrect`, `RevisionChainHolds`, `FeedIsSound`, `CommitExactlyOnce`,
`IdentityIsUnique`, `LineageHolds`, `ProviderGateHolds`, and the action property
`TombstonesHold`.

Assumptions: the inputs are well formed, `None` is none of the values it stands
beside, the default type is a type. TLC evaluates them in every run of the module.

The argument. No single property is inductive. The invariant `Inv` is their
conjunction with four strengthenings:

* `CallsKnown`: a call under way refers to an ingested candidate;
* `CreateFromNothing`: exactly the create candidates have no base revision, so a
  commit's new revision is either 1 of an unused id or the successor of the head it
  compared with;
* `RevisionsKnown`: the candidate a revision names exists;
* `CallsVerified`: a provider's call that is past verification has a fitting proof
  and a record that was once admitted, which carries the admission across the gap
  between the two phases.

`StepShape` shows that every step is `Quiet` (nothing is published, a candidate at
most appears or falls to CONFLICT) or `Commits(r, c, k, m)` (one head, revision, change and outbox
row appear). Each conjunct then has one lemma with these two cases, instead of one
case per action, and `CommitFacts` collects once what a commit guarantees: the
base is the current revision, the number is new, the key is unused.

`OperationsProofs` proves `OneExtractionHolds`: once the receipt of a source
names an extraction artifact, that artifact can be resolved, and whatever goes on to
curation under the binding is its result. It holds for every set of hosts and
experiences, every source, chunking and projection mode and any number of faults. It
assumes that `NoExperience` is no experience, that a call gets an experience and says
whether there is a store, and the bounds on chunking of `ExtractionAssumption`. OneExtraction alone is not
inductive, because a host acts on a copy of the receipt it read several awaits ago.
`ExtractionInv` adds what that copy may say: it is empty or an artifact backs it
(`Backed`); a run asks the provider only while its copy is empty; from the binding of
the receipt to curation the result it carries is the one its copy names. Artifacts are
written only where there is none and the trigger lets a receipt be bound once, so a
copy that was backed stays so. `HostStep`, `PuttingStep`, `StoringStep` and
`CuratingStep` show this for the four kinds of steps, and `HostIsSound` takes each
action of a host back to one of them.

It also proves `ExtractionsAreWhole`, which has two parts. The first is about the pure
chunking and has no state: `SourcesAreTiled` takes a source apart as the code does.
`SegmentIsTiled` shows that a segment short enough is one fragment and that the parts of a
longer one meet end to start, with the last ending where the segment does and none
longer than a chunk, labels and header included; `FragmentsTile` goes on from segment
to segment; `AddFragmentHolds` and `ChunksOfFragments` show that packing them keeps
their order, drops and repeats none and respects `maxChars` and `maxSegments`. The folds of
the library are unfolded one element at a time (`ChunkSteps`, `FlattenOneMore`) and
counted up with `CountingUp`, since an induction theorem cannot be instantiated. The second
part is `WholeInv`: a run that works on document d has listed exactly what the bank has of
the documents before d, all of them settled (their operations completed with every
fragment done), and while it lists d, the first `listed` units of it (`Gathered`). What is
settled no host and no provider step touches again (`Undisturbed`), which is why a
list that takes many awaits is still one of a single state; `ListingBegins` and
`PageGathers` are the two steps where that is used. `ExtractionAssumption` says of the
constants what the constructor of HindsightMemoryAdapter checks (whole numbers,
`maxSegments` at least 1, room for the header) and that segments and yields are
sequences, a source having a segment.

`CanonicalStoreProofs` proves `LedgerIsImplemented` and `LedgerSpecIsImplemented`:
every step of the write path is a step of MemoryLedger or leaves the ledger alone. The
invariant of the write path is not enough for it: `FeedOrdered` adds that the feed names a
memory's revisions in their order, and that a change is a tombstone exactly where its
revision is.

`DeliveryProofs` proves `SyncTypeCorrect`, `NothingIsSkipped` and
`CheckpointOnlyAdvances` for any devices, sessions and batch size over a feed of any length. It assumes
that a session has a device and a batch is not empty. `SyncInv` adds to NothingSkipped what a
session carries from one store call to the next: the page it read still lies in the feed
right after its base, since a ledger is only appended to (`LedgerGrows`), and what it is
about to acknowledge is applied and within one batch of the base.

For OutboxDelivery it proves `RevisionsInOrder`, `MaterializationsTrue` and
`NothingRegresses` for any memories, providers, workers, clocks and timers. Nothing is
assumed of tokens: two claims could have the same one. `DeliveryInv` adds that a worker
settles as current only what the provider it names has carried out, that a provider never
holds a revision past the one last attempted there, and that a memory has no more
revisions than rows, so that an appended row has the highest.

`OperationsProofs` proves `ReviewTypeCorrect`, `HistoriesAreWhole`,
`PendingAreQueued`, `ClosuresAreTrue`, `EligibleAreReviewed` and
`RemediationsAreReviewed` for any units, judgements, reviewers, requests, manifest and closure
plan. It assumes that requests are about units and with known dispositions
(`ReviewAssumption`), that the closure makes up one of the two dispositions of its script
and that tools are no reviewers (`ToolsAssumption`), and that `NoValue` is no row. Each
property is about what somebody reads in several steps, so `ReviewInv` says of
each party what still holds of its earlier readings: the case a call has read has not gone
back behind that version and is unchanged while it has it (`CallsSound`); the units before
the one the host is at are recorded and, if they await review, queued (`HostSound`), and a
sample is one of a closed receipt (`SamplesSound`); what the closure has passed is resolved
as planned, and the call it waits for is about the unit it is at (`ClosureSound`); a
receipt found eligible is closed and its cases are final (`EligibleSound`); what is bound
to a rejection was resolved as invalid with those facts (`BindingsSound`). They rest on
`CasesStay`: versions only grow, facts never change, and a resolved case is final, although
the store itself does not look at the status; `History` lets the decision be read off the
events.

`DistillationProofs` proves `TypeCorrect`, `RecordsAreBound`, `PrunableArePreserved`,
`ReceiptsAreTrue` and `RecordedMemoryStays` for any sources, units, policies, texts,
processes and faults. It assumes that units have keys and texts (`UnitsAssumption`)
and that `None` is no id and no row. `DistillationInv` has four parts:

* `Types`, with the counts a run and a refresh carry;
* `Bound`: where each run is (`Placed`), what it holds (`Owned`): a candidate it is about
  to commit is in no commit and no other run's, one it has replaced is closed, a memory it
  has committed is bound by a commit to its unit and candidate; and every record that names
  a memory is true;
* `Ledger`: what receipts, runs and the refresh list was committed, and the records a run
  was told of at its beginning still name the same memories;
* `Runs`, for a source that one host runs: while the run is under way the receipt is not
  complete and every unit it has passed is settled and listed, unless one awaits review;
  a receipt the refresh found complete still is.

A step of a run writes at most one table. `Frame` says what it leaves alone,
`CandidateStep`, `QuietStep`, `PutStep` and `RecordStep` reduce the invariant to what has to be shown
of the run's new state, one for each table written, and each action has one lemma. The
proof showed why the invariant can say of a stored receipt only that it is *complete* or
not: an error in the read after the closing put reopens a receipt that awaits review, and
the stale write of a refresh may then put `awaiting_review` over a run under way.

`InsightPromotionProofs` proves `TypeCorrect`, `InsightPromotedOnce` and `RecordsAreTrue`
for any insights, memories, keys, approvals, promoters and faults. It assumes the types of
the constants (`PromotionAssumption`) and that `None` is no promoter, id or row.
`PromotionInv` says of each phase of a promoter what still holds of its earlier reads and
writes (`ProcessSound`): the record it read or wrote is there, with its insight, with the
candidate once linked, and not rejected. `Kept` is why: records, links, acceptances,
candidates and commits are never taken back, so `ProcessKeeps` carries the knowledge of
every promoter over the step of any other. `PutSound` shows that a write the triggers let
through keeps one record per insight and adds the event of its transition and no other.
The lock is not used for any of this: it is taken, lost and given back, and one record per
insight, one commit per key and links that cannot be replaced are enough.

`ReportsArePlanned` rests on an invariant of its own, `ReportInv`. What the operator
reports follows from counts: the revision of the target before and after, and the number
of all revisions. So `ReportInv` relates a plan to the tables. A plan was made before
any commit of its insight (`Foreseen`), and while its promoter is at work the target
has moved no further since the validation than the sum of all revisions
(`PlanSound`); if that sum has grown by one, the commit between is the plan's. The sum
is a fold of the library over the memories, and `SubsetInduction` does what the library's
induction theorems cannot do here: a property is given by the set that has it, and
a smallest counterexample exists because the naturals are well-founded. Its one new
assumption is that there are finitely many memories.

`CanonicalStoreProofs` also proves the two modules above the write path.

For PostgresCommit it proves `PgInvariance`, and from it `NoDeadlock` and
`AtomicCommitIsImplemented`, for any callers and any interleaving of their statements.
`PgInv` says who holds a lock, that no name is held twice (`LocksExclusive`), that a
transaction holds a lock only at statements behind the one that takes it
(`LocksOrdered`), and that what a transaction has read is still so because it holds
the lock that keeps others from changing it (`ReadsHold`). The order of statements is the
order of locks: whoever waits holds locks of lower rank only, so a circle of waits would
be a strictly growing one. From `ReadsHold` follow three things the code relies on
without looking: the guarded UPDATE of a head always finds its row, the unique constraints
never fire after the locks, and a COMMIT is the atomic Transact of CanonicalAuthority on
the tables as they are at that moment. Every other statement leaves the committed tables
alone, rollbacks included.

For VerifiedRead it proves `AllowedAreCurrent` and `HiddenByRestoreOnly`. `ReadInv` says
that a head a retrieval has read was backed by its revision, and still is, since
rows never go away (`HeadBacked`); so what the second reading finds unchanged is
current, without any lock. `HiddenByRestoreOnly` assumes that no input is a restore:
then the two fingerprints of every revision agree (`FingerprintsAgree`) and nothing is
withheld that the document does not list. With restores the property is false, which
is the finding of `restored_read`.

`SourceSyncProofs` proves `SyncInvariance`, `ProgressIsKept`, `HeldIsSettled` and
`SettlesUndisturbed`, for any sources, pollers, versions and faults. A
checkpoint is two files of which a power loss keeps any prefix that was not
synchronised, so `DiskFine` speaks of every snapshot and every journal that may be
left, in every combination: each is readable, answers only what was acknowledged or
is about to be, and names settled versions only. `FilesAt` says for each point of a save or an append
what has been written and synchronised, `CopyAt` and `UnitAt` what the poller holds in
memory. `LockHeld` makes the creator of the lock file the only one of whom that has to
hold. Its assumption is that the names of the lock file and `None` are different.

For HistoricalMigration `OperationsProofs` proves `CheckpointCoversAll`. `MigrationInv`
says that a saved state leaves no unit of the source behind and counts none twice
(`Checkpointed`), that a host's window goes on from the state without a gap
(`WindowSound`), and that each receipt is of the content whose fingerprint is kept
(`EntrySound`). Units of the source only vanish and receipts only accumulate, so what one
host knows survives all others (`HostKeeps`); the proof does not use the lock. It assumes
that a predecessor's state stopped at a unit up to which it counts every one.

`ContextCaptureProofs` proves `NothingIsDropped` and `MergesAreUnambiguous`, for any
servers, contexts and posts. The first takes two things. One is about
`mergeVisibleContext`: whatever it merges, the result has the messages captured before
and the texts of the context in their order (`MergeKeeps`). It goes by induction over
the pieces between the messages captured before (`PiecesFacts`): the first i pieces have
the first i messages, and the context up to the last one of them that is matched
(`Seen`). Of the alignment only that its pairs are ordered and match is used, not that it
is a longest one. The other is `CaptureInv`: a server between the comparison and the
release has the lock, what it may write is later than the capture and a publisher's
precondition has found the capture to be the one it merged with; that revisions of
captures are equal means they are the same, because the time of a capture only grows. It
assumes that contexts are sequences, posts have a time, and that the lock file tells the
names of servers from `"none"` and `"stale"`.

`MergesAreUnambiguous` needs the theory of the alignment. The recursive functions
`forward` and `backward` exist and are what their equations say (`ForwardUnfolds`,
`ForwardExists`), and no set of ordered matching pairs within the first i and j messages
has more members than `forward` counts (`WithinIsCounted`, `BeyondIsCounted` for what
follows). So when the alignment is unique with L pairs, it is the only matching of L
pairs (`MatchingsAreAligned`). A conversation that has both sequences in order places
each message somewhere; the places that both use are a matching (`CommonIsMatching`), so
of m captured and l visible messages at least m + l - L places are needed
(`NoneShorter`), and a conversation with exactly that many uses each and shares those of
the alignment. If all that is visible was captured, it is the capture. Otherwise that says
which messages coincide but not how the others lie. The test on neighbouring pairs
(`Orderable`) is what settles it: between two pairs at most one side has messages of its
own, so the pairs tell the order of any two messages (`PairsTell`),
the rank of every message is the same in both conversations (`RanksAgree`) and the
conversation is one (`OneConversation`). What the code builds has m + l - L messages
(`MergeLength`), so it is that one. `MergesIn` carries this from the read of the capture
to the put.

Every safety invariant and every action property that a run checks and that holds is
stated by a theorem. Only TLC checks liveness, `CatchesUp` and `EventuallyDone` (the
proof system has no rules for fairness and ENABLED). `NothingHidden` holds for every
value of the constants without a restore and is refuted with one.

## 6. Plan

1. The admission policy's decision table as a pure operator against a reference
   definition.
2. The separate checkpoint of the Hermes sync; an abstract progress store that
   CheckpointFile and the migration's state file implement.

### Not modelled

HTTP parsing and authentication, recall and reflect, HTTP delivery, parsing of source
formats, the retrieval view, the Obsidian projection, reports of operator scripts. They
keep no state between calls and what they may answer is already a free choice in the
models. The rules by which texts are classified and related are taken as the answers
they may give.
