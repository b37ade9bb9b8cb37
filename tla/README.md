# Glassroot: TLA+ models, checks and proofs

Glassroot turns GitHub webhooks into analysis jobs for pull requests, imports
the source of each job into an immutable local store, runs it in a sandbox and
compares the observations. This directory models both halves: the services from the
webhook to the imported source, and the analysis from the pipeline file to the verdict.
It model-checks them with TLC on small instances, and proves with TLAPS, for every
instance, the safety properties of the services (both databases, the receiver, the
broker, the controller with the contract it keeps, the ingester), of one execution with the
evidence bundle it publishes, of the local run, of the way from a pipeline file and a
Git tree to a plan and a workspace, and of the review from the recorded attempts to the
verdict. Every invariant and action property of the passing runs is stated by a theorem;
liveness stays with TLC.

All source paths below are relative to the repository (`src/` in `PROJECT.json`).

## 1. Inventory

The services of the pipeline are separate processes that share SQLite databases
and Unix sockets; the analysis side is a set of libraries driven by one command.

| Component | State it keeps | Operations | Talks to | What is hard about it |
|---|---|---|---|---|
| webhook receiver (`internal/githubreceiver`, `internal/githubapp` verification) | semaphore of handlers, open connections, secrets | verify, classify, accept, answer; listen, shut down | writes the inbox | capacity, shutdown while handlers run, answer only after commit |
| inbox and outbox (`internal/githubinbox`) | `github_inbox`, `github_outbox`, receiver binding | `Accept`, `ClaimOutbox`, `AcknowledgeOutbox`, `ReleaseOutbox`, `Open`, `Close` | written by the receiver, drained by the controller | redelivery, stale leases, textual time |
| controller (`internal/githubcontroller`, `cmd/glassroot-controller`) | none durable; locals of one record | `ProcessNext`, `ProcessRecord` and its four paths | inbox, controller store, broker, GitHub API | two databases with no common transaction; crashes between commits; slow processes |
| controller store (`internal/githubcontrollerstore`) | pull requests, targets, jobs, attempts, source requests, processed deliveries, reconcile leases, Check Run bindings | reconcile leases, snapshots, rerequests, installation hints, source leases and results | controller and ingester | generations, supersession, late results |
| source ingester (`internal/githubsource`, `cmd/glassroot-source-ingester`) | locals of one request, staging directory | `ProcessNext`, `ReuseIfAvailable`, `Import` | controller store, broker, git | import longer than a lease, moving refs, crash after publication |
| source stores (`internal/githubsourcestore`) | published directories, metadata | open, verify | written by the ingester, read by workers | two writers of one directory |
| credential broker (`internal/githubbroker`, `internal/githubauth`) | connection count, token leases | issue a token over a Unix socket | controller and ingester | limits, deadlines, shutdown |
| GitHub API client and App model (`internal/githubapi`, `internal/githubapp`) | none | requests, decoding, classification tables | GitHub | response validation |
| bare Git object store (`internal/gitstore`) | git subprocesses | list trees, read blobs, fetch, with limits | git | process cleanup, limits |
| runner contract, fake and Docker runner (`internal/runner`, `internal/dockerengine`) | one execution: container, streams, deadlines, event sequence | expand attempts, execute, stream, clean up | Docker Engine, evidence session | cleanup on every failure, timeouts racing exits, limits reached in the middle of a frame |
| materialization and artifact collection (`internal/materialize`, `internal/artifactcollect`) | workspaces, budgets | copy a tree, walk and collect files | git store, evidence session | links that lead out, limits, omissions |
| evidence bundles (`internal/evidence`) | a writing session, a published directory | begin, append, write logs and artifacts, commit, abort; open, verify, read again | file system | crash before publication, writer and reader must agree, files changed after verification |
| local run (`internal/localrun`) | staging and output directory, open workspaces, engine connection | prepare, run, report, publish, clean up | all libraries | order of deferred cleanups, two runs for one path, loss of power |
| configuration and planning (`internal/config`, `internal/pipeline`) | none | parse, validate, load the trusted file, compare with the head's, build the plan | git store | strictness; the head must not decide |
| comparison, normalization, policy, waivers (`internal/observe`, `compare`, `policy`, `waiver`) | none | functions of the recorded attempts and of two commits | evidence | no difference may get lost in any of four passes; incomplete is not absent |
| reports and inspection (`internal/report`, `internal/inspect`) | none | verify, rebuild the plan, run the chain above, build the report | all of the above | every refusal leaves a request without a report |
| demo, gVisor spike, command line, shared model | none of their own | wiring, formatting, validators | | |

What makes the modelled components correct:

* **Receiver**: an answer is true of what the inbox durably holds; limits on
  connections and requests neither leak nor are exceeded; a shutdown does not
  take the store or the secrets from a running handler.
* **Broker**: only an accepted peer with a valid request makes GitHub mint a
  token; limits do not leak; every client is answered or disconnected.
* **Inbox**: a delivery accepted is queued exactly once with the content that
  came first; a lease generation is a fencing token; nothing acknowledged is
  touched again.
* **Controller store**: the row of a pull request, its job, attempts and source
  request move together; superseded work stops as a whole and stays stopped;
  every delivery takes effect in exactly one transaction.
* **Controller**: across two databases, a record is acknowledged only after its
  effect is durable; the view of a pull request never goes back to an older
  snapshot; every queued record is eventually acknowledged.
* **Ingester**: a published store holds what its ID names, is never overwritten,
  and exists before a job is handed to a runner; every request that can succeed
  is eventually settled.
* **Runner and evidence**: whatever fails, a published bundle is whole and its own
  reader accepts it; a bundle that calls itself complete lost nothing; damage after
  the commit is noticed; a container the runner was told of is removed, or the run says
  that it could not; nothing but the read of a frame waits for the container.
* **Local run**: the output directory is whole or absent, a reported success
  survives other runs, kills and a loss of power, the owner's files are not replaced.
* **Configuration, planning, materialization**: what is accepted is within the
  limits, least and largest, every difference between two accepted files is reported,
  the head's file decides nothing unless it cannot be read (then there is no plan), the
  workspace is the tree and leads nowhere else.
* **Review**: every difference of behaviour reaches exactly one record, confidence and
  absence are claimed only on complete evidence, a request passes only when every
  difference was granted by the base's owners, what the head can choose (process
  numbers, times of events, its own waivers) does not change a verdict that is given,
  and a run is left without one only for a reason that can be named.

`PROJECT.json` lists the hazards at their lines and the properties that cover them.

## 2. Modules

| Module | Models | Uses |
|---|---|---|
| `StoreBase` | the clock, and the two textual time formats of the stores | |
| `Inbox` | `internal/githubinbox` | `StoreBase` |
| `ControllerStore` | `internal/githubcontrollerstore` | `StoreBase` |
| `StoreProofs` | theorems about `Inbox` and `ControllerStore` | both, TLAPS |
| `ReconcileContract` | abstract specification: what the controller promises | |
| `Controller` | `internal/githubcontroller`, composed with both databases, the receiver's store call and GitHub | `Inbox`, `ControllerStore`, instance of `ReconcileContract` |
| `ControllerProofs` | theorems about `Controller`, and that it implements `ReconcileContract` | `Controller`, `StoreProofs` |
| `SourceIngester` | `internal/githubsource` and `internal/githubsourcestore`, composed with the controller store, the controller and GitHub | `ControllerStore` |
| `SourceIngesterProofs` | theorems about `SourceIngester`, and that it uses the store as `ControllerStore` allows | `SourceIngester`, `StoreProofs` |
| `Receiver` | `internal/githubreceiver`, `cmd/glassroot-receiver`: connections, handlers, limits, timeouts, shutdown, on top of the inbox | `Inbox` |
| `ReceiverProofs` | theorems about `Receiver`, and that it uses the inbox as `Inbox` allows | `Receiver`, `StoreProofs` |
| `Broker` | `internal/githubbroker` server and client, `cmd/glassroot-credential-broker` | |
| `Evidence` | `internal/evidence`: the session's operations and the strict reader, as operators | |
| `Execute` | `internal/runner`, `internal/runner/dockerdev`, the engine calls, the capture hooks of `internal/localrun`, `internal/artifactcollect` | `Evidence` |
| `ExecuteProofs` | theorems about `Execute` and the bundles of `Evidence` | `Execute`, TLAPS |
| `LocalRun` | `internal/localrun`: `Run` with its deferred functions, and the output path | |
| `StandaloneProofs` | theorems about `Broker` and about `LocalRun`, which share nothing with the rest | `Broker`, `LocalRun`, TLAPS |
| `PipelineConfig` | `internal/config`: parser, validation, trusted load, comparison | |
| `Materialize` | `internal/gitstore` listing and reading, `internal/materialize` | |
| `Planning` | `internal/pipeline`, attempts and capabilities of `internal/runner`, the plan rebuilt by `internal/inspect` | `PipelineConfig`, `Materialize` |
| `ConfigTrust` | a pull request whose files are edited: the preparation of a local run in every state | `Planning` |
| `ConfigProofs` | theorems about `ConfigTrust` and the functions under it | `ConfigTrust`, TLAPS |
| `Observe` | `internal/observe` | |
| `Compare` | `internal/compare` | `Observe` |
| `Policy` | `internal/policy`, `internal/waiver`, the checks of `internal/report` | `Compare` |
| `Review` | runs, inspections and the people around them: `internal/inspect` on top of all passes | `Policy` |
| `ReviewProofs` | theorems about `Review` and the passes under it | `Review`, TLAPS |
| `MC*` | model values, symmetry and snapshot sets for TLC | |

An operator whose name has a suffix after an underscore (`HoldsLease_OwnerOnly`)
is a mutated form of a definition that follows it. It is used only to show
that a property notices the corresponding bug.

### How state and actions correspond to the code

**Transactions.** Every store operation runs in one transaction of a SQLite
database in WAL mode, so it is one action. The transactions are deferred
(`BeginTx` with no options): one that has read and then finds that another
connection wrote cannot become a writer, gets a busy error and rolls back, so the
ones that commit are serialisable. An operation that returns an error rolls back
and is a stuttering step of the store; what its caller then does is an action of
`Controller` or `SourceIngester` (`LeaseBusy`, `ApplyRefused`, `Release`).

**Identifiers.** Outbox, target, job, attempt and source IDs are hashes of what
they name. In the models an outbox row is indexed by its delivery, a job by pull
request and generation, an attempt by job and number, a source store by pull
request and target.

**Time** is counted in ticks, `TicksPerSecond` to a second. `formatTime` of the
controller store truncates to the second (`WholeSecond`). `formatTime` of the
inbox writes RFC3339Nano, which drops trailing zeros, so its texts do not sort in
time order: `05.12Z < 05.1Z < 05Z`. `TextAtMost` is the order of the texts, for any
number `Digits` of fraction digits in any base `Radix` (nine decimal ones in the
code). Comparisons made in SQL use these, comparisons made in Go use the tick.

**Clients.** In the two store modules clients are arbitrary: any lease ever
handed out (`handles`, `granted`, `sourceHandles`) may be presented at any later
time. Whatever a caller does, including stalls, restarts under the same owner
name and retried calls, is a behaviour of these modules. `Controller` and
`SourceIngester` then fix what the real callers do.

**Processes.** A controller process is a record of a program counter and the
locals of `ProcessRecord`: the outbox lease, the deadline of its context, the
reconcile lease and the snapshot. Steps between store calls are separate actions,
so other processes interleave there. `Expire` is the context deadline; `Crash`
loses the locals and keeps both databases; `CallFails` is an error from the
broker, GitHub or a database. An ingester process is built the same way, with the
staged content as a local.

**Servers.** In `Receiver` and `Broker` a connection is a record of the program
counter of its goroutine and its locals, and the semaphores are the numbers of
tokens in their channels. `limitedConn.Close` reads `release`, calls it and clears
it without a lock, and both the goroutine of a connection and `http.Server.Shutdown`
call it, so its parts are separate actions (`CloseChecks`, `CloseReleases`, and
`ShutdownChecks`, `ShutdownReleases`). A request is reduced to the delivery it
carries and the first check of `handle` it fails; which bodies `dispositionFor`
queues is the constant `EnqueuedBodies`. The receiver's timeouts are compared with
the clock, because their order matters; the deadlines of the broker may pass at
any step, so a step under one succeeds or fails. From `net/http` the model takes
what the receiver relies on: the write deadline is set when the header of a request
has been read, an answer is written after the handler has returned, and
`Shutdown` polls, closes idle connections under the mutex of the server, and waits
for the others or its context.

**Externals.** GitHub is `github` (a version and a snapshot per pull request)
and `sent` (what a delivery announced) in `Controller`, and `pullRef` (what a
fetch yields) in `SourceIngester`. `applied` and `acks` are history variables.

**Sessions and bundles.** An operation of `Evidence` takes a session record and returns
the session after it; state `failed` is the error it returned. A file's content is
the value it encodes and a digest is that content, so "the digest matches" is equality.
`OpenAndVerify` is the reader: manifest, inventory, every index and count, cross-checked
as the code does. `Execute` calls these operators with the faults it chooses.

**One execution.** `Execute` is one goroutine with a program counter per engine or
session call, because the container, its streams, the deadlines (`Expire`: of the
attempt or of the run), failing calls (`MayFail`, `MaxFaults` of them) and the death
of the process come in between. `world` holds what only the environment knows: whether
something was dropped (`lost`), whether the published files were touched (`damaged`), and
whether a container exists whose creation was answered with an error (`leaked`).
Frames are read with the limits of the stream, of the attempt and of the session,
each of which may cut a frame.

**Directories.** In `LocalRun` a directory has the entries processes see and the
entries on disk. `fsync` makes the second equal to the first, and `PowerLoss` makes
the first equal to the second. A run is the order of its calls and, from the first
failure on, the order of its deferred functions. `owner` is what someone else puts at
the output path.

**Documents and trees.** A YAML document is a tree of nodes; a scalar is what its text
means (a good or a bad text, an integer, a number with a unit), so the parser's
structural rules, the limits and the unit arithmetic with its overflow check are kept and
the spelling is not. A Git tree is a sequence of `ls-tree` records, a path a sequence
of names, a link's target a sequence of names with `..`. `ConfigTrust` has no
process: its actions are the author's edits of the head and the merge, and its
properties say what `Parse`, `Compare`, `Materialize` and `Build` make of every state.

**Observation to verdict.** `Observe`, `Compare` and `Policy` are functions.
`Review` drives them: attempts run with event sequences from a given set, the run may be
interrupted, the bundle is inspected, and then waivers and configuration are
edited, merged, expire, and the plan is run again. A semantic digest is the value it
is computed from, durations included; the time of an event is in it only when the plan
does not ignore it. `granted` is the history of what waivers were written for. A file too
large for `gitstore` cannot be read (`CannotBeRead`, `Readable`): its error matches neither
`config.ErrRevisionFileTooLarge` nor that of the waivers, so the branches of the code for
these two are never taken. The changes of a configuration are a list of scopes, since two
changes with the same path after truncation have one finding identifier.

### The abstract specification

`ReconcileContract` has no leases, stores, processes or time. It says that a
delivery takes effect at most once, brings the view of its pull request at least
as far as the change it announced, and never takes the view back. `Controller`
implements it under the mapping in `Contract`: the view is the version of the
snapshot last applied, and the deliveries done are those in
`processed_deliveries`. It is checked as property `KeepsContract`.

The properties of the analysis side compare the code's passes with reference
definitions of another shape: `EveryDifferenceIsRecorded` counts occurrences per
variant and attempt and says nothing of anchors, matching or coverage records;
`WorkspaceIsTheTree` follows links by name where the code cleans paths;
`AttemptsCoverPlan` is a bijection; `ChangesAreReported` compares parsed documents field by
field.

## 3. Runs

| Run | What it checks | Instance |
|---|---|---|
| `inbox` | `EnqueuedAtomically`, `AckByNewestLease`: queued exactly once, fenced by the newest lease; `TakeoverWithinExpirySecond`: never taken over before the expiry second | 2 deliveries, 2 receivers, 2 owners, 2 ticks per second, 5 instants |
| `store` | `CurrentJobMatches`, `LiveWorkIsCurrent`, `SourceDrivesJob`, `StoppedStaysStopped`, `EffectOncePerDelivery`: row, job, attempts and source request agree, supersession as a whole and for good, one effect per delivery | 1 pull request, 2 targets, 3 deliveries, 3 generations, 2 attempts |
| `controller` | `AcknowledgedHintsReflected`, `ViewMatchesSnapshot`, `KeepsContract`, and `ControllerInvariant` (types, `AcknowledgedWasProcessed`, `ReconcileIsExclusive`) | 2 processes, every kind of delivery, 3 changes, a pull request that closes, 1 fault anywhere |
| `controller_live` | `QueuedIsAcknowledged` | 1 process, 2 changes, 1 fault in the first ticks |
| `ingester` | `PublishedHoldsTarget`, `StoresAreImmutable`, and `IngestInvariant` (types, `RunnableHasSource`) | 2 processes, 2 targets, 3 deliveries, 1 ref movement |
| `receiver` | `AnswersAreTruthful`, and `ReceiverInvariant` (types, `SlotsMatch`, `GracefulStop`) | 3 connections, 2 connection slots, 1 request slot, every kind of request, 2 starts |
| `broker` | `ClientIsSettled`, and `BrokerInvariant` (types, `SlotsMatch`, `OnlyValidRequestsMint`) | 3 clients, 2 connection slots, 1 request slot |
| `execute` | `PublishedVerifies`, `CompleteMeansNothingLost`, `DamageIsNoticed`, `OnlyReadingHangs`, and `ExecuteInvariant` (types, `NoContainerLeft`) | 2 attempts, 2 frames, 7 workspaces over 2 paths, 3 ways to exit, 1 failing call, limits that 2 frames exceed |
| `localrun` | `SuccessLasts`, `NothingLeftBehind`, `OwnersFilesStay`, and `LocalRunInvariant` (types, `OutputIsWhole`) | 2 runs for one path, any number of failing calls, kills, losses of power |
| `config` | `AcceptedIsUsable`, `ChangesAreReported`, `AttemptsCoverPlan`, `WorkspaceIsTheTree`, `HeadDecidesNothing` | 2 edits of a document that has every section, or of a tree of nine entries; 19 trees; least values above 1 for memory, disk and timeouts; merges |
| `review` | `EveryDifferenceIsRecorded`, `HighConfidenceIsEarned`, `PassedIsReviewed`, `HeadWaiversDecideNothing`, `PidsAndClocksDecideNothing`, `EveryRunIsReviewed` | 5 plans with up to 2 scenarios or 2 repetitions, 16 event sequences, 6 configurations of the head, 3 commits, 3 runs, 4 instants |
| `execute_index` (violation) | `CommittedIsReadable` | 1 attempt |

A conjunction of invariants is one entry of a run; TLC names the state that breaks it, and
its parts stay separate definitions for the proofs.

`MCConfig` also states `MatchedRunnersFit`, evaluated over every argument of
`MatchCapabilities`.

### Bounds and why they are enough

Two processes, one record of each kind and two targets are what a stale write
needs: one process that is late and one that overtakes it. Three deliveries and
three generations let a pull request go from a first job to a second and to a
blocked or closed state. One pull request is enough in the runs because no
operation relates two pull requests except the installation hint and the order
of source requests, which the proofs cover for any number. `MaxLeaseGen`,
`MaxStoreLeaseGen` and `MaxGen` stand for `math.MaxInt64`, where the code refuses
to go on; `MaxAttempts` is `MaxAttemptsPerJob`; reaching them in a small instance is
how the overflow guards are exercised. `MaxTime`, `MaxVersion`, `MaxMoves`,
`MaxConflicts` and `MaxFaults` only bound the exploration. Two binary digits of a
second in the inbox run are the smallest resolution at which both misorders happen:
a whole second after its fractions, and a shorter fraction after a longer one that
it begins. The clock
stops at `MaxTime` and the other bounds stop the clients, so deadlock is not
checked: the instances, and not the system, run out.

The receiver and the broker need two connections, so that one can find the request
limit reached by the other, and a third to find the connection limit reached.

In `execute` the limits are placed so that each is reached while the others are not:
a frame of 2 bytes against 3 bytes per stream, per attempt and for all logs, 8 events per
attempt against 13 per bundle and 7 of the runner, 2 artifacts against 3 artifact
bytes. The second attempt meets what the first has used up. One failing call is
enough because every failure leads into the cleanup; a failure *of* the cleanup is
the one call that fails then.

`localrun` needs no bound: two runs and one path have 13,571 states.

In `config` two edits are a change that is merged and another on top of it, or a
change and its repair. Of a list of two the second element is edited; edits of the list
itself reverse it. Each limit
lies one above what the first document or tree holds, so that some edit exceeds it.
`MaxInt` is 15 and a unit 4, so that 4 * 4 overflows. The least value of memory, disk and
timeouts (16 MiB and 100 ms in the code) is 2, so that the edit to 1 is below it and not
below what every other quantity needs. `WalkSteps` is 24, several
times the names of a path and of the links on its way in the trees of the run. The proof holds for any number of steps.

In `review` the event sequences hold the cases the passes distinguish: a repeated
behaviour, one that was denied, a reused process number, an orphaned or
unordered start, a reordering, a payload that does not fit its kind, paths inside
and outside the roots. Two repetitions make behaviour unstable; two scenarios
show that they are kept apart. Two governance findings are allowed, so that two changes
fit and a third finding does not; some of the runs exceed a limit on evidence references. Three commits are the first base, a request, and the
request after the merge.

Symmetry is used on deliveries, workers, processes, targets, connections and runs in runs without
liveness properties; no definition or property singles out one of their elements.

### Fairness

* `WF(WorkerStep)`, `WF(ProcessStep)`: `runServe` of both binaries loops until
  it is told to stop; a step that can be taken is taken.
* `WF(Deliver)`, `WF(StartReceiver)`: the receiver is up and GitHub redelivers
  what was not accepted.
* `WF(ControllerTick)`, `WF(IngestTick)`: time passes.
* `WF(ConnStep)`, `WF(ShutdownStep)`, `WF(HandlerStep)`: goroutines run.
  `WF(Hangup)`: the read-header and idle timeouts end a connection that waits.
  No other wait of a handler is unbounded: bodies, the intake and the
  broker's frames and calls are under deadlines.
* `Execute`: `WF(Executor \/ Frames)`: the goroutine runs. `WF(Expire)`: deadlines pass.
  Nothing is assumed of the container, which may run and be silent for ever.
  `OnlyReadingHangs` says that a run ends or stays in the read of a frame of such a
  container (`dockerengine/frames.go:26`), which is not bound to the deadline.
* Faults are bounded in number (`MaxFaults`) and in time (`FaultsUntil`): the
  properties say what happens *once calls stop failing*. In `Controller` deadlines
  are met after `FaultsUntil` (`Timely`), because a context that always expires
  first is a call that always fails.

`controller_live` has no record that fails by its own content (a foreign
rerequest, a job at its attempt limit): such a record is released and claimed
first for ever, which the documentation admits by naming no dead-letter policy.

## 4. Findings

`execute_index` is expected to be violated. `writeArtifactIndex`
(`internal/evidence/artifacts.go:221`) keeps its records in the order they were added,
stored files first and omissions after them. The strict reader
(`internal/evidence/reader.go:552-556`) wants them sorted by path. An attempt with an
omitted artifact that sorts before a stored one is committed, and rejected when it is
verified, although `docs/LOCAL_RUN.md` and `docs/INSPECT.md` call such a bundle valid.
`PublishedVerifies` shows that this is the only way in which the writer and the reader
disagree.

The models also contain the following differences from the documentation. Where a
definition is named, it states what the documentation says, and TLC refutes it when it
is put into a configuration of its module; no standing run is spent on it.

*Services*

* `TransientFailureIsNotADecision` (`Controller`): any error of `LookupCheckBinding` or
  `GetCurrentPRState` (`githubcontroller/controller.go:128`) becomes the permanent
  decision `rerequest-ignored`; `docs/GITHUB_CONTROLLER.md:36` says transient failures
  release the record.
* `PendingIsConsumed` (`SourceIngester`): the ingester asks for a lease of 15 minutes
  (`githubsource/limits.go:13`) and the store grants at most 5
  (`githubcontrollerstore/types.go:35`), so with the shipped defaults no request is ever
  claimed.
* `ShutdownEnds` under `FairReceiverSpec` (`Receiver`): `limitedConn.Close`
  (`githubreceiver/listener.go:136`) gives the slot of a connection back twice when
  `Shutdown` and the goroutine of an idle connection close it together; the second
  receive waits on an empty channel. If that is `Shutdown`, it holds the mutex of
  `http.Server` and the receiver never stops, in spite of its timeout. While the
  receiver serves, `SlotsMatch` shows it cannot happen.
* `formatTime` of the inbox writes RFC3339Nano and `ClaimOutbox` compares texts, so a
  lease that ends at 5.5 s can be taken over at 5.0 s, while
  `docs/GITHUB_INBOX_STORE.md` says pending or expired records are leased.
  `TakeoverWithinExpirySecond` (checked and proved) shows that the error is below a
  second. The fencing properties hold all the same, so the effect is
  repeated work.
* A record that always fails is released and, as the oldest, claimed first for ever
  (`githubinbox/lease.go:24`).
* A draft or closed snapshot marks the job `superseded`;
  `docs/GITHUB_CONTROLLER_STORE.md` says it is cancelled.
* Nothing reads `MaxImportAttempts`: a source request that cannot succeed is retried
  for ever and, as the oldest, ahead of the others, while
  `docs/GITHUB_SOURCE_INGESTION.md` counts exhausted attempts as a terminal failure.
* The receiver's write timeout (2 s) starts when the header has been read and the
  intake may take 8 s, so the 503 that `docs/GITHUB_WEBHOOK_RECEIVER.md`
  promises for an intake timeout cannot be written.
* The broker's `Shutdown` waits for the accept loop only;
  `docs/GITHUB_CREDENTIAL_BROKER.md` says it lets requests in flight complete.

*Analysis*

* `CreatedIsRemoved` (`Execute`): when the daemon creates the container and its answer is
  lost, `RunAttemptWithOutput` (`runner/dockerdev/runner.go:53-55`) returns before the
  removal is deferred and nothing looks for the container by its name, while
  `docs/DOCKER_DEV_RUNNER.md:161-163` has the runner remove it after any infrastructure
  failure. `NoContainerLeft` shows that this is the only way to leave one without a failed
  cleanup, and that the run then ends at once with an error.
* `DeadlineEndsRun` under `FairSpec` (`Execute`): the read of a frame
  (`dockerengine/frames.go:26`) is an `io.ReadFull` without a deadline. A container that
  neither writes nor ends holds the run past its timeout; `docs/RUNNER_CONTRACT.md:53` says
  the timeouts are honoured. `OnlyReadingHangs` shows that a run waits for ever nowhere else.
* `OversizedIsReported` (`ConfigTrust`): `assessHead` (`config/trusted.go:185`) looks for
  `ErrRevisionFileTooLarge`, and `gitstore` returns an error of another kind
  (`gitstore/blob.go:74-75`). A pipeline file of the head beyond the limit makes
  `LoadTrusted` fail; `docs/CONFIGURATION.md:29` and
  `docs/adr/0003-trusted-base-configuration.md:31` say it is reported.
  `HeadDecidesNothing` shows that only a file that cannot be read has such an effect.
* `HeadWaiversAreReported` (`Review`): the same for a waiver file (`waiver/source.go:78`);
  the request gets no report, while `docs/WAIVERS.md:18-19` says head content is inspected
  and reported.
* `ConfigChangesAreReported` (`Review`): two changes whose paths are equal in the 160 bytes
  that are kept (`config/change.go:251`) have one finding identifier, and `report.Build`
  refuses the second (`report/builder.go:231`); `docs/POLICY.md:240-241` promises a finding
  per change. `EveryRunIsReviewed` names these and all other reasons for a missing report.
* `ListsAreLists` (`ConfigTrust`): `decodeNetwork`
  (`config/parser.go:305-321`) takes a scalar or a mapping in the place of the list
  `allow`, while `docs/CONFIGURATION.md:114` says "explicitly empty array only".
* `CountIncreasesAreReviewed` (`Review`): `docs/POLICY.md:53` and the rules after it
  say that GR-PROC-001, GR-NET-001 and GR-ART-001 trigger on count increases; a rise
  that also changes the stability of a behaviour is recorded as `stability-changed`,
  which only GR-DET-001 looks at (`policy/rules.go:216-228`).
* `docs/POLICY.md` says that unknown filesystem operations fail closed for review: the
  whole inspection is refused, without a report (the last line of
  `EveryRunIsReviewed`).
* After the deadline the runner stops the container and then kills it in the cleanup.
  The kill of a stopped container fails, so the attempt ends with a failed cleanup and
  outcome `timed_out` is never returned (`runner/dockerdev/runner.go:148-159`).
* `docs/LOCAL_RUN.md:31` says an existing path is never overwritten. An empty directory
  created between `Lstat` and `Rename` is replaced; `OwnersFilesStay` shows that
  nothing with content is. When the parent cannot be synced the output is removed
  again, file by file and ignoring errors (`localrun/run.go:175`): the exception in
  `OutputIsWhole`.

Seen while reading, outside the models: `docs/GITHUB_SOURCE_STORE.md` speaks of
directory syncs and of surfaced staging-cleanup failures that
`internal/githubsource/importer.go` does not have.

## 5. Proofs

`tlapm <Module>Proofs.tla` checks the proofs of one module; there are eight of them. The
theorems hold for any sets of deliveries, receivers, owners, pull requests, targets,
ingesters, controllers, connections, clients, runs, attempts, artifact paths, plans,
scripts of events, names, paths and addresses, any documents and trees, any durations, limits and bounds, and
any clock resolution (a power of any base). The assumptions are
those the modules state about their constants (`ClockAssumption`, `InboxAssumption`,
`ControllerStoreAssumption`, `ControllerAssumption`, `ProjectionAssumption`,
`SourceIngesterAssumption`, `ReceiverAssumption`, `BrokerAssumption`, `RunsAssumption`,
`EvidenceAssumption`, `ExecuteAssumption`, `ConfigAssumption`, `MaterializeAssumption`,
`PlatformAssumption`, `DocumentsAssumption`, `TreesAssumption`, `ReviewAssumption`);
TLC evaluates each of them in the runs of its module. `ProjectionAssumption` says
that the pull requests and Check Runs a parsed delivery names are among those
modelled, and that `None` is no delivery. `DocumentsAssumption` and `TreesAssumption` say
what `yaml.Load` and `git ls-tree` return: nodes with finitely many children, of which the
first is a valid document, and lists of entries with a path, a link with a target.

Every invariant below is a conjunction that TLC checked on the instance of the run first.
The step lemmas have one case per action, and under it one step per conjunct
the action can disturb. A module that uses a database is first shown to take only steps of
that database's specification, so its invariant is inherited and not proved again.

**Inbox.** The inductive invariant `IInv` is the type invariant, the four
invariants of the run, and two strengthenings: a row that was never queued has no
lease (`AbsentNeverLeased`), and the lease that acknowledged a row is still the
one written in it (`AckedRowKeepsLease`). Without the second, `AckByNewestLease`
is not inductive: a claim of an acknowledged row must be shown impossible. Each action
preserves each conjunct in a step of its own. The action properties follow from
`IInv` and a case split on the action. `NoTakeoverBeforeExpirySecond` holds because the
texts misorder only the fractions of one second, whatever its resolution.

**Controller store.** `StoreInv` is the type invariant with
`CurrentJobMatches`, `LiveWorkIsCurrent`, `SourceDrivesJob`, and three parts that
describe attempts: their numbers form a prefix, they belong to existing jobs, and
existing jobs have targets. Nothing exists beyond the current generation
(the last part of `CurrentJobMatches`) is what makes the next `INSERT` safe, and it is what
ties the four together: a new generation changes one column of each table and
stops the previous one. `StoppedIsFinal` and `GenerationsAreMonotonic` come from
one lemma about what a step may do to each row (`ForwardStep`), and
`DeliveryTakesEffectOnce` from one about what a step that records nothing leaves
alone (`EffectOfStep`).

The type invariants, `OneReceiver`, `GenerationNamesOneClaim`, `AcknowledgedIsFinal`,
`FirstDeliveryWins`, `AttemptsAreDense` and `GenerationsNeverDecrease` are proved for every
instance and are not repeated in the runs.

**Receiver.** `ReceiverImplementsInbox`: handlers, limits, timeouts, crashes and restarts
together only take steps of `Inbox`. `AnswersAreTruthful` looks at answers already
written; it becomes inductive with `PromisesHold`, which says the same of the answer from
the moment its status is chosen, because between that and the write another
handler may accept the same delivery. `SlotsMatch` needs the sets that are counted to be
finite and every open connection to still own its `release` while the server serves.
`GracefulStop` needs `ServerInv`: what each phase of `Shutdown` knows about
the connections it has already given up.

**Broker.** `BrokerIInv` adds to the invariant of the run which phases hold a request slot
(so that `Admit` takes one that is not held yet) and what each phase after a check knows
of the request, so that a minted token leads back to an accepted peer and a valid request.

**Controller store clients: the ingester.** `IngestIInv` joins `StoreInv` with a promise per
process: the target copied at the claim is still the job's, what is staged at
publication is that target, and at the result the store is on disk, also when the
lease was lost meanwhile. The lemma that carries it, `JobHistoryStep`, says that the target
of a job never changes and that only a successful import result makes a job runnable.

**Controller.** `ControllerIInv` joins the invariants of both databases with what a process
knows at each step of `ProcessRecord`. A reconcile lease is deleted when it is
released, so its generations start at one again and do not tell two holders apart. What
keeps a slow process from writing is time: its deadline lies before the expiry it was
granted (`LeaseInv`), from `ProcessingTimeout + TicksPerSecond <= ReconcileLease + 1` in
`ControllerAssumption`. `ReconcileIsExclusive`, `AcknowledgedHintsReflected` and
`ViewMatchesSnapshot` follow. `ContractIsKept` is the refinement: every step is
a step of `ReconcileContract` under the mapping of `Controller` or leaves its
variables alone. The proof splits on what the step does to the processed deliveries.

**Local run.** `RunInv` says for each call of `Run` where the directory is and what it
holds when the call is reached, on the disk and in the eyes of the processes.
`WithdrawnOnDisk` is the case of a loss of power while an output is being taken back.

**Execute and evidence.** `ExecuteIInv` has five parts. `SessionInv` says of a session that is
being written what belongs together: the names it lists and what is under them
(`Listed`), the files on disk (`Written`), events numbered through from attempt to attempt
with only the current attempt's file open (`Numbered`, `OnlyCurrentOpen`), capture states
that say what there is (`StatesTell`), and records and objects that refer to each other
(`ArtifactsRefer`). `Progress` says how far each call of the executor finds the
session: results for the attempts behind it, nothing of the attempts ahead, and for the
current one which files are open and which event came first. `NothingLostYet` follows a
dropped byte or artifact until it has made the session or the run incomplete: the runner
only notes a truncated stream, and it is `AfterAttempt` that passes the note on. `Sound`
is what holds of the staged session from `Commit` on, and `ContainerInv` which calls find
no container. That a lost answer ends the run (`LeakEndsRun`) is inductive as it stands:
every other action needs a call of the executor that is still to come.

The proof has one lemma per operation of a session (it keeps `SessionInv`), one per
stage of the commit, one per check of the strict reader (`ReaderFindsLayout` to
`ReaderFindsCompletion`; together they say that what a session in order stages is
what `OpenAndVerify` asks for, which needs `IndexesSorted` because the index is written in
the order of the records), and one per action. Totals are sums over a
finite set (`SumFunction`), and the commit iterates over the attempts. Both iterations are
shown to exist by induction over sets: the numbers, or the subsets, a claim holds for are
a set, so no operator parameter is needed. `DamageNeverPasses` follows since
the reader compares every file with the entry the manifest gives, so an
accepted bundle is the committed one.

**Review.** A review is one step of `Review` and a long chain of functions. The state
owes the chain little: `ReviewIsCurrent` (what is shown was computed from the bundle, the
commits and the hour there are; every other action makes it void), `WaiverInv` (in a file
the parser accepts, a waiver whose rule is that of its finding was written for it and
`granted` says so), `BundleInv` and `RecordedInv` (a bundle has the attempts of its plan
and has recorded scripts of it). The rest is about the functions.
`EveryDifferenceTheorem` compares the passes of `Compare` with a count per variant and
attempt: a variant that is left over by one pass is what the next one works on, and
coverage records take those of incomplete attempts. `EveryRunTheorem` shows that
`report.Build` accepts what the chain produces, but for the reasons the property names:
records are told apart by their IDs, each finding has its record, the counts add up, and
governance findings differ whenever their changes read differently (`ReadDifferently`,
`Placed`). `HeadWaiversTheorem` and `PassedTheorem`
follow from what a grant in the base's file means. `PidsAndClocksTheorem` is a simulation:
the relation `Alike` between two normalizations, in which process numbers stand for
processes that were started alike, is kept by every event; it is carried along a
sequence by induction over a set of numbers, and the comparison gives equal results for
traces that differ in nothing it reads (`SameTrace`).

**Configuration.** `ConfigTrust` has a small state, and `RevisionsInv` (both revisions hold
files with documents and trees of the given set) is inductive. Each property follows from
it by lemmas about the functions it calls.
`AcceptedIsUsableTheorem`: a document without errors has every section, so each field
that `Validate` checks against its least and its largest value is one that `Pipeline` reads; `IsPipeline`, which strengthens
`Usable` by the shape of the record, is what the other theorems start from. The tree of a
document is built level by level, so that a field lies among the visited nodes is an
induction on its depth. `HeadDecidesNothingTheorem` splits on whether the head's file can be read: if it can, no
branch of the load depends on it, and if not, the load fails. `ChangesAreReportedTheorem`: an empty comparison makes the
pipelines equal field by field, where a list whose elements differ must be seen either at
a position or as a reordering, and keys that no list has twice are what makes "no key
added, none removed, not reordered" mean "the same keys". `AttemptsCoverPlanTheorem`: the
attempts are a flattening of lists of lists, counted with the length of each part; that an
inspection rebuilds the same plan needs the sorted limitations to be a fixed point, and
that is a lemma about the order of paths: it is total, so the number of
smaller paths is a different one for each path of a finite set.
`WorkspaceIsTheTreeTheorem`: after batch `i` of a copy the workspace holds exactly the
entries of the first `i` batches (`IsWorkspaceOf`, `Progress`), whose parents
the preflight has found listed, so no creation collides. A target that `path.Clean` leaves
alone consists of some `..` and then of names only (`CleanTarget`: a name adds one element
at most, so that none may be taken away); with more of them than the link is deep, cleaning
it from the link's directory ends above the root (`Escaping`), which `validateSymlinkTarget`
refuses. Hence along a walk the names to go never rise more than the walk is deep
(`OnTrack`), also when a link leads to a link. The mutant that accepts unclean targets
breaks just this.

The functions of the model that are defined by recursion (levels of a document, flattening,
batches, cleaning, walks) are shown to exist by induction over a set of numbers, and what
they compute is a second such induction.

**Only model-checked.** Liveness under fairness (`QueuedIsAcknowledged`,
`ClientIsSettled`, `OnlyReadingHangs`) and `ENABLED` are out of this prover's reach. `RequestIsSettled`
of the ingester, a liveness property under `FairIngestSpec`, is stated and checked
only on instances with one process that are not among the runs. `MCConfig` builds the
edits of a document with a RECURSIVE operator; no theorem reaches it.

## 6. Not modelled, and why

* Decoding, validation and formatting of requests, records and time zones; path,
  permission and schema checks of the databases: data without control, except the
  order of formatted times, which is modelled.
* What a crash leaves in `.staging` of the source stores: nothing reads it but the
  process that made it.
* The broker's private key, the signing of its JWT, and the mutex of a token
  lease: one owner each. The HTTP clients of `internal/githubapi` and
  `internal/dockerengine`: a call either yields a checked answer or fails.
* The git subprocess of `internal/gitstore` with its environment, version check and
  output limits: a call yields the object or fails.
* The fake runner, which replays a script.
* The sizes of JSON texts and of identifiers, and the limits on evidence references of the
  comparison and the policy: those of the report builder, which are modelled, come after
  them and refuse too.
* Files of a workspace that change while they are collected, modes and owners of directories,
  and texts: names, messages, severities, summaries.
* Rendering of reports, the demo, the gVisor spike and the command line: no state
  of their own.

## 7. Plan

1. *(done)* `Inbox`, `ControllerStore`, `Controller`, `SourceIngester`, the proofs of
   the two stores.
2. *(done)* `Receiver` and `Broker`: limits, timeouts and shutdown.
3. *(done)* `Evidence`, `Execute`, `LocalRun`.
4. *(done)* `PipelineConfig`, `Materialize`, `Planning`, `ConfigTrust`.
5. *(done)* `Observe`, `Compare`, `Policy`, `Review`.
6. *(done)* Proofs: the invariants, action properties and refinements of `LocalRun`, `Broker`,
   `Receiver`, `SourceIngester`, `Controller`, `Execute`, `Review` and `ConfigTrust`.
7. Tables still missing: webhook classification and the job and attempt states of
   `internal/githubapp`, `ClassifyWorkerResult`.
