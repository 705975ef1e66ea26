# Verification of beampipe-core-v2

TLA+ models of beampipe: the durable job queue with its leases, the execution
ledger, the backends it submits to (Slurm over SSH, a DALiuGE manager over
REST), the admission of executions, the preparation of their manifests, the
source registry with discovery, the project revisions, in-app alerts, and the
commands that install and configure a site. TLC checks them on small
instances, TLAPS proves most of the safety among it for
every instance. Paths
below are under `src/`; `repo.rs` is `crates/beampipe-db/src/repo.rs`, `jobs`
is `crates/beampipe-jobs/src/lib.rs`, `api` is `crates/beampipe-api/src/lib.rs`,
`orchestration` is `crates/beampipe-orchestration/src`, `cli` is
`crates/beampipe-cli/src`. `PROJECT.json` maps every definition to its lines.

## The system

Workers, the API and the schedulers run against one PostgreSQL database and
share nothing else. The cluster, the DALiuGE manager and the archive are
reached by requests whose answers may be lost. The command line writes files
that containers and workers read.

| Component | State | Operations | What makes it hard | What makes it correct |
|---|---|---|---|---|
| Job queue (`repo.rs` 5553-7062) | `jobs`, `worker_instances`, `job_claim_history` | enqueue, recurring enqueue, claim, renew, complete, reschedule, fail, retry | expiring leases, recovery by another worker, claims that read before they lock, workers that die or stall | only the latest claim settles; limits hold; jobs settle |
| Worker pool (`jobs` 242-765) | a process: its consumer loops, its heartbeat | spawn, register, drain, shut down, claim, dispatch under a renewed lease | loops go on without a registration, a refused renewal drops a future in the middle of an await | as above |
| Execution status machine (`beampipe-domain`) | none | allows, reconcile, plan a retry | order of the branches | terminal statuses are final, a retry is safe |
| Execution ledger (`repo.rs` 1700-5400) | `batch_execution_record`, artifacts, observations | state patches, ledger patches, begin submission, receipts, name lookups, verification | each a transaction of its own, none fenced by the job's lease | at most one submission, an unanswered submission is never forgotten |
| Execute handler (`jobs` 2599-3850) | a snapshot of the row | stage, store artifacts, pin the manifest, submit, file the receipt, hold or fail | crashes and stale handlers between any two steps | as above; what is sent is pinned and replayed |
| Pollers (`jobs` 3908-5641) | what a tick has seen | poll schedulers and sessions, look uncertain submissions up, retrieve inventories, destroy sessions | results applied later than they were read | ended work is reconciled, ends are real |
| Slurm backend (`orchestration/slurm_*.rs`, `scheduler.rs`, `cancel.rs`) | the cluster's queue and accounting, the files of a session | upload, `sbatch`, `squeue`, `sacct`, `scancel`, SFTP of the inventory | a lost or late response of `sbatch`; the lag between `squeue` and `sacct` | a rejection is definite; a complete lookup that finds nothing proves it |
| DALiuGE backend (`orchestration/clients.rs`, `dim.rs`, `daliuge.rs`) | sessions and drops per node | translate, create, append, deploy, poll, cancel, delete | requests reach the nodes one by one; nodes disagree | a rejection is definite; ends are real on all nodes |
| Operator API (`api` 2960-3760) | a snapshot of the row | create, start, cancel, abandon, retry, drain, resume | decides on an unlocked read; requests are repeated | one execution per key; answers are kept |
| Admission (`repo.rs` 1700-1960, `jobs` 2095-2380) | profiles, executions, advisory locks | create, tick, pin a profile | profile read before the lock; retries beside it | the pinned limit holds for what is admitted under it |
| Source registry (`repo.rs` 160-486, 4505-4634, 5798-5820) | `source_registry`: discovery and workflow claims, pending marks, signatures | claim, release, mark, finalise | claims and marks cleared without their token; batches that outlive their claims | only what was admitted is consumed; the registry does not go back; no change is forgotten |
| Discovery (`jobs` 946-1760) | discovery rows, metadata | query, enrich, persist, mark pending | claims that expire during a query; stored metadata in the place of a query | a due source is checked; the archive is followed |
| Preparation (`jobs` 3213-3470, `orchestration/staging.rs`, `manifest.rs`) | metadata, manifest and its evidence | select, stage, build, pin, replay | readiness, metadata and pins are separate reads and writes | the whole selection is sent, and consumed as it was sent |
| Project revisions (`beampipe-project`, `repo.rs` 6225-6395) | `project_configs`, `project_config_wasm` | validate, upload, activate, run hooks, patch the graph | racing uploads; readers of the active revision | one active revision; what is accepted is usable; patches land |
| Output inventories (`jobs` 5101-5360, `slurm_sftp.rs`) | the publisher's handoff, inventory attempts | retrieve, verify, reject | appears after the end of the job; may be another attempt's | verified outputs are this attempt's |
| Alerts (`beampipe-alerts`, `crates/beampipe-api/src/observability.rs`) | rules, channels, deliveries | evaluate, fire, deliver, edit | cooldown read with the rules, written after the deliveries | one message per window; a backlog keeps being reported |
| Installer (`cli/setup.rs`, `materialize.rs`, `installation.rs`, `doctor.rs`) | `.env`, installation state, bundle, database volume, containers | setup, upgrade, start, stop, uninstall, doctor | killed between any two steps and run again | the database opens; no example secret serves |
| Slurm credentials (`cli/slurm_credentials.rs`, `orchestration/slurm_credentials.rs`) | the files of the slots | init, import, remove, check; a worker opens a session | files replaced one by one while they are read one by one | what a finished command left is usable; a session's host was accepted |
| Authentication, rate limiting, metrics, configuration, provenance | tokens, counters, rows nobody reads back | request handling | none of the protocols' | not modelled |

The parts meet in the database. The API, or the scheduler tick, inserts an
execution and its execute job; a consumer loop claims the job and runs
`run_execute`, which writes the execution row in a dozen separate transactions
and calls the backend between two of them; recurring poll jobs read the rows
that are due and write what they saw; the operator's requests read a row and
write it later. The job's lease token fences the job row. It does not fence
the execution row: what protects that is the set of conditions each
transaction checks again.

## Modules

| Module | What it is |
|---|---|
| `JobQueue` | the queue and the worker processes; one action per database operation, loop step, process event |
| `FencedLease` | the abstract promise of the queue: grant, settle, revoke, expire |
| `JobQueueProofs` | theorems about `JobQueue` |
| `ExecutionStatus` | the pure rules of `beampipe-domain`: status machine, reconciliation, retry plan; used by four modules |
| `ExecutionLedger` | one execution: its row, execute jobs, handlers, submissions, polls and operator |
| `ExecutionLedgerProofs` | theorems about `ExecutionLedger` |
| `SlurmRemote` | one execution on a cluster: what `ExecutionLedger` takes for one call, as the commands it is made of |
| `DaliugeRemote` | the same on a DALiuGE manager with several nodes |
| `SingleSubmission` | the abstract promise of a submission: claim, submit, spend, release, answer, end, learn, forget; implemented by `ExecutionLedger` and by `SlurmRemote` |
| `SlurmRemoteProofs`, `DaliugeRemoteProofs` | theorems about the two backends |
| `Admission` | create and start requests, the scheduling tick, profiles, retries |
| `AdmissionProofs` | theorems about `Admission` |
| `SourceRegistry` | the sources of one project: discovery batches, the execution scheduler's tick, what executions write back |
| `SourceRegistryProofs` | theorems about `SourceRegistry` |
| `Preparation` | from the archive to the submitted manifest |
| `PreparationProofs` | theorems about `Preparation` |
| `ProjectRevisions` | documents, their validation, revisions, hooks, and the graph an execution sends |
| `ProjectRevisionsProofs` | theorems about `ProjectRevisions` |
| `Alerts` | rules, channels, evaluations and firings |
| `Installation` | `beampipe setup` and the commands around it |
| `SlurmCredentials` | the credential commands and a worker that opens a session |
| `MCJobQueue`, `MCExecutionLedger`, `MCSlurmRemote`, `MCDaliugeRemote`, `MCAdmission`, `MCSourceRegistry`, `MCPreparation`, `MCProjectRevisions`, `MCAlerts` | the values of the constants in the instances TLC checks |
| `MCCommandLine` | `Installation` and `SlurmCredentials` side by side, one of them at work in a behaviour |

`ExecutionLedger`, `SlurmRemote`, `DaliugeRemote`, `Preparation` and
`Admission` look at the same execution. Each keeps the columns its questions
need and all the steps that write them; the axes, the reconciliation and the
retry plan are the operators of `ExecutionStatus` in all of them.

### JobQueue

`jobs[j]` is the row of the job with one idempotency key; `registry[w]` the
status column of `worker_instances`, `proc[w]` the process behind it; `slots[s]`
the local variables of a consumer loop in `tick_for_worker`; `history` the
rows of `job_claim_history`. A worker instance has a fresh id at each start, so
a restart is another member of `Workers` and a dead one stays dead.

Time is relative. A row keeps the ticks left on its lease and until
`next_run_at`; `Tick` counts all of them down. A claim takes the next number as
its token, for the fresh UUID of the code.

The claim is two steps, `ClaimBegin` (the worker row is read) and
`ClaimCommit`/`ClaimNothing` (after the pool's advisory lock). Eligibility
compares with the transaction's start time in the code and with the commit's in
the model; the difference is a wait for the lock. Settling compares owner and token
but not expiry, renewing compares all three, as in the code.

What is abstracted: which candidate is taken (priority, aging and
`next_run_at` leave the choice open here), how labels and capabilities match
(`CapableOf`), the length of the retry delay, payloads, and heartbeats, which no
claim looks at.

### ExecutionLedger

`row` has the control columns of `batch_execution_record`. `run[h]` is a
handler: which statement of `run_execute` it comes to and the values it read
from its one snapshot. `call[i]` is what became of the i-th call of
`backend.submit`; it is the outside world, and the program sees it only through
receipts, lookups and polls. `job[n]` is the execute job of the n-th retry, in
the abstraction `JobQueue` justifies: it has at most one holder, `LeaseExpires`
takes its lease, `Deliver` hands it out again, and a stale holder's report is
rejected. `StaleHandlers` says whether a handler may go on after its lease
expired, until its next renewal is refused (`Drop`); `dispatch_with_lease`
cannot exclude it, because the renewal is tried every third of the lease and
its refusal arrives some time later.

Each action is one transaction of the code or one external call. `StatePatch`
is `apply_execution_state_patch` (axes, reconciled into a status),
`LedgerPatch` is `apply_execution_patch` (a status, through the status machine).
`BeginSubmission` is `begin_execution_submission`: the row is locked, checked
again, and the intent committed before the call. `RecordReceipt`,
`RecordUncertain` and `RecordRejection` are the three answers of the call.
`HoldSubmission` and `FailAxes`, `FailLedger` are what `run_execute` does with an
error, after reading the row once more. `LookupQuery`, `RecordNotFound` and `RecordMatch` are
`reconcile_uncertain_slurm_submissions`; `PollQuery`, `SessionQuery`,
`PollApply`, `PollExhausted`, `PollExpire` are the two poll ticks; `PollDies` ends a tick
between two of its transactions.

What is abstracted: patches that touch the manifest, notes or observations
only; provenance and alerts; an ambiguous name lookup, which writes nothing on
the row; the evidence an abandonment needs, which is reduced to
`NegativeLookups` lookups since the last activity of an execute job (the
minimum time they span is left out); the session
identity, which is stable over retries, so a late receipt of an earlier
attempt can match a later one; the writes to the source registry,
which `SourceRegistry` has.

### SourceRegistry

`reg[s]` is the row of a source: its discovery signature and the last executed
one, the pending mark, and the two claims, each a token and whether it still
runs. A signature is the version of the archive it digests. `batch[b]` is a
`discover_batch` job with the token `b`; `runner[r]` a handler of such jobs
with the answers it holds. Versions in `Kept` have metadata with every field the
project requires: once stored, it answers in the archive's place (`Cached`).
`tick[k]` the execution scheduler's tick under the
token `k`, one at a time because a project has one recurring job for it;
`exec[e]` an execution as far as it concerns sources. Its `owes` is the
write to the registry that follows the last status in a transaction of its own.

The discovery scheduler claims sources (`ClaimSources`) and enqueues their batch
in a second transaction (`EnqueueBatch`), a handler queries the archive
(`Query`), writes each source in a transaction that compares the claim token
(`PersistSource`), and releases the claims (`ReleaseBatch`). A handler may
outlive its claim (`ClaimExpires`) and its job's lease (`LoseLease`). The
execution scheduler claims pending sources (`TickClaim`), and for each chunk reads
which are ready (`TickPartition`), unmarks those executed already (`TickSweep`)
and creates an execution (`TickCreate`), until the profile's limit stops it
(`TickCapped`); then it unmarks what it admitted (`TickClear`) and releases
(`TickRelease`). An execution is refused (`ExecuteFails`, `Remark`), completes
with verified outputs in the transaction that consumes its sources
(`CompleteVerified`), or is ended by a poll (`PollEnds`) that finalises, marks or
unmarks them afterwards; that write can be lost (`OwedIsLost`).

What is abstracted: metadata rows and readiness flags (a version has records or
it is in `Empty`), thresholds, rate limits and the caps other than the
profile's, executions composed through the API, executions that end
`not_submitted`, registering and disabling sources, and a scheduler tick that
goes on after its lease expired.

### SlurmRemote

`deployer` is the execute handler inside `submit_slurm_session`: it prepares
the session and uploads (`Prepared`, `Uploaded`), dispatches `sbatch`
(`Dispatch`), receives its output and exit status (`Receive`, `ExitStatus`),
and records a receipt, a definite rejection or an uncertain submission.
`slurm[a]` is what became of the command of the attempt `a`: it may still be
on its way when the handler gives up. The cluster accepts or refuses it, runs
the job, and moves it to accounting (`Account`) before it leaves the queue
(`LeaveQueue`). A job ends in one of the ways of `JobEnds`: its own end, the ends of
its steps, which need be neither its nor each other's, and whether accounting may
omit its root row. `SacctRow` folds such a listing as `parse_sacct_batch` does
(`slurm_batch.rs:119-140`): the root row decides if there is one, or else the step
of the highest rank. `Reported(a)` is what can come of that, and `EndIsReal`
says that the row records nothing else: the end of a step only where the root row
may be missing. A lookup by name lists allocations without steps (`sacct -X`).
`tick` is the recurring poll: a lookup by name, a status poll or a retrieval,
each two queries with steps of the cluster between them. `cancel` signals and
then asks until both sources agree or the polls run out. `inventory[a]` is the
publisher's handoff, which appears in one rename after the job's success.

Abstracted: command lines and their quoting, the bytes of files, the wire
protocols, SSH authentication (`SlurmCredentials` has its files), and the
digest and path rules of an inventory, which are one verdict (`"valid"`).

### DaliugeRemote

`request[kind]` holds the nodes a create, deploy, cancel or delete request may
still reach; `TakeEffect` lets it reach one of them, also after the client
gave up. `session[n]` is the session on a node, `drop[d]` a drop of the mapped
graph, which fires when its inputs are done. A poller reads the nodes' states
(`ReadStatus`, `Aggregate`), asks for drops when a session claims success
(`ReadGraph`, `WithDrops`), records (`ApplyPoll`), counts a round or expires,
and destroys what has ended (`Destroy`). `Pollers` has two members because a
stalled tick and its successor overlap.

Abstracted: translation and partitioning of graphs beyond the drops and their
links, the retries of a request inside the client, and TLS.

### Admission

`call[c]` is a request, or the scheduling tick, at one of its reads, waits or
transactions; `keyLock` and `capLock` are the advisory locks of the create
transaction. `executions[e]` is a row in the order of the commits with the
profile and limit it pinned, its key, its job and its retries. `reply` is
the answer sent in a step. `Lose` drops a request anywhere; a client may send
the same request again at any time.

Abstracted: what a request selects is one of two selections, validation is
one choice, authorisation and the manifest options are left out.

### Preparation

`registry` is the source's row together with the version of the archive its
stored metadata is of. A discovery asks the first query and the enrichments
in order, repeats what may be repeated (`AskAgain`), leaves an optional
enrichment empty that fails, and persists (`PersistDiscovery`). `run[h]` is a
handler from `Read` over readiness (`Check`), metadata (`Select`), staging
(`Stage`, or `Replay` of a pinned manifest), evidence and pin to the
submission. `sent` is what the backend was called with. An archive never goes
back to a former content while the execution lives. At a version in `Kept` the
stored metadata answers in the place of the archive
(`DiscoverySourceResult::Unchanged`), and such a discovery changes nothing but
its claim.

Abstracted: values of records (a record is its group and id), checksums (a
digest is what it is the digest of), presigned URLs, and all axes of the row
the data does not depend on.

### ProjectRevisions

A document is kept as far as one part of it names another: endpoints that
queries name, transforms that mappings and chains name, hooks and their module,
the graph and its digest, patches and what they evaluate to. `Valid` is
`validate_report_against`, rule by rule. An upload validates on a read of the
database and commits as the next version (`CommitUpload`); a discovery and an
execution use the active, or the pinned, revision: manifest, hook, patches,
second hook, graph, each a step of its own. What transforms run is `AllRuns`,
the least set that has the named ones and the steps of every chain in it.

A document may have no `prepare_metadata` (`mapping = None`), and is then not
asked for identities (`IdentityIsMapped`). A mapped field is from the source, a
column of the row or a named enrichment, an enrichment is asked for each value
of a field; validation looks neither name up, so `MayBeGiven` and `Asked` follow
`mapped_value` and `iteration_values` to what such a name gives: nothing. Which
columns the archive has is open. What a discovery lost is kept: the fields whose
value a transform took away for want of a definition or a parameter (`dropped`),
and whether the records have their identities, which is decided after the hook,
by a column of the archive or by the hook itself, and whose want refuses them
(`Prepare`, outcome `no_identity`).

Abstracted: the schema of values that only have to be well formed (`parses`,
`limits`), the inside of WASM hooks (a hook adds its module's mark), the
format of graphs (a set of node and field pairs).

### Alerts

Time is kept as ages, which saturate at `Cap`. `work[w]` is a worker in the
evaluator tick or in the firing of a failed execution or a changed discovery:
it lists rules with their last firing (`List`), skips or fires (`Skip`,
`Fire`), delivers channel by channel (`Deliver`, `Record`), and only then marks
the rule (`Mark`). A call to a webhook in `Silent` may stay unanswered (`Await`,
`Answer`): the worker waits, its lease renewed, until it dies or finds the lease
lost (`Dropped`). `sentAge[r][c]` is the age of the last message of a rule on a
channel, as a receiver sees it. `disturbed` names the rules with overlapping
firings, or one that a fault cut off before its mark: the cooldown is
not meant to hold for them.

Abstracted: message bodies, signatures, the HTTP client; one project module.

### Installation and SlurmCredentials

`Installation` is `run_setup` in the Docker runtime with the managed database.
`env` is the `.env` file, one setting at a time in the code's order; a secret
is the number of the setup that generated it. `volume` remembers the password
PostgreSQL initialised its data directory with, `stack` the environment the
containers were created with. `Stop` kills the command anywhere, `LoseEnv`
deletes `.env`, the other operator commands are actions of their own.

`SlurmCredentials` has an operator's command that writes the files of a slot
one after another (key, public key, passphrase, known hosts, ACL) and a worker
that reads the same files one after another and connects. A key is the number of
the command that brought it. Login nodes may change their host key.

Abstracted: prompts, wording, ports, the samples' contents; the generation of
keys; one operator command at a time; the ACL of a tree is one step.
`MCCommandLine` puts the two side by side: they share no file, and a behaviour
runs the commands of one of them.

Definitions commented "Defect for a mutant run" are wrong variants of the
definition that follows them. No specification uses them. They show that each
property fails when the code is changed in a plausible way.

## Runs

Deadlock is not checked in any run: the system may stop, with every worker
dead, every job settled, every execution terminal, or at a bound.

| Run | Shows | Bounds |
|---|---|---|
| `fencing` | `OnlyLatestClaimSettles`; the queue implements `FencedLease`; `JobsSettle` under `FairSpec` | 1 execute job, 2 workers of 1 loop, lease of 2 ticks, 2 attempts, 5 claims, 2 faults |
| `capacity` | `WorkerWithinLimit` when recurring jobs are moved between pools and leases outlive their loops | 2 recurring jobs, 2 pools, 2 workers, lease of 1 tick, 2 claims, 1 fault |
| `ledger` | `AtMostOneSubmission`, `RetryFindsNothingOutside`, `CancelledIsAnswered`, `AbandonmentHolds`; the ledger implements `SingleSubmission`, with handlers that outlive their leases | Slurm with, or DALiuGE without output verification; 2 handlers, 1 retry, 2 intents, 1 fault, 1 poll fault, 2 lookups |
| `reconciled` | `EndedWorkIsReconciled`, `SuccessIsConcluded` under `FairSpec` when handlers die with their leases | Slurm with and without, DALiuGE without output verification; 2 handlers, 1 retry, 2 intents, 1 fault |
| `slurm` | `AnswersAreComplete`, `EndIsReal`, `VerifiedIsPublished`; the commands implement `SingleSubmission` | 1 retry, 1 cancellation of 2 polls, output verification, commits that fail; 3 ways to end, one always with its root row, two that may lack it, all with a step that ends otherwise than the job |
| `daliuge` | `RejectionIsDefinite`, `EndIsReal`, `DestroyedIsConcluded` | 2 nodes, 2 drops on different nodes, 2 pollers, 2 rounds |
| `admission` | `KeyIsOneExecution`, `AdmittedWithinPinnedLimit`, `StartedAsAnswered` | 2 requests or a request and a tick at once, 2 keys, 1 profile with 1 edit, limits none and 1, 2 executions, 1 retry |
| `registry` | `ConsumedWasAdmitted`, `RegistryNeverGoesBack`, `DueIsChecked`, `ReadyIsAdmitted`, `IncompleteIsFollowed` under `FairSpec` | 1 source with 2 versions, the second complete, 2 batches, 2 runners, 1 tick, 1 execution, 1 fault or operator request |
| `preparation` | `WholeSelection`, `SentIsPinned`, `PinnedIsReplayed`, `ConsumedIsDelivered` | 2 handlers, 4 versions of the archive, 2 selected groups, 1 optional enrichment, 1 discovery, 1 retry, 1 fault |
| `revisions` | `NewestIsActive`, `AcceptedIsUsable`, `PatchesLand` | 3 valid documents (one without a mapping, one that names what it does not have) and one for each rule that breaks it, 2 clients, 2 revisions, 1 module upload, 1 execution of 2 attempts |
| `alerts` | `OneMessagePerWindow`, `BacklogIsAlerted` under fairness | 3 rules of different kinds, 2 channels of which one refuses and may be silent, 2 faults; 2 workers, or 1 worker and 1 edit |
| `commands` | `DatabaseOpens`, `NoWeakSecretServes`, `RunningSecretsSurvive`, `FinishedSlotChecks`, `SessionHostWasAccepted` | 3 setups, 2 releases, 2 faults; or 2 slots, 2 commands, 1 kill, 1 new host key |

`Admission`, `ProjectRevisions`, `DaliugeRemote`, `ExecutionLedger`, `JobQueue`,
`SourceRegistry`, `Preparation`, `Alerts` and `SlurmRemote` run through their MC
modules.

Why the bounds are enough to see the interesting cases.

- Queue: a fencing error needs a holder, an expiry and a second holder: two
  loops, two claims, one fault. The run has five claims and two faults, so a
  recovered job can be lost and recovered again and a job can reach the dead
  letter. Two attempts distinguish "exhausted" from "not yet" at both sides of
  the comparison.
- Ledger: a double submission needs two handlers of one job, or a retry after a
  handler that is still alive; two handlers, one expiry and one retry give
  both. `MaxIntents = 2` lets a second intent happen, which is what
  `AtMostOneSubmission` excludes while the first may exist. A poll fault splits
  a tick in two. Required outputs and DALiuGE do not go together
  (`ensure_publisher_delivery_supported`, `jobs:3557`).
- Backends: one retry lets a late command of the first attempt meet the second
  under the same session name. A job that succeeded has a failed step and its root
  row; one that failed has none, and a cancelled one steps that differ, and may lack
  theirs: that is where the fold of the rows and the job disagree. Two cancellation polls separate "not yet" from
  "given up". Two nodes are the least that can disagree, two drops on different
  nodes the least that can be half done, two pollers the least that overlap.
- Admission: two requests in their critical sections, two keys to confuse, a
  limit of one that the first execution fills and an edit that lifts it.
- Registry: a batch overtakes another when its claim expires under it: two
  batches, two runners, two versions and that one fault. What an execution must
  not consume is the version that came after its admission. The first version is
  incomplete and must be asked about again, the second answers for the archive;
  `IncompleteIsFollowed` promises nothing once a complete version is in. A lost claim must be
  claimed again by a second batch, or by a later tick.
- Preparation: the second version has the same records in another form, the
  third more of a selected group, the fourth none, so a mixture of any two shows.
  One discovery does not come to a `Kept` version; the same instance with two
  does, and finishes without an error in 9.2 million states, too many for a run.
  The proofs hold for any number.
- Revisions: two uploads race; one valid document has no mapping, so its
  enrichment is asked for a field that is not mapped; another has a chain that
  names itself and a group key from an enrichment that there is not; each
  rule of the validation is broken by a document that is otherwise valid.
- Alerts: a digest whose window is longer than its cooldown, a channel that
  refuses, at once, late or never, next to one that works, a rule and a channel that are made later.
- Command line: a kill, a loss of `.env` and a rerun fit in two faults and three
  setups; a half-written slot and the command that repairs it are two commands.

### Counterexample configurations

These configurations are outside the runs. Each states what a document or a
comment says, and TLC finds it violated (`tlc -config X.cfg M`); the findings
below quote the sentences.

| Configuration | Module | Property |
|---|---|---|
| `JobQueue_attempts` | `MCJobQueue` | `AttemptsBounded` |
| `ExecutionLedger_stale` | `MCExecutionLedger` | `StaleWorkerNeverCommits` |
| `ExecutionLedger_cancel` | `MCExecutionLedger` | `CancelledWorkIsStopped` |
| `ExecutionLedger_lostpoll` | `MCExecutionLedger` | `SuccessIsConcluded` |
| `SourceRegistry_lostmark` | `MCSourceRegistry` | `ChangeIsAnswered` |
| `SourceRegistry_rediscovery` | `MCSourceRegistry` | `ArchiveIsFollowed` |
| `SlurmRemote_outputs` | `MCSlurmRemote` | `PublishedOutputsAreVerified` |
| `SlurmCredentials_container` | `SlurmCredentials` | `ContainerReadsSlot` |
| `Alerts_unalerted` | `MCAlerts` | `FailureIsAlerted` |
| `Installation_admin` | `Installation` | `AdminPasswordOpens` |

### Further properties

The modules state more than the runs check. Each of the following holds in the
instance of its module's run when it is added to the configuration: `TypeOK` of
every module, `RecoveredClaimNeverSettles`, `OneLiveHolder`,
`ActiveLeaseNotStolen`, `QueuedHasAttemptsLeft` (all proved, below),
`SubmittedIsReal`, `FinalStatusIsFinal`, `UnansweredIsHeld`, `RejectionIsDefinite`
of `SlurmRemote`, `RerunIsNotRefused`, `LiveWasChecked`,
`EditsAreKept`, `OtherSlotsAreLeft`, `SecretIsKept`, `HooksAreDeclared`,
`AttemptsSendOneGraph`, `TicksWithinModuleCap` and `NoIdleSession`. Those of the
modules that have proofs are proved as well, except `NoIdleSession`. The
inductive invariants of the proof modules hold in the instances of the runs too.

### Fairness

`JobQueue!FairSpec`: every loop polls again after `poll_interval`, a claim
transaction ends, a handler returns or its refused renewal drops it, a
settlement is tried, and time passes. Renewal has no fairness, nor have
operators, shutdown or faults. That a handler returns is justified by the
time-outs around its external calls. `JobsSettle` also assumes, in its
statement, that one loop keeps serving the job from some point on.

`ExecutionLedger!FairSpec`: deliveries and handler steps are weakly fair as
above. `LookupQuery` and `PollQuery` are strongly fair: the recurring poll job
comes back for ever, but the row may leave and re-enter its list between two
ticks, and the poller cannot fail for ever. (The recurring job is dead-lettered
after `max_attempts` consecutive failures and comes back when a scheduler
interval of some process enqueues it again.) The backend's answer to a
submission and the operator's actions have no fairness.

`SourceRegistry!FairSpec`: the recurring ticks come back, a queued batch is
started, handlers and ticks go on, and the claims of what is gone run out. That a
tick claims due sources assumes that the limits on queued and running
discovery work, and the health of the TAP endpoints, let some tick through. A
changing archive, the end of `stale_after_hours`, executions, operators and
faults have no fairness.

`Alerts!Fairness`: a live worker makes progress, time goes on, and the queued
evaluator tick is claimed in the end (strong fairness: other jobs come first,
but waiting raises a job's priority). An endpoint owes no answer (`Await` and
`Answer` have no fairness): `BacklogIsAlerted` assumes in its statement that the
evaluator does not wait for one for ever, nor every worker that serves, since
the webhook client has no time-out (`beampipe-alerts/src/lib.rs:242`). `SlurmRemote!FairSpec` serves
`SlurmRemote_outputs` only: ticks recur, a query that is repeated for ever
succeeds in the end, accounting catches up.

### What the models assume of the outside

An `sbatch` that was answered with a non-zero exit status left no job. A job
stays in `squeue` until it is in accounting. The steps of a job end before it does,
in any way; `sacct` omits a root row only where it lists steps, and only of a job that
has ended, so never in a listing of allocations (`sacct -X`). The work of
`ExecutionLedger` has one end, the one accounting reports. The publisher of an inventory renames it into place
after it is written. A DALiuGE manager's 404 is true, and it answers a request
with success only when every node has applied it. PostgreSQL transactions are
atomic and its advisory locks exclude each other.

## Proofs

### The queue

`JobQueueProofs` proves, for any numbers of workers, loops, jobs, attempts, claims
and faults, from `QueueAssumption` (the constants have their types) and, for
`WithinLimit`, `FiniteAssumption` (there are finitely many loops and jobs):

- `Invariance`: the inductive invariant below;
- `TypeCorrect`: `TypeOK`;
- `Fencing`: `RecoveredClaimNeverSettles`;
- `LatestSettles`: `OnlyLatestClaimSettles`;
- `LiveHolder`: `OneLiveHolder`;
- `NotStolen`: `ActiveLeaseNotStolen`;
- `AttemptsLeft`: `QueuedHasAttemptsLeft`;
- `WithinLimit`: `WorkerWithinLimit`;
- `Refinement`: `ImplementsFencedLease`, the queue implements `FencedLease`.

The invariant that is inductive, `IInv`, is `TypeOK` with five parts.
`RowInv`: a row has a token exactly while it runs, never one that was not yet
granted. `TokenInv` and `SlotInv`: no two rows and no two loops have the same
token. `HistoryInv`: a token that has settled, or that a recovery replaced, is
on no row. `LatestInv`: the token on a row is later than, or is, that of any
claim of the job in the history. The fencing properties alone are not
inductive, because they speak of the history: that a recovered claim will not
settle needs to know that its token left the table when the recovery overwrote
it, and that nothing can bring it back. The one fact that makes both hold is
that every claim takes a token larger than all before. Each action is then one
of three sorts: it leaves tokens alone (`QuietStep`), it takes a token off the
table (`FinishAction`, `ReleaseAction`), or it issues one (`ClaimAction`).

The last four theorems look at what an operation does to the rows
(`ClaimTakes`, `FinishClears`, `OtherRows`). For `WithinLimit`,
`LeasesGrowByClaims` shows that a worker's unexpired leases grow by a claim of
one of its own loops only, and then by one job; the claim has just counted
fewer leases than loops. The refinement maps the token on a row to the holder,
the running leases to the live ones, and the tokens with an outcome in the
history to the settled ones; it needs `RowInv`, because a revocation of a job
nobody holds has to be invisible.

### The registry

`SourceRegistryProofs` proves, for any numbers of sources, versions, batches,
runners, ticks, executions and faults, from `RegistryAssumption` alone:

- `TypesHold`: `TypeOK`;
- `ConsumptionIsAdmitted`: `ConsumedWasAdmitted`;
- `NeverBack`: `RegistryNeverGoesBack`.

`TypeOK` is inductive. `ConsumedWasAdmitted` becomes so with `FinalizeInv`, that
the write which finalises sources follows a completed execution:
`FinalizeConsumes` shows what it consumes to be what the execution was admitted
with, and `CompletedStays` that no later step takes that back. Every other step
keeps the last executed signatures (`LastIsKept`, `PendingRows`).

`RegistryNeverGoesBack` needs `WriteInv`. `AloneInv`: a batch that was not
delivered again has one handler at most, and none before its job was taken.
`NoNewer`: nobody has seen more than the archive has. `FreshInv`: when such a
handler is about to write a source its batch still claims, what it saw is at
least as new as the row. A query makes `FreshInv` true because of `NoNewer`; a
claim that moves on makes it vacuous, because the new batch has no handler yet;
and the only write that could break it, by another handler under the same
token, is excluded by `AloneInv`. That is the place where the comparison of the
claim token is needed, and where a second delivery of the job, which brings the
same token, defeats it.

### The ledger

`ExecutionLedgerProofs` proves, for any numbers of handlers, retries, intents,
lookups and faults, for every deployment, and whether or not handlers outlive
their leases, from `LedgerAssumption` (the constants have their types):

- `LedgerInvariant`, `LedgerTypes`: the invariant below, `TypeOK`;
- `OneSubmission`: `AtMostOneSubmission`;
- `UnansweredHeld`: `UnansweredIsHeld`;
- `RetryIsSafe`: `RetryFindsNothingOutside`;
- `CancelAnswered`: `CancelledIsAnswered`;
- `SubmittedReal`: `SubmittedIsReal`;
- `FinalStatusHolds`: `FinalStatusIsFinal`;
- `AbandonmentIsKept`: `AbandonmentHolds`;
- `EndsInvariant`, `KnownEndsAreReal`: an end that the row has on record is the
  end that the work of its latest intent had;
- `Refinement`: `ImplementsSingleSubmission`, the ledger implements
  `SingleSubmission`.

The invariant says what may exist outside and who knows of it. `IntentInv`:
intents are numbered in the order of their calls. `HeldInv`: an intent whose
call the backend may have taken is the latest one, and the row's submission
state is one that holds automatic work; without an answer it is `in_flight` or
`uncertain`. `CallingInv`: one handler at most waits for the backend, and for that
intent. These three hold each other up. A new intent needs a submission state
that holds nothing, so by `HeldInv` no earlier one may exist; the state goes back
to such a one only by the handler that made the call, on a certain refusal, and
by `CallingInv` what it refuses is the latest intent. `RowInv`, `PollInv` and
`CancelInv` say that what the row, a poll under way and a confirmed cancellation
tell of the outside is true of the latest intent. Most actions are covered by
one lemma, `TameRows`: a step that leaves intents and calls alone and changes
the row in certain ways only keeps the invariant. `PatchedRow` shows that what
`apply_execution_state_patch` writes is such a change.

That a recorded end is real is not inductive: it must hold of everything that is
still to be written. `EndInv` says it of the row's axes, of the answer a lookup,
poll or session query has in hand and of a confirmed cancellation. It rests on `HeldInv`: an accepted call is the
latest intent's and no new intent can be made under it, so what was read before a
lost lease or a died tick is still about the same work when it is written. `FInv`
is the invariant with `EndInv`; TLC has it on the instance of the run.

For the refinement the claim is a submission state that
`begin_execution_submission` refuses, the work of an intent is what became of its
call, and the known end is the scheduler's, or else the session's. Steps fall in
two sorts. Those that change a call are `Submit`, which also uses the claim, `Answer`
and `End`; none of them touches the known end. The others leave the work alone and move the claim
or the known end, never both; by `HeldInv` the claim is freed with nothing
outside, and by `FInv` an end that appears is one that a submission had. `Forget`
is in the promise because the code does it: a poll that finds a job completing
writes `running` over a recorded end (in `SlurmRemote`), and a receipt filed after a
poll has already seen the session's end puts the session back to running (in
`ExecutionLedger`).

The proof corrected one property. An abandoned execution can get a new intent,
with three handlers that all lost their leases, when the abandoned call was
refused after all; `AbandonmentHolds` therefore says that it is not submitted
again unless the call is known to have been rejected.

### The backends

`SlurmRemoteProofs` proves for any numbers of retries, cancellations and
cancellation polls and any ways to end, from `BoundsAssumption`, `FlagsAssumption` and
`JobEndsAssumption` (a listing without a root row has steps):
`SlurmInvariant`, `SlurmTypes`, `RejectionDefinite` (`RejectionIsDefinite`),
`AnswersComplete` (`AnswersAreComplete`), `EndsAreReal` (`EndIsReal`),
`VerifiedPublished` (`VerifiedIsPublished`) and `Refinement`
(`ImplementsSingleSubmission`). `AttemptInv`: only the row's attempt
can have a job, because what was retried left none. `CommandInv`: what the
deployer's step and the submission axis say of this attempt's `sbatch`, where a
failed submission has none. `JobInv`: a job is in the queue or in accounting, and only
one that ended, with steps, is rootless, so that the fold has a row to take.
`TickInv` uses that for the pair of queries: a job that existed when the first one
began, and that it missed, is in accounting by then, so the second finds it.
`KnownInv`, `SeenInv`, `CancelInv`: the end on the row, in a tick's hands or in a
cancellation's is one that accounting reports of the job; since a job and its steps
end for good, such an answer may be written at any later time. `WorstIsOne`: the fold of
some steps is the end of one of them. In the refinement the known end is that of the
job which has one on record; which end the row has is left to `EndIsReal`.

Its refinement is of the same promise with finer steps: the claim is open from
the preparation of the session until `sbatch` is dispatched, so a handler that
gives up before spends or frees it, and a submission is answered by the cluster and
not by the handler. `UnusedIsQuiet` (from `CommandInv` and `AttemptInv`) shows
that under a claim which is free or open no command of any attempt can be
outside, however late one may arrive. `DaliugeRemote` has no such mapping: its
sessions end node by node, and the retries of an execution share one.

`DaliugeRemoteProofs` proves for every physical graph, and any numbers of nodes,
pollers and rounds, from `GraphAssumption` (links are named at both ends) and
`BoundsAssumption`: `DaliugeInvariant`, `DaliugeTypes`, `RejectionDefinite`
(`RejectionIsDefinite`), `EndsAreReal` (`EndIsReal`) and `DestroyedConcluded`
(`DestroyedIsConcluded`). `DeployerInv`: until `create_session` is called the
manager has nothing and will have nothing, and a submission fails only until
then; after it every node has had the session. `Real` says what a reported end
must find on the drops and nodes; it is kept by every step since ends of
sessions, nodes and drops are for good (`DropInv`: no drop waits on a node that
finished), and it holds of the row and, by `TickInv`, of what any of the
overlapping polls has read. `DeletionInv`: a deletion under way has the end on a
terminal row.

### Admission

`AdmissionProofs` proves from `AdmissionAssumption` (there are finitely many
callers, the limits include zero), for any numbers of keys, profiles, edits,
executions and retries: `AdmissionInvariant`, `AdmissionTypes`,
`OneExecutionPerKey` (`KeyIsOneExecution`), `WithinPinnedLimit`
(`AdmittedWithinPinnedLimit`), `StartsAreTrue` (`StartedAsAnswered`).
`HoldsKey`: whoever is past the lookup of its key has the lock on the key, and no
execution has the key. `HoldsCap`: whoever is past the count has the lock on the
profile, and fewer executions than the limit it noted are in flight under it;
other steps can only make that count smaller. `KeyInv` and the property on limits
follow at the insertion. `RoomInv` bounds the creations under way, `ReplyInv` makes
each answer true in the step that gives it. `TicksKeepCap` proves
`TicksWithinModuleCap` under a hypothesis of its own, `OneScheduler`: the tick
counts outside of any lock, and with two the cap does not hold.

### Preparation

`PreparationProofs` proves from `PreparationAssumption`, for every archive, every
list of enrichments and any numbers of handlers, discoveries, retries and faults:
`PreparationInvariant`, `PreparationTypes`, `SelectionIsWhole` (`WholeSelection`),
`SentStaysPinned` (`SentIsPinned`), `PinnedStays` (`PinnedIsReplayed`) and
`ConsumedWasDelivered` (`ConsumedIsDelivered`). Two arguments meet. The first holds
always: `DiscoveryInv`, that a discovery never brings the registry back, gives
`HandlerInv` and `RowInv`, that what a handler carries and what the row pins is
the selection of one version the registry has had since the admission. The
second, `AloneInv`, holds while no live handler has lost its lease: a handler at
work owns the job (`OwnerInv`), it prepares what the row has (`PreparedInv`), and
what was sent is pinned, and held (`PinnedInv`). `ConsumedIsDelivered` needs the
first only: a signature is consumed while the admitted version is still the
current one, and then there is one version only that the manifests can be of.

The proof corrected the model in one place. The discovery of a `Kept` version
persisted as if the archive had answered with the first version and no
records, which took the registry back; it now persists nothing
(`NoDiscovery.found`).

### Project revisions

`ProjectRevisionsProofs` proves from `DocumentsAssumption` (documents have their
fields) and `RevisionsAssumption`, for every set of documents, modules, contents
and requests: `RevisionsInvariant`, `RevisionsTypes`, `OneActive`
(`NewestIsActive`), `RevisionsStay` (uploads only add), `HooksDeclared`
(`HooksAreDeclared`), `AcceptedUsable` (`AcceptedIsUsable`), `OneGraph`
(`AttemptsSendOneGraph`) and `PatchesLanded` (`PatchesLand`). `RevisionInv` and
`RequestInv` carry the validation from the request into the revision;
`DiscoveryInv` and `FailureInv` show that the failures validation rules out do not
happen (`AcceptedIsMapped`, `AcceptedIsPrepared`: whatever fields the archive
gives a value, mapping or none). That a document's names of fields and
enrichments are there, that its chains end, and that its records have identities
is not claimed: validation does not ensure it. `StoredInv` and `SentInv` tie each graph that was sent to the document
pinned by the execution and to the manifest it stored, which makes all of them one
(`Sendable`), and `PatchedInv` ties that manifest to the patches (`Follows`). The
lemma `LastHit`, that of several overrides of one field there is a last, is by
well-foundedness.

### What stays model-checked

Liveness, which is out of the prover's reach: `JobsSettle`,
`EndedWorkIsReconciled`, `SuccessIsConcluded`, `DueIsChecked`, `ReadyIsAdmitted`,
`IncompleteIsFollowed`, `BacklogIsAlerted`. `OneMessagePerWindow` of `Alerts`, and the
safety of the command line (`DatabaseOpens`, `NoWeakSecretServes`,
`RunningSecretsSurvive`, `FinishedSlotChecks`, `SessionHostWasAccepted`), whose
modules have no theorems. Every other property of a run is proved.

All theorems rest on the named assumptions on constants only. Most say that a
constant has its type; the rest that the value for "none" is not one of the data,
that the callers are finitely many, and that the two ends of a link agree. The
bounds on retries, faults and the like are arbitrary numbers in the proofs.

## Findings

Places where the code does otherwise than its documentation or comments say.
The first ten have a configuration in the table above.

- Attempts: recovery of an expired lease does not look at attempts, so a job
  whose workers keep dying is claimed for ever (`repo.rs:6735`).
- Stale handlers: their writes to the execution row are not fenced
  (`jobs:2623` and every other ledger transaction of a handler).
- Cancellation: one decided on a read from before the submission commits
  without asking the backend (`api:3351`). The same race exists on DALiuGE.
- Lost poll: a scheduler success that a name lookup records and a dying tick
  does not apply leaves the session axis open, and the row is in none of the
  lists of the pollers (`repo.rs:7077`). A late receipt of a recovered job can
  leave the same row (`repo.rs:4341`); the model has it when handlers may be
  stale.
- Lost mark: the scheduler unmarks what it admitted after its last chunk
  (`jobs:2367`). A discovery that changed the source since has its mark removed
  too, and when the execution refuses the changed source before that, nothing
  marks it again.
- Unalerted failures: the rules of `execution_terminal` are asked once, after the
  failed status is committed (`jobs:2668`), and `observability.md:94` promises an
  alert on execution failure.
- Outputs: a job recovered by name has no `remote_session_dir`
  (`repo.rs:3223`), without which its inventory is never retrieved
  (`repo.rs:7115`; `CHANGELOG.md:57`).
- Rediscovery: stored metadata that is complete answers in the place of the
  archive, also for a source an operator marked (`jobs:960`;
  `getting-started/first-run.md:84`). Where the project requires no fields this is
  the ordinary case: any stored metadata is complete (`jobs:1049`), and what the
  archive has later is never seen. `ArchiveIsFollowed` says what the page says and
  fails as soon as a version before the last is in `Kept`.
- Container credentials: `--acl` grants uid 10001 neither `known_hosts` nor, after
  the next command, the root (`cli/slurm_credentials.rs:905`;
  `deploy/ssh/README.md:39`).
- Administrator: an unattended rerun for another administrator stores a new
  password and then fails on the unique address (`cli/setup.rs:2640`;
  `reference/cli.md:25`).
- Requests without an Idempotency-Key always fail (`repo.rs:1713`), though the
  header is documented as optional (`api:2968`).
- Enrichments: `for_each.field` need only be non-empty (`beampipe-project/src/lib.rs:1120`). Of a field
  that is not mapped, or mapped from an enrichment, discovery has no values: the
  enrichment is never queried, required or not, and nothing reports it
  (`jobs:1141`; `project-configs/index.md:153`). A chain that names itself is
  accepted too (`beampipe-project/src/transforms.rs:366`; `transforms.md:121`).
- A failed name lookup is recorded with a time `record_slurm_name_lookup` refuses
  (`jobs:5528`, `jobs:5555`, `repo.rs:3051`), and the error ends the whole poll
  tick.

### Remarks

What the models, and the reading they needed, show besides. The models have
these steps unless said otherwise; no property of a run excludes them.

Queue and ledger. The claim reads its worker row before it waits for the pool
lock (`repo.rs:6653`), so a claim under way takes a job after the worker was
drained. A handler past its preflight brings an abandoned execution back to
running (`beampipe-domain/src/execution.rs:57`); it cannot submit it again
while the backend may have taken what was abandoned (`AbandonmentHolds`). A
failure of which a dying worker recorded the outcome only (`jobs:2612`) excludes the submission of the recovered job from reconciliation
(`repo.rs:7156`); `EndedWorkIsReconciled` exempts that case. A stale handler may
overwrite the pinned manifest and its evidence; `SentIsPinned` and
`PinnedIsReplayed` exempt it. `PreparationOnly` executions finalise their
sources as executed though nothing was submitted. A retry drops the options
`use_real_backends` and `do_stage = false` of the start request.

Registry and discovery. A redelivered `discover_batch` job has the claim token of
its first delivery, so that a stale handler still overwrites a newer signature
(`repo.rs:1343`); `RegistryNeverGoesBack` exempts that case. Readiness and metadata
are separate reads. A discovery claim that is held when an execute job starts
fails the execution for good. A failing optional enrichment changes the
signature, as if the archive had changed. A TAP answer cut off at its row
limit counts as complete (not modelled).

Admission. A tick of a project with neither a default nor a named profile claims
sources and then fails each time (`repo.rs:1082`). Retries do not take the
cap, so more executions than the cap may run (`workers-scheduling.md:55`). A
pending execution whose start job was dead-lettered counts against the cap
until it is cancelled. A profile that is moved to another project between
validation and creation is pinned unchecked. An exact repetition that races
its first request may be refused when the default profile was switched. The
module-wide cap assumes one scheduler at a time (`TicksWithinModuleCap`).

Slurm. Where `sacct` omits the root row the row records the end of the worst step
(`slurm_batch.rs:129-140`, tests at :211 and :220): a job that succeeded is recorded
as failed for a failed step, and one that failed is recorded as succeeded, and the
outputs it published verified, if no step of it failed or was cancelled. An end that a lookup by name does not know
(`NODE_FAIL`, `OUT_OF_MEMORY`) is recorded as unknown, to be settled by a poll with the
job id. A transient database error while an inventory is committed ends as a
rejected inventory, for good (`jobs:5166`, `jobs:5339`). A missing file after the
first `lstat` is permanent, though `output-verification.md:96` lists it as
retryable.

DALiuGE. When the poll rounds run out the session is left running, and a round
whose request failed is not counted. A session that is cancelled on some
nodes and finished on others is reported as unknown until the rounds run out. A
crash between the recorded end and the deletion leaves the session undeleted.
Retries share one session name. An application with an empty list of inputs is
not taken for a root.

Project revisions. The second of two racing uploads fails with a database error.
Errors of the `prepare_metadata` hook are swallowed. A graph without the ingest
node gets no manifest, silently. A document without queries or graph is accepted
and fails later. One without `prepare_metadata` is accepted, and then its records
have only the identities that columns or the hook happen to give; otherwise
discovery refuses them each time. A field from an enrichment that is not declared
never has a value. Nor has one
where `group_key` is from the source, since the early evaluation of that field is
not told the source (`jobs:1862`). The exports of a WASM module are not looked at when it is
uploaded, and a hook it lacks is skipped (`project-configs/index.md:89`). A chain of
transforms may name itself (`beampipe-project/src/transforms.rs:366`), though "validation
rejects [...] invalid chains" (`transforms.md:121`), and applying it recurses
without end; `AcceptedIsUsable` does not exclude it.

Alerts. A webhook that accepts a call and never answers stops every scheduled
rule: the client has no time-out (`beampipe-alerts/src/lib.rs:242`), the lease is renewed as long as
the call lasts (`jobs:674`), and no other worker gets the tick until this
one is restarted. `BacklogIsAlerted` fails without its second premise.
`dependency_down` can be configured and never fires. A rule counts as
fired though every delivery failed. Two firings of a rule that overlap send
twice in a window, as does a rule that lists a channel twice. A database error ends
an immediate firing before the remaining rules. A PATCH of a channel may
restore a secret that another PATCH rotated in between.

Installer and credentials. A lost `.env` is recovered with the default
`DATABASE_URL` (`cli/setup.rs:448`). A rerun without a sample drops entries of
the bundle manifest (`cli/materialize.rs:97`). A kill between seeding `.env` and the
last setting leaves placeholders that a later start serves; `DatabaseOpens` and
`NoWeakSecretServes` exempt it (`torn`). `doctor` accepts the JWT secret of the
example (`cli/doctor.rs:374`). An import without a public key leaves the old one,
`import --force` an old passphrase; a slot's own `known_hosts` hides the root's.
A killed command leaves files of two keys until it is run again.

The properties of the passing runs say what holds in spite of these: none of
them leads to a second submission, to a retry over external work, out of a
final status, or to an end that did not happen.

## Not modelled, and plan

Not modelled: authentication, sessions and rate limiting (per-process request
handling); metrics, configuration parsing and provenance rows, which nothing
reads back into control; the commands that only call the API or print; the
TAP and CASDA job protocols, of which only the results count here; the
rendering of values into manifests and graphs, covered by unit tests as
functions; deletion and export of revisions. Of modelled parts: job priorities
and aging (which candidate a claim takes is open), the retry delay's curve, the
minimum time that negative lookups must span before an abandonment (a number
of lookups here), ambiguous name lookups, several schedulers at once.

Next, in this order:

1. `OneMessagePerWindow` for any rules, channels and windows.
2. The queue's priorities, so that `JobsSettle` no longer assumes a loop that
   serves the job.
