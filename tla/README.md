# Yonaris answer sampling: specification

Yonaris measures what AI services answer.  The answers reach its database in
three ways.  In China, a *delivery batch* freezes a set of prompts for a
measurement window; each *delivery task* of it is one prompt to be sent once, on
one surface, and answered with an observation, by a Chrome extension on a paired
device (the *Browser Runner*) or by a portal user.  Overseas, an operator starts
a *cohort* of paid provider calls that a worker executes.  And a worker runs
every active prompt again on its cadence.  Nothing may be sent or paid for twice,
no answer may be lost or doubled, and each is archived as a *response snapshot*
for 90 days.  This directory specifies the protocols that hold these together,
checks them with TLC and proves parts of them with TLAPS.

Paths below are relative to `src/`.

## The system

| component | state | operations | interacts with |
|---|---|---|---|
| Delivery batches and tasks (`packages/lib/src/db/delivery-batches.ts`, migrations `0016`, `0020`) | `delivery_batches`, `delivery_tasks` rows in PostgreSQL, with CHECK constraints and two triggers | create, freeze, portal claim, heartbeat, release, complete, fail, cancel, settle | everything below calls it in its own transactions |
| Browser Runner policy (`packages/lib/src/browser-runner-policy.ts`) | none, pure | retry or park, resume, reconcile, recovery candidates, settlement disposition and cutoff, batch status | called inside the transactions |
| Browser Runner task protocol (`packages/lib/src/db/browser-runner.ts`) | the same rows | start, claim, resume, reconcile, fail, submit intent and confirmation, two recoveries, terminal failure, finalization, expiry reconciler, daily settlement | devices (through the web service), the portal, the worker's maintenance job |
| Browser Runner web service (`apps/web/src/server/browser-runner-service.ts`, `sampling.ts`) | none | authorizes a device or a user, checks a row, calls the protocol, stores the observation | devices and browsers over HTTP |
| Observation attempts (`packages/lib/src/db/observations.ts`) | attempts with a 14-minute lease, prompt runs | claim or take over an attempt, store a result, mark it failed | completion of a task, prompt jobs, overseas calls |
| Evidence artifacts (`packages/lib/src/db/evidence-artifacts.ts`) | staged and attached screenshots | upload under a claim, list, delete, attach, clean up | upload by devices, completion, maintenance |
| Extension coordinator and journal (`apps/browser-extension/src/coordinator`, `storage.ts`, `background.ts`) | the durable journal of one device, its open tabs | poll, run a task, reconcile, automatic and manual recovery | web service over an unreliable network, page adapters, restarts of the service worker |
| Response snapshots (`packages/lib/src/db/response-snapshots.ts`, `packages/lib/src/response-snapshots`) | snapshot rows, their outbox, a directory per revision | reserve, record, flush, recover, expire, delete, clean up, backfill | every stored observation, worker jobs, web export |
| Overseas runs (`packages/lib/src/db/overseas-runs.ts`, `apps/web/src/server/overseas-run-dispatch.ts`, `apps/worker/src/jobs/process-overseas-run-call.ts`) | a cohort, its calls, their jobs | create, dispatch, claim, pay, archive, end a call, complete the cohort | dialog of the portal, pg-boss, provider |
| Worker schedule and prompt jobs (`apps/worker/src/jobs`, `apps/web/src/lib/job-scheduler.ts`) | pg-boss jobs and schedules | process a prompt, plan the next job, schedule maintenance | attempts, provider |
| Devices and pairing (`packages/lib/src/db/browser-runner-devices.ts`) | pairings, device tokens, brand assignments | create a pairing, consume it, heartbeat, revoke | every device call |
| Report worker, batch operation tool, imports (`apps/worker/src`) | report executions with leases, request files | claim, execute, retry; create batches idempotently | database |
| Legacy runner host (`apps/browser-runner/src`) | a dedicated browser profile, a broker socket | the process-based predecessor of the extension | the same server protocol |
| Release scripts (`deploy/las/bin`) | release pointers, bundles, backups on one host | deploy, roll back, rehearse migrations | containers, systemd |
| Web interface, localisation, marketing, analytics, configuration packages | none of the protocols' | rendering, read-only queries | |

What is hard in it: several actors (devices, portal users, maintenance jobs,
worker slots, operators) change the same rows in separate transactions, each
with its own idea of which rows it may touch; leases run out while their holder
works on; a handler uses in its third transaction what it read in the first;
jobs are delivered again while an earlier execution is still alive; rows and
files are changed one after the other by processes that may stop in between;
every transaction is judged a second time by constraints and triggers that the
unit tests do not have; an HTTP call may have been applied although its answer
was lost.

What makes the components correct:

* protocol: a submitted task stays with its device; a live lease is left alone;
  no work is accepted outside the window; queued tasks can be claimed; the batch
  is completed by the last task; the database accepts what the protocol writes;
  the terminal code tells the truth about the submission; a started batch is
  settled at its cutoff;
* completion: a chain of transactions completes a task only as one transaction
  under its claim could; a succeeded task has one stored run and its evidence;
* extension: a prompt is sent at most once, after its intent is durable at the
  server; a restart at any point leads to a reconciled journal;
* snapshots: what is offered is on disk, whole; what is pending settles; the
  files of what has expired are erased;
* overseas runs: a call is paid for at most once; ended calls stay ended; a
  dispatched call ends and the cohort is completed;
* prompt jobs: one result per sample, no answer thrown away, always a next job.

## Plan

1. `RunnerPolicy`, `DeliveryRunner`: one batch, its tasks, every transaction and
   what the database accepts of them.  *Done.*
2. `DeliveryRunner_proofs`: type correctness and post-submit custody.  *Done.*
3. `ExtensionRunner`: the device's journal and coordinator composed with
   `DeliveryRunner`'s transactions, shown to implement `SubmitOnce`.  *Done.*
4. `ResponseSnapshots`: rows, outbox and files between three writers.  *Done.*
5. `OverseasRuns`, with its proofs: implements `SubmitOnce` too.  *Done.*
6. `PromptJobs`, with its proofs.  *Done.*
7. `TaskCompletion`: attempts and evidence under a completion, composed with
   `DeliveryRunner` and proved to implement it.  *Done.*
8. `RowLocks`: the order in which the transactions lock batch and task rows
   (`delivery-batches.ts:497`: the portal's claim locks a task and then its
   batch, cancellation and settlement the batch and then its tasks), and the two
   last completions, which only a row lock keeps apart (`:893`).
9. `RunNow`: creation of batches under the advisory-lock pool; `DevicePairing`;
   the report worker's execution lease.
10. Proofs of the rest: the row constraints behind `ProtocolNeverRefused`, the
    refinement of `SubmitOnce` by `ExtensionRunner` and its journal,
    `ReadyIsStored`.  *Done: every safety invariant and action property of a
    passing run is proved.*

## Modules

`MC*` modules hold symmetry sets and constants of the runs.

### RunnerPolicy

The pure functions of `browser-runner-policy.ts`, over a task row.  Failure
codes stay strings because the functions compare them; reasons and messages are
left out.

### DeliveryRunner

One batch (`batch`, created in one of the `ExecutionModes`), its task rows
(`task`), the clock (`now`), and two unlocked reads that a later transaction
relies on: `listed` (the expiry reconciler selected the batch) and `reading` (a
portal claim has read the batch and not yet a task).  Each other action is one
transaction, complete with its refresh (`Refreshed`, the code's
`refreshBrowserRunnerBatchState`) or settlement (`SettledBatch`,
`settleDeliveryBatch`).  That a completing transaction is one step takes the row
lock of `settleDeliveryBatch` (`delivery-batches.ts:893`) as given:
`CompletedWithLastTask` shows that every path which ends a task settles the batch,
not that the lock is there.

| action | code |
|---|---|
| `Freeze`, `Cancel` | `freezeDeliveryBatch`, `cancelDeliveryBatch` |
| `StartAutomation` | `startBrowserRunnerBatch` |
| `Claim`, `ClaimNothing` | `claimBrowserRunnerTask`: parks any candidates it meets, then leases a task or nothing |
| `ReadHumanQueue`, `FindNothing`, `ClaimNeedsHuman`, `ClaimAvailable` | `claimNextDeliveryTask` for the two queues, the batch being read without a lock |
| `Resume`, `ReconcileTask` | `resumeBrowserRunnerTask`, `reconcileBrowserRunnerTask` |
| `Heartbeat`, `Release`, `Complete`, `PortalFail` | the same functions of `delivery-batches.ts`; completion is part of the transaction that stores the observation |
| `RecordFailure`, `RecordSubmitIntent`, `ConfirmSubmitted` | `recordBrowserRunnerFailure`, `markBrowserRunnerSubmitIntent`, `markBrowserRunnerSubmitConfirmed` |
| `ConfirmTerminalFailure`, `FinalizeNeedsHuman` | `confirmBrowserRunnerTerminalFailure`, `finalizeBrowserRunnerNeedsHuman` |
| `RequeueTransportFailures`, `RequeueProfileBusyTasks` | the two operator recoveries |
| `ListExpired`, `ReconcileExpired` | `reconcileExpiredBrowserRunnerBatches`, select and transaction |
| `DailySettlement` | `settleOneDueDomesticBrowserRunnerBatch` |
| `Tick` | the clock |

A transaction's own checks are guards: one that throws changes nothing and is
no step.  A transaction whose writes the database rejects is a step that
changes nothing but `refused`, which names the operation.  `RowAccepted` and
`BatchAccepted` are the CHECK constraints and the triggers; `Commit` applies
them to everything a transaction writes, so a wrong transition in an action
shows up as a refused operation instead of being silently excluded.

Abstractions: one batch; one surface and one brand (a device sees any subset of
the candidates because others may be locked or of other surfaces); lease tokens
are the pair of holder and generation; the lease duration is one constant for
devices and users; reasons, timestamps and the audit trail are left out except
the three that decide something (`startedAt`, `settledAt`, `lease`); calendar
days are `DayLength` units with the settlement hour at `Noon`.

### TaskCompletion

The transaction that stores an observation, as the handlers of the web server
reach it.  It extends `DeliveryRunner` and replaces its `Complete` by a chain:
`completeRunnerTask` (`browser-runner-service.ts`) for a device,
`submitSamplingTaskFn` (`sampling.ts`) for a portal user.  Every other
transaction of `DeliveryRunner` goes on between its steps (`OtherStep`).

| state | code |
|---|---|
| `req[q]` | the handler of request `q`: its step and what it remembers; `Over` once it answered with an error or stopped |
| `attempt[t]`, `run[t]` | the task's `observation_attempts` row and the `prompt_runs` row |
| `artifact[i]` | `evidence_artifacts`, staged or attached, with the claim they were uploaded under |
| `sweep` | what the maintenance job has selected and not yet deleted |
| `faults` | counts lost transactions |

| action | code |
|---|---|
| `StageEvidence`, `DeleteEvidence` | `stageEvidenceArtifact`, `deleteStagedEvidenceArtifact` |
| `SelectStale`, `DeleteStale` | the two statements of `cleanupStaleEvidenceArtifacts` |
| `ReceiveFromRunner`, `ReceiveFromPortal` | the handler reads the task |
| `RenewLease`, `ListEvidence` | its heartbeat; a device's artifacts are listed |
| `ClaimAttempt`, `TakeAttempt` | `claimImportedObservationAttempt`: insert or read, compare identity and fingerprint, take over |
| `Persist` | `persistSuccessfulObservation`: attempt, evidence, run and task in one transaction, whose confirmation may be lost |
| `MarkFailed`, `ReportFailure` | `markObservationFailed`, then the device's task is parked or the user's released |
| `Finish` | `completeDeliveryTaskSuccess` for an attempt that had already succeeded |
| `Crash` | the server stops |

The 14 minutes of an attempt's lease are not counted by the model's clock: a
running attempt may be found live or abandoned at any time.

`LiveEvidenceStays` is about the clean-up of staged evidence.  The deletion of
attached evidence after 90 days is part of the snapshot archive, and never
succeeds (see ResponseSnapshots).

### SubmitOnce

The abstract promise about every task: somebody is committed to send the
prompt, once and for all, before it is sent; it is sent at most once and only by
the committed sender; a committed task is never cancelled.  A prompt may still
be sent after its task has been closed, because the web page acts on its own.
Two modules implement it: `ExtensionRunner` (`SendsAtMostOnce`: senders are
devices, commitment is the submit intent, sending the click in the page) and
`OverseasRuns` (`PaysOnce`: senders are worker slots, commitment is the intent
to pay, sending the provider call).

### ExtensionRunner

The devices of `DeliveryRunner` replaced by what the extension does.  It extends
`DeliveryRunner`: the portal's state is the same, and a call of a device runs
one of its actions (`Serve`, `browser-runner-service.ts`).

| state | code |
|---|---|
| `journal[r][t]` | the entries `storage.ts` keeps in `chrome.storage.local`: phase, whether it waits for a human, session, whether its failure code blocks the platform, recovery attempts |
| `activity[r]` | the locals of the coordinator and the task runner: the step the worker is at and what it knows of its task; lost in a crash |
| `asked` | messages to content scripts that have not clicked yet; they survive the worker |
| `sent` | clicks on the send button (the page's state) |
| `inflight` | requests whose caller stopped waiting |
| `restarts`, `contacts` | a bound's counter; a history variable (resume calls made for an entry by automatic recovery) |

| action | code |
|---|---|
| `StartPoll` | the alarm, `runOnce` while no other work goes on |
| `Reconcile`, `ReconcileFails` | `reconcileJournal`, one entry; the mismatched session and the `active` and `blocked` answers skip |
| `ListDue`, `Recover` | the automatic recovery pass: the list of due entries, the attempt made durable before the call |
| `RecoverNeedsHuman` | an operator's recovery of a waiting entry |
| `ResumeTask`, `ResumeFails`, `GiveUp` | the resume call, its answer fitting the entry or not |
| `StartPolling`, `ClaimNext`, `EndPoll` | polling the surface |
| `Begin`, `OpenFails`, `Prepare`, `MarkIntent`, `RecordIntent`, `SubmitOnceInPage`, `SeePrompt`, `Reattach`, `Confirm`, `Collect`, `CompleteTask` | `runClaimedTask`, one action per durable write, call or message to the page |
| `PageFails`, `CallFails`, `Fail`, `FailFails` | its error path: the entry waits for a human, then the failure is reported |
| `PageSends`, `PageRefuses` | the content script |
| `Beat` | the heartbeat, whose result is ignored |
| `Crash` | the service worker stops |
| `Deliver`, `Drop` | the network |
| `PortalAlone` | portal users, operators and the maintenance job, as in `DeliveryRunner` |

Calls.  An answered call is one step: the transaction and what the device does
with the answer.  A failed one (rejected, timed out, cut off) either never
reaches the server or leaves its request in `inflight`, to be served at any
later time or lost.  The two cover a crash between the transaction and the
device's use of the answer: the crash leaves the request in flight and it is
served afterwards.

Abstractions: one surface per device and one task at a time per device (the
extension's own lock); the tasks are samples of one prompt, which is what a
batch with several samples holds; recovery delays are nondeterministic; the
phase `uploaded` is merged with `collected`; every code a device makes up
itself that neither retries nor blocks is `UnknownCode`, and a device never
reports the two codes the operator recoveries look for, which only the legacy
runner (`apps/browser-runner`) emits.  Local storage does not
fail; evidence upload, the pause after a rate limit, surface qualification,
pairing and disconnecting are left out.

### ResponseSnapshots

The archive of one answer.  Three writers work on it: the process that recorded
the answer (`archiver`), the operator's `backfill`, and the `maintenance` job.

| state | code |
|---|---|
| `rows[r]` | the row of revision `r`: status, current flag, content (its hashes), whether it names stored files |
| `outbox[r]` | the payload kept until the bundle is on disk, whether it is due and whether its 24 hours are over |
| `dirs[r]` | the directory of the revision: assets, manifest, write lock, age |
| `proc[w]` | the step writer `w` is at and what it has read |
| `over`, `invalid` | the 90 days have ended; contents that fail the bundle contract |
| `full` | the disk is at 80% or more, where `assertResponseSnapshotCapacity` throws |
| `crowded` | 500 rows of older answers stand in the list of `claimExpiredReady`, which takes no more |
| `events` | counts crashes, failures and backfills |

| action | code |
|---|---|
| `Prepare`, `Enqueue` | the bundle is built (`service.ts`), `enqueuePreparedResponseSnapshot` with its four cases |
| `Claim`, `FailExpiredOutbox`, `CompleteFlush`, `DeferFlush` | the flush of one payload (`service.ts`, `response-snapshots.ts`) |
| `PutHead`, `AcquireWriteLock`, `WriteAssets`, `RenameManifest`, `Unlock`, `Abandon` | `FilesystemResponseSnapshotStorage.put`, one step per operation others can see |
| `StartBackfill`, `Classify`, `Reserve` | the backfill tool, with its check of the capacity, and `rebuild` |
| `StartMaintenance`, `NextCandidate`, `ListStale`, `ClaimExpired`, `ListOrphans`, `EndMaintenance`, `Supersede`, `FailCandidate` | `runResponseSnapshotMaintenance`: flush, recover, expire, orphans |
| `ListEntries`, `Unlink`, `RemoveDirectory` | deletion of a revision, file by file |
| `CompleteExpiredDeletion` | the transaction that ends a deletion, which always throws |
| `Fails`, `Crash` | a statement or file operation throws; a process stops |
| `OutboxFallsDue`, `OutboxExpires`, `ReservationGrowsStale`, `ManifestGrowsOld`, `RetentionEnds` | time |
| `DiskFills`, `DiskFrees`, `ListFills` | the disk passes 80% and falls below it again; the list of expired rows is full |

Bundles are told apart by their origin, *captured* or *rebuilt* from the stored
run; bundling, hashing and sizes are left out.  `ManifestGrowsOld` assumes that no
recorder's flush takes a day.

Three things in it follow the code where one would expect something else.
`StartMaintenance` needs the disk below 80%: the job throws before it flushes,
recovers or expires anything (`response-snapshot-maintenance.ts:88`).
`CompleteExpiredDeletion` changes nothing: it puts `FOR UPDATE` on a left join
(`response-snapshots.ts:463-466`), and PostgreSQL refuses to lock the side of an
outer join that may be missing, so each call throws before a row is read; `expire`
catches it and goes on.  What comes after that query is not modelled, as it is
never reached: its own errors for structured snapshots, the deletion of the
attached evidence (which the trigger of migration `0027` would allow only beside an
expired v2 row) and the clearing of the key.  And since no row loses its key, every
expired row stays a candidate of `claimExpiredReady`, which takes the 500 oldest;
`crowded` says that none of this answer is among them.  `ListFills` may come at any
time after the retention has ended, and is never undone.  The batch limits of
flush, recovery and orphans only delay.  Capturing is enabled
(`RESPONSE_SNAPSHOT_ENABLED`); otherwise the job does nothing at all.

### OverseasRuns

One cohort, from the button to its last call.

| state | code |
|---|---|
| `dialog`, `handler[h]` | the dialog and its idempotency key; a request of the web server |
| `cohort`, `call[c]` | `overseas_run_cohorts`, `overseas_run_calls` |
| `attempt[c]` | the observation attempt, its run and the snapshot of that run |
| `queue[c]`, `worker[w]` | waiting jobs; a slot and the local state of its job |
| `payer[c]`, `runs[c][w]`, `orphaned` | history: who recorded the intent, provider calls made, calls whose job died |

| action | code |
|---|---|
| `Press`, `Respond`, `LoseResponse`, `Forget` | `overseas-run-now-dialog.tsx` and its page |
| `Create`, `Refuse` | `createOverseasRunCohort`, same key same cohort |
| `ListUndispatched`, `Send`, `MarkDispatched` | `dispatchOverseasRunCalls`; the send may be deduplicated or fail either way |
| `Fetch`, `Claim`, `Skip` | the job, `claimOverseasRunCall` |
| `StartAttempt`, `RecordPaidIntent`, `RunProvider`, `Persist`, `Archive`, `Reject` | `process-overseas-run-call.ts` |
| `Complete`, `Fail`, `Commit`, `RollBack` | the transaction that ends a call: the other calls are read before it commits |
| `WebCrash`, `WorkerCrash` | a process stops |

### PromptJobs

One scheduled job of a prompt, its retries, and the job that follows.

| state | code |
|---|---|
| `job` | the pg-boss job: state and retry count |
| `exec[e]`, `iter[e][s]` | the e-th execution and what it does for sample `s`; an expired job's handler goes on |
| `att[s]`, `saved` | the observation attempt of a sample; samples with a prompt run |
| `prompt`, `next`, `maint` | the prompt's state; a job is planned after this one; the maintenance job |

| action | code |
|---|---|
| `Fetch`, `Expire` | pg-boss |
| `Begin`, `Gather`, `ScheduleNextRun` | `processPromptJob` and `scheduleNextRun` (`process-prompt.ts`) |
| `Insert`, `Read`, `TakeOver` | `claimObservationAttempt`: its statements |
| `RunProvider`, `Persist`, `Reject` | the provider, `persistSuccessfulObservation`, `markObservationFailed` |
| `FindOverdue`, `SendJob`, `MaintenanceFails` | `schedule-maintenance.ts` |
| `LeaseLapses`, `Crash` | 14 minutes pass; the worker stops |

### Proof modules

`DeliveryRunner_proofs` (types, custody of submitted tasks) is extended by
`DeliveryRows_proofs` (soundness of rows and batch, and the lemmas about a row from
one step to the next), and that by the proofs of the two modules composed with the
protocol: `TaskCompletion_proofs`, and `ExtensionRunner_proofs` with
`ExtensionJournal_proofs`.  `OverseasRuns_proofs`, `PromptJobs_proofs` and
`ResponseSnapshots_proofs` stand alone.

## Runs

Beside each property stands a change of the code it is about that breaks it: the
operators whose comment begins with *Mutant* are plausible slips (a dropped
guard, a missing reset), and TLC finds the property violated when one replaces
the definition next to it.  No specification uses them.

| run | checks | bounds | states |
|---|---|---|---|
| `MCRunnerOne` | types; queued tasks can be claimed; honest codes; post-submit custody; intent, confirmation and success only inside the window | one task, two devices, two users, two sessions, both modes; six generations; clock 0..7, window [1, 5) | 79,085 |
| `MCRunnerTwo` | the protocol's operations are never refused and why others are; completion with the last task; live leases are left alone; leases only defer the settlement (liveness) | two tasks of a batch of either mode, a device, a user, the codes the operator recoveries repair, three generations, clock 0..4 | 523,997 |
| `MCSettlementPromise` | *violated*: the daily settlement of an unclaimed task is rejected for ever | two tasks, two generations | |
| `MCCompletion` | types; a task has succeeded exactly with its attempt, its run and its evidence; what a client is told is stored; the chain completes a task as `Complete` does; live evidence stays | one task, a device, a user, two requests, two answers of one version, two artifact ids, a cap of one, two executions of an attempt, one lost transaction | 1,020,375 |
| `MCExtension` | types; device and portal agree on the submission; a task polled from the queue never meets an entry that forbids to begin it; automatic recovery contacts the portal at most twice for an entry; `SubmitOnce` is implemented | one task, one device, a retried code, one crash, one request in flight, two generations | 1,206,904 |
| `MCExtensionPortal` | entries of tasks that ended in the device's own name are cleared (liveness) | one task, a device, a user, retried and blocking codes, clock to the end of the window | 342,080 |
| `MCExtensionStranded` | *violated*: a finished task leaves an entry that blocks its surface for ever | one task, a device, a user | |
| `MCSnapshots` | types; ready snapshots are stored; the newest revision is current; payloads belong to pending rows; once the disk stays below 80%, pending settles, and expired files are erased as long as the list has room (liveness) | three revisions, one crash, failure or backfill; the disk fills and is freed at any time | 526,760 |
| `MCSnapshotPayload` | *violated*: the recovery throws away a payload long before its 24 hours | two revisions, nothing fails | |
| `MCOverseas` | types and CHECK constraints; success is archived; the cohort's status is earned; dispatched calls have a job; ends are final; `SubmitOnce` is implemented; dispatched calls end (liveness) | two calls, two slots, a request, one fault | 192,113 |
| `MCOverseasCohort` | *violated*: two slots end the last two calls and nobody completes the cohort | two calls, two slots, no fault | |
| `MCPromptJobs` | types; one run per succeeded sample; answers are kept; a completed job has a run; leases are respected; a next job (liveness) | one sample, three executions, two faults | 78,974 |

### Bounds and why they suffice

`MaxGeneration` bounds claims: a task's status depends on its generation only
through equality with the one a caller proves, so a few suffice for every stale
caller; six in `MCRunnerOne` lets the two automatic attempts be followed by
resumes and hand-overs.  `MaxTime` lies past the window's end and past the
settlement cutoff in these runs, and the lease is shorter than the window, so
that leases expire inside it, at its end and are cut by it.  Two tasks are enough
for a transaction that looks at all the tasks to meet one that changes a single
task; the recovery of a busy profile needs a holder and one other.

In the runs of `ExtensionRunner` a unit of time is a lease (`LeaseDuration` 1,
2 in `MCExtensionPortal`): a lease runs out between any two steps of its holder.
`MaxInFlight` 1 and `MaxRestarts` 1 give one late request and one crash at every
point of a task's life; two generations are a claim and a resume or a second
claim.  One task is enough for the journal's agreement with the portal, which is
per task.  Two devices competing for the task were checked once.

`MCCompletion` needs two requests for one to be overtaken by another (the same
client's retry, a second client, a take-over of the attempt) and two executions
of the attempt for that; a cap of one artifact with two ids makes an upload
replace or meet another; two answers with one version are the ones a
fingerprint, not an identity, tells apart.  The window [0, 2) with leases of one
unit lets a claim expire under each step.  Checked once with a longer window
(1.44 million states) and for a manual batch with two portal requests.

In `MCSnapshots` each disturbance (a crash, a failure, a backfill) can come at
every step of every writer, and three revisions are what one disturbance can
lead to.  Checked once with a second disturbance, without the disk and the list
(13.4 million states).  The disk may pass 80% and fall below it any number of
times; the change is made only where a job is about to look.  In
`MCOverseas` one fault is enough for a job that is sent twice and for a lost
answer to a commit; checked once with a second request (2.3 million states) and
with two faults (1.08 million).  `RetryLimit` is 3 in the code and 2 in
`MCPromptJobs`: three executions let a late one meet a later one that meets a
third; checked once with 3 (811,784 states) and with two samples (371,000).

`CHECK_DEADLOCK FALSE` where the system may stop: the clock stops at `MaxTime`
and a closed batch has nothing left to do; a cohort whose calls have ended, a
prompt nobody maintains.  `MCSnapshots` and `MCSnapshotPayload` check deadlock:
the maintenance comes every five minutes.

### Fairness and why the code justifies it

* `FairSpec` (`DeliveryRunner`).  `WF(DailySettlement)`: the worker runs its
  maintenance every five minutes under an advisory lock.  `SF(Tick)`: time passes
  whatever calls are made; a claim call (`reading`) is short against a unit of
  time and stops the clock while it lasts, hence strong fairness.
  `WF(FindNothing)`: a claim call ends.  No device, user or operator is assumed
  ever to act.
* `ExtFairSpec`.  `SF(StartPoll)`: the extension's alarm fires every minute and
  finds the worker free again and again.  `WF(PassStep \/ TaskStep)`: a worker at
  work goes on, because every call has a timeout and every wait for the page a
  deadline.  `SF(Reconcile)` for each entry: a portal that is asked again and
  again answers in the end.  Nothing is assumed of pages, users, the clock or
  requests in flight.
* `SnapSpec`.  `WF(Maintenance)`: pg-boss starts the job every five minutes and a
  process that does not crash goes on; the same for the recorder and a backfill
  that has been started.  Time passes: what ages becomes due, stale, old, and the
  retention ends.  Nobody has to start a backfill.  The job gets beyond its first
  check only while the disk is below 80% (the guard of `StartMaintenance`), and
  nothing is assumed to free a full disk: the expiry that would is refused too.
  `PendingSettles` and `ErasedUnlessCrashed` therefore state their assumption
  themselves, `<>[]~full`, and the second also that the list of expired rows has
  room.  Without the assumption TLC refutes both: a disk that stays full, or that
  is full whenever the job starts, leaves a pending row pending.
* `OverseasFairSpec`.  A slot that is alive polls its queue and runs its job to
  the end, because the provider answers or times out; a request is served to its
  end.  Nobody has to press the button.
* `PromptFairSpec`.  The worker polls, an execution that is alive goes on,
  pg-boss expires a job, the maintenance runs every five minutes.  No lease has
  to lapse.
* `TaskCompletion` states none: clients, the clean-up and handlers may stop at
  any time and its properties are about safety.

## What the runs found

The four violated runs are listed as findings in `PROJECT.json`.

* `failTask` in the settlement (`packages/lib/src/db/browser-runner.ts:1228`) and
  `confirmBrowserRunnerTerminalFailure` (`browser-runner.ts:828`) take a task
  from `available` to `failed`, which the trigger of migration `0016` (lines
  201-210) does not allow.  The settlement of a batch with an unclaimed task is
  rolled back on every tick (`MCSettlementPromise`), the human's confirmation of
  a parked task always.
* The web service answers a reconciliation only to the device named in
  `claimed_by` (`browser-runner-service.ts:474` and `:984`).  When a portal user
  took the task over, or a claim changed hands, the device's entry is rejected in
  every pass; it is skipped, and skipped entries keep their surface from being
  polled (`MCExtensionStranded`).
* The maintenance lists stale reservations and works them off without a lock
  (`response-snapshots/service.ts:115`).  A recorder that queues its payload in
  between finds its row failed and the payload gone (`MCSnapshotPayload`).
* Two transactions that end the last two calls of a cohort do not see each
  other's update (`overseas-runs.ts:289`), and the cohort stays `running`
  (`MCOverseasCohort`).

`RefusalsExplained` shows which refusals the protocol can run into: the two
above, the finalization of a task that was never claimed, whose private claim
leaves `claimed_by` null against a CHECK constraint (`browser-runner.ts:943`),
and a reconciler that meets a closed batch.

Three more contradict the design of the archive
(`docs/superpowers/specs/2026-08-15-unified-response-snapshot-archive-design.md`).
They follow from single statements, not from an interleaving, and no run is spent
on them; the model has them, and the properties say what is true in spite of them.

* The transaction that ends a deletion always throws
  (`packages/lib/src/db/response-snapshots.ts:466`), so keys and attached evidence
  outlive the 90 days the design gives them (line 132, and line 153 of the v2
  design for screenshots).  The files go, and the row is no longer offered.  The
  unit tests replace the persistence by a mock.
* Hence the list `claimExpiredReady` works off (`response-snapshots.ts:436-439`)
  never gets shorter.  Once 500 rows have expired, the snapshots of later answers
  are neither expired nor deleted.
* At 80% the maintenance job stops before it has done anything
  (`apps/worker/src/jobs/response-snapshot-maintenance.ts:88`), although the design
  keeps the completion of what is in flight possible at that point and only stops
  new prompts (line 137).  Pending rows stay pending, and nothing is expired, which
  would free the disk.

Modelling the rest showed behaviour that contradicts no promise of the
repository, or is outside what a property here states:

* Deliveries.  The portal's claim and release leave the batch's automation
  status as it was (`delivery-batches.ts:650`); the portal's queue and the batch
  tool read it (`apps/worker/src/sampling-batch-operation.ts:370`).
* Extension.  A manual recovery attaches to the tab the operator has active
  (`chrome-tabs.ts:87-102`) and looks for the exact prompt in it; samples of a
  batch share their prompt, so a task can be completed with the conversation of
  another sample.
* Completion.  A handler whose attempt was taken over after 14 minutes still
  reports a failure and parks, or releases, the task under the execution that
  took over.  A device's retry after success is answered without comparing the
  observations; the portal's compares them.  A failed attempt keeps its model
  version, so a corrected submission that names another one is refused for ever
  (`observations.ts:120-141`).  The portal's late completion of a succeeded
  attempt (`Finish`) is never reached with an open task: the storing transaction
  ends both.
* Snapshots.  A write lock left by a crash is never removed and makes every
  deletion of its directory give up (`filesystem-storage.ts:268-271`); a
  half-deleted orphan is never deleted either.  Hence the exception in
  `ErasedUnlessCrashed`.  A backfill that classified an old revision can replace a
  captured one that became ready meanwhile.
* Overseas.  The dialog forgets its key on any answer, also one that says that
  calls could not be dispatched
  (`apps/web/src/routes/_authed/admin/sampling/index.tsx:256-259`); those calls
  wait for ever.  A call whose slot died stays `running`.  A call whose snapshot
  is not ready fails although its prompt run was stored and paid for.
* Prompt jobs.  The send of the next job may be swallowed or deduplicated; only
  the maintenance makes up for it.  A job is retried only if all samples failed.

## Proofs

TLAPS proves the theorems listed in `PROJECT.json` for every value of the
constants under the named assumptions of the modules.  Properties that speak of
steps follow from the same inductive invariants.

**DeliveryRunner.**  `TypeCorrect == Spec => []TypeOK` for all sets of tasks,
devices, users, sessions and codes, any window and any lease duration.  One lemma
per group of actions says that the rows the group writes are rows, and
`CommitTyped` and `UpdateTyped` carry that through the database's decision.
Properties that `Commit` enforces need no reasoning about the actions, which is
why the accepted rows are modelled in one place.

`SubmittedTasksStay == Spec => PostSubmitStaysWithDevice`.  A step from an
arbitrary row may break the property: a queued row with a submit intent would be
claimed by somebody else.  `CustodyInv` adds to `TypeOK` what excludes such rows,
the CHECK constraint on the automation state (`AutomationConsistent`): a queued
task, or one of a manual batch, has no intent.  It is inductive because whatever
a transaction writes is either accepted, and then satisfies the constraint, or
rolled back (`CommitKeeps`).  The rest is one lemma per group of actions saying
that the rows it writes keep a submitted task's intent, session and device
(`Kept`).

**DeliveryRows.**  `ProtocolInv` carries the other properties of `DeliveryRunner`.
That the database accepts what a handler writes depends on facts the handler does
not look at: the submit intent is written to a row whose other columns must already
satisfy the constraints, and a claim is accepted only in a batch that is under way
and inside its window.  `RowSound` states, per row, the CHECK constraints, that a
lease lies in the window, who may hold a parked task, and which codes are honest;
`BatchSound` what ties the batch to its rows.  Neither is inductive without the
other: a queued task can be claimed because the batch says it is running, and the
batch is closed with its last task because only rows of a batch in progress move.
One lemma per group of actions shows `SoundStep`, which has three parts: the
invariant, what a row may turn to (`Evolves`), and why a transaction was rolled back
(`Explained`).  The
action properties, `WorkOnlyInsideWindow`, `LiveLeaseShield` and
`RefusalsExplained`, are read off it.

**TaskCompletion.**  The invariant `IInv` says what a handler still knows of rows
it has read in an earlier transaction and no longer locks (`Knows`).  It is stable
because of one fact about every transaction of `DeliveryRunner` (`Continues`, one
lemma per group of actions): a row that is claimed after a step was claimed before
in the same generation, by the same client, with no less submitted, or has a new
generation.  So a handler that proves its generation when it stores
(`Storable`) still knows what it read of intent and confirmation, and
`StoreCompletes` makes the storing transaction a `Complete`.  Hence
`CompletionImplementsProtocol == CompletionSpec => Spec`, a refinement with the
identity as its mapping, which carries every theorem about `Spec` over
(`CompletionKeepsSubmitted`), and `CompletedUnderItsClaim`.  `RunsInv` is
`RunHasItsEvidence` artifact by artifact; it needs that an execution that still
owns its attempt finds its own answer there (`KnowsAttempt`), and that only a
task without a run is completed.  `ArtifactsInv` says that what the maintenance
job has selected has outlived its claim, which no transaction undoes: a lease that
ran out is never extended (`OutlivedStays`).

**ExtensionRunner.**  `DeviceInv` says what each worker and each request in flight
carries: a generation not newer than the row's, and the entry its step works on.
With `RowsInv` and `ProtocolInv` it is inductive (`WorkInv`), and it makes every
call of a device, answered at once or delivered late, a transaction of the
protocol: `ExtensionRunsProtocol == ExtSpec => Spec`, with the identity as its
mapping.  So the theorems about `Spec` hold with extensions at work
(`ExtensionKeepsCustody`).  `RecoveryIsBounded` needs that the count of attempts is
durable before the call, so that a crash cannot reset it.  `SentAtMostOnce` is the
refinement of `SubmitOnce`, task by task.  A step of the contract is a durable intent
or a click; `SendInv` says that a page is asked only by the device whose intent
stands, at most once, and before any click, which the portal guarantees by answering
one intent per claim and `PostSubmitStaysWithDevice` keeps true afterwards.

**ExtensionJournal.**  The journal is written before and after the portal, never
with it.  `JournalBrackets` is not inductive: an intent the device gave up on may
still arrive.  `BracketInv` adds that such a request either proves a lease that is
over or finds the entry ready (`Backed`), and that a device preparing an entry for a
new lease has only outdated ones on their way (`Outdated`).  `PollsOnlyFresh` relates
an entry to a pass that has long left it behind.  `PollInv` names the tasks a worker
relies on at each step (`Relied`): those it has reconciled while it goes on, all of
them once it polls.  If such a task has an entry at or after its intent, it is with
this device or a human and not `Loose`, that is, neither queued nor to be put back
into the queue by a late failure.  That stays so because nobody but its holder, an
operator's recovery or a late failure offers a task, and none of them applies.

**ResponseSnapshots.**  The content of a revision is fixed once it has one and
every put writes that content, so a write never harms a snapshot, lock or no lock.
Only a deletion can, and `IInv` says why none meets a row that is or will be ready:
a row whose files are being deleted has expired, or is `Given` up, with a manifest a
day old, its payload gone or expired, and no recorder putting it.  `FilesFollowRow`
is the agreement of directory and row that makes a late put of the same
revision harmless.  `OutboxBelongsToPending` and `NewestIsCurrent` are parts of `IInv`.

**OverseasRuns.**  One inductive invariant, `IInv`, carries all six theorems.
Its core is `HeldOnce`, a call has at most one slot behind its claim, ever: the
claim takes a queued call and no call returns to the queue.  `PaidConsistent`
adds who recorded the intent and that a slot about to run the provider is the
first; `SlotConsistent` that what a slot is about to commit is true, and that the
others it saw ended stay ended; `HasJob` that a call about to be marked has had
its job sent.  `PaidOnce` is the refinement of `SubmitOnce`: each step is, for
its call, a step of the contract or a stutter.

**PromptJobs.**  `IInv` says what an execution knows of an attempt it has read
and not yet taken (`SeenConsistent`): it has not succeeded, and if it was running
its lease is over for as long as status and claimant are those that were read.
The compare of the take-over uses the claimant for the lease, which is sound only
because no execution claims a sample twice (`ClaimedOnce`), and that because no
execution is started twice (`NotStarted`).

**How they were found.**  Each strengthening (`ProtocolInv`, `DeviceInv`,
`SendInv`, `BracketInv`, `PollInv`, the `IInv`s) was an invariant of a TLC run on the
instances above before it was proved.  Two things changed in the models.  A `CASE`
with overlapping arms, whose value the language leaves open, became an `IF` in the
order of the code, and updates nested under `@` were written out.  And
`PollMeetsNoOldEntry` turned out to need an assumption on the codes of a device
(`ExtensionCodesAssumption`): a device that reported a code the operator recoveries
look for could have its task put back into the queue between its reconciliation and
its poll.  The extension reports neither code, which is why the property holds of it.

**Only model-checked.**  Liveness under fairness is out of the prover's reach:
`LeasesDoNotBlockSettlement`, `OwnEntriesDrain`, `PendingSettles`,
`ErasedUnlessCrashed`, `DispatchedCallsEnd`, `NextJobIsPlanned`.  So are the four
violated properties, which no theorem could state.

## Not modelled

`PROJECT.json`, `components`, names for each part what is left out.  Within reach
and planned: row locks and deadlocks between transactions, creation of batches
under the advisory-lock pool, device pairing, the report worker's lease.  Not
worth a state machine: single transactions over configuration data, read-only
analytics, rendering, texts and translations, which are most of the repository's
lines.  Out of reach: DOM automation of third-party sites, of which
`ExtensionRunner` keeps what decides about sending (a page clicks once, refuses,
or shows a prompt), and shell scripts around one host's files and services.  The
import route (`apps/web/src/routes/api/v1/observations/import.ts`) and the formal
one-shot tool store observations of their own outside the protocols above.
