--------------------------- MODULE DeliveryRunner ---------------------------
(***************************************************************************)
(* One delivery batch and its tasks, as the database holds them, and every *)
(* transaction that changes them: the Browser Runner's lease protocol, the *)
(* portal's human queue, the operator recoveries, the expiry reconciler,   *)
(* the daily settlement and cancellation.                                  *)
(*                                                                         *)
(* Each action is one database transaction.  All of them lock the rows     *)
(* they change (FOR UPDATE, or an UPDATE guarded by the lease), so they    *)
(* are atomic; what a caller read in an earlier transaction is a guard of  *)
(* its own only when the row can have changed since, and is then kept in a *)
(* variable (listed, reading).  A transaction whose own checks throw       *)
(* changes nothing and is not a step.  One that the database rolls back,   *)
(* because a CHECK constraint or a trigger rejects a row it wrote, is a    *)
(* step that changes nothing but refused.                                  *)
(*                                                                         *)
(* A lease is proved by the pair (claimedBy, leaseGeneration) here: the    *)
(* random token of the code is drawn anew with every generation.           *)
(***************************************************************************)
EXTENDS RunnerPolicy, FiniteSets

CONSTANTS
  ExecutionModes, \* the modes a batch may be created with
  Tasks,          \* the frozen task slots of the batch
  Runners,        \* paired Browser Runner devices
  Users,          \* portal administrators who claim tasks by hand
  Nobody,         \* claimedBy = null
  Sessions,       \* browser sessions a runner may bind a submission to
  NoSession,      \* runnerSessionId = null
  FailureCodes,   \* the codes runners report failures with
  WindowStart,    \* the frozen measurement window is [WindowStart, WindowEnd)
  WindowEnd,
  LeaseDuration,
  DayLength,      \* units of time in one calendar day
  Noon,           \* units from midnight to the settlement hour
  MaxTime,        \* bound: the clock stops here
  MaxGeneration   \* bound: no claim beyond this lease generation

Clients == Runners \cup Users

ASSUME ModesAssumption == ExecutionModes \subseteq {"browser_runner", "manual"}
ASSUME TasksAssumption == IsFiniteSet(Tasks) /\ Tasks # {}
ASSUME ClientsAssumption ==
  /\ Runners \cap Users = {}
  /\ Nobody \notin Clients
ASSUME SessionsAssumption == NoSession \notin Sessions
\* A device reports its own failures, never the codes the server parks under.
ASSUME CodesAssumption ==
  /\ FailureCodes \subseteq STRING
  /\ FailureCodes \cap
       {NoCode, "runner_lease_expired", "submit_outcome_unknown",
        "window_expired_unexecuted", "pre_submit_attempts_exhausted",
        "daily_cutoff_unresolved", "requeued"} = {}
ASSUME TimeAssumption ==
  /\ WindowStart \in Nat /\ WindowEnd \in Nat /\ WindowStart < WindowEnd
  /\ LeaseDuration \in Nat \ {0}
  /\ DayLength \in Nat \ {0} /\ Noon \in Nat
  /\ MaxTime \in Nat /\ MaxGeneration \in Nat

VARIABLES
  batch,   \* the delivery_batches row
  task,    \* task[t]: the delivery_tasks row of slot t
  now,     \* the clock every transaction reads
  listed,  \* an expiry reconciler selected the batch and has not locked it yet
  reading, \* the users whose claim call has read the batch and no task yet
  refused  \* the operation the database has just rolled back, or "none"

vars == <<batch, task, now, listed, reading, refused>>

Operations ==
  {"freeze", "start", "cancel", "claim", "portal_claim", "resume", "reconcile",
   "heartbeat", "failure", "submit_intent", "submit_confirmed", "complete",
   "release", "portal_fail", "confirm_terminal_failure", "finalize", "requeue",
   "reconcile_expired", "daily_settlement"}

Codes ==
  FailureCodes \cup
    {NoCode, "runner_lease_expired", "submit_outcome_unknown",
     "window_expired_unexecuted", "pre_submit_attempts_exhausted",
     "daily_cutoff_unresolved", "requeued"}

Times == Nat \cup {NoTime}

BatchRow ==
  [mode : {"browser_runner", "manual"},
   status : {"draft", "frozen", "in_progress", "completed", "cancelled"},
   automation : {"null", "not_started", "running", "needs_human", "settled"},
   startedAt : Times,
   settledAt : Times]

TaskRow ==
  [status : UnresolvedStatuses \cup TerminalStatuses,
   auto : {"null", "queued", "running", "needs_human", "completed"},
   attempts : Nat,
   claims : Nat,
   claimedBy : Clients \cup {Nobody},
   generation : Nat,
   lease : Times,
   session : Sessions \cup {NoSession},
   intent : BOOLEAN,
   confirmed : BOOLEAN,
   observed : BOOLEAN,
   needsHuman : Codes,
   lastError : Codes]

TypeOK ==
  /\ batch \in BatchRow
  /\ task \in [Tasks -> TaskRow]
  /\ now \in Nat
  /\ listed \in BOOLEAN
  /\ reading \in SUBSET Users
  /\ refused \in Operations \cup {"none"}

\* A batch with its task manifest written and not yet frozen.
Init ==
  /\ \E mode \in ExecutionModes :
       /\ batch = [mode |-> mode,
                   status |-> "draft",
                   automation |-> IF mode = "manual" THEN "null" ELSE "not_started",
                   startedAt |-> NoTime,
                   settledAt |-> NoTime]
       /\ task = [t \in Tasks |->
                    [status |-> "planned",
                     auto |-> IF mode = "manual" THEN "null" ELSE "queued",
                     attempts |-> 0, claims |-> 0, claimedBy |-> Nobody,
                     generation |-> 0, lease |-> NoTime,
                     session |-> NoSession, intent |-> FALSE, confirmed |-> FALSE,
                     observed |-> FALSE, needsHuman |-> NoCode,
                     lastError |-> NoCode]]
  /\ now = 0
  /\ listed = FALSE
  /\ reading = {}
  /\ refused = "none"

-----------------------------------------------------------------------------
(* What the database accepts: the CHECK constraints of the two tables and the *)
(* triggers of migrations 0016 and 0020.                                      *)

AutomationStateConsistent(row) ==
  /\ row.auto \in {"null", "queued"} =>
       /\ row.session = NoSession /\ ~row.intent /\ ~row.confirmed
       /\ row.needsHuman = NoCode
  /\ row.auto = "null" => row.attempts = 0
  /\ row.auto = "queued" =>
       row.status \in {"planned", "available"} /\ row.lease = NoTime
  /\ row.auto = "running" => row.status = "claimed" /\ row.lease # NoTime
  /\ row.auto = "needs_human" =>
       row.status = "available" /\ row.lease = NoTime /\ row.needsHuman # NoCode
  /\ row.auto = "completed" => row.status \in TerminalStatuses

RunnerSessionConsistent(row) ==
  /\ row.intent <=> row.session # NoSession
  /\ row.confirmed => row.intent

LeaseStateConsistent(row) ==
  /\ row.status = "claimed" <=> row.lease # NoTime
  /\ row.status = "claimed" => row.claimedBy # Nobody

TerminalStateConsistent(row) == row.status = "succeeded" => row.observed

ExecutionModeConsistent(row) == row.auto = "null" <=> batch.mode = "manual"

RowConsistent(row) ==
  /\ AutomationStateConsistent(row)
  /\ RunnerSessionConsistent(row)
  /\ LeaseStateConsistent(row)
  /\ TerminalStateConsistent(row)
  /\ ExecutionModeConsistent(row)

\* The status a task may be given, by the status it has.
NextStatuses(status) ==
  CASE status = "planned"   -> {"planned", "available", "cancelled"}
    [] status = "available" -> {"available", "claimed", "cancelled"}
    [] status = "claimed"   -> {"available", "claimed"} \cup TerminalStatuses
    [] OTHER                -> {status}

\* The trigger on task updates: terminal rows are final, statuses move forward,
\* a claim advances the generation, an observation belongs to a finished task.
\* It also asks that a new token advances the generation of a claimed task: here
\* a lease is told by its generation alone, so the two never part.
RowAccepted(old, new) ==
  /\ RowConsistent(new)
  /\ old.status \in TerminalStatuses => new = old
  /\ new.status \in NextStatuses(old.status)
  /\ old.status # "claimed" /\ new.status = "claimed"
       => new.generation > old.generation
  /\ new.observed => new.status \in {"succeeded", "failed"}

\* The trigger on batch updates, run when the tasks are as in rows.
BatchAccepted(old, new, rows) ==
  /\ old.status \in {"completed", "cancelled"} => new = old
  /\ new.status \in CASE old.status = "draft" -> {"draft", "frozen", "cancelled"}
                      [] old.status = "frozen" -> {"frozen", "in_progress", "cancelled"}
                      [] old.status = "in_progress" ->
                           {"in_progress", "completed", "cancelled"}
                      [] OTHER -> {old.status}
  /\ new.status = "completed" =>
       \A t \in Tasks : rows[t].status \in TerminalStatuses
  /\ new.automation = "null" <=> new.mode = "manual"
  /\ new.mode = "manual" => new.startedAt = NoTime /\ new.settledAt = NoTime

\* Commits the batch b and the tasks rows, or rolls back.  The rows were last
\* written as from before they got these values.
CommitFrom(op, from, b, rows) ==
  IF /\ \A t \in Tasks : RowAccepted(from[t], rows[t])
     /\ BatchAccepted(batch, b, rows)
  THEN batch' = b /\ task' = rows /\ refused' = "none"
  ELSE UNCHANGED <<batch, task>> /\ refused' = op

Commit(op, b, rows) == CommitFrom(op, task, b, rows)

-----------------------------------------------------------------------------
(* What the transactions share *)

RunnerBatch == batch.mode = "browser_runner"

InProgress == batch.status \in {"frozen", "in_progress"}

InWindow == WindowStart <= now /\ now < WindowEnd

\* Mutant: the window does not bound the lease.
UnboundedLease == now + LeaseDuration

LeaseUntil ==
  IF now + LeaseDuration < WindowEnd THEN now + LeaseDuration ELSE WindowEnd

\* A nullable automation status: null stays null in a manual batch.
AutoTo(row, auto) == IF row.auto = "null" THEN "null" ELSE auto

\* The lease a client proves with the generation it was handed.
ActiveLease(t, c, g) ==
  /\ task[t].status = "claimed"
  /\ task[t].claimedBy = c
  /\ task[t].generation = g
  /\ LiveLease(task[t], now)

ActiveRunnerLease(t, r, g) == ActiveLease(t, r, g) /\ task[t].auto = "running"

ExpiredRunnerClaims ==
  {t \in Tasks : /\ task[t].status = "claimed"
                 /\ task[t].auto = "running"
                 /\ ExpiredLease(task[t], now)}

Unresolved(rows) == {t \in Tasks : rows[t].status \in UnresolvedStatuses}

Autos(rows) == {rows[t].auto : t \in Tasks}

\* A claim or a resume: a new generation under a lease the window bounds.
Leased(row, c) ==
  [row EXCEPT !.status = "claimed",
              !.auto = AutoTo(row, "running"),
              !.claimedBy = c,
              !.generation = @ + 1,
              !.claims = @ + 1,
              !.lease = LeaseUntil]

Parked(row, code) ==
  [row EXCEPT !.status = "available",
              !.auto = "needs_human",
              !.lease = NoTime,
              !.needsHuman = code,
              !.lastError = code]

Failed(row, code) ==
  [row EXCEPT !.status = "failed",
              !.auto = AutoTo(row, "completed"),
              !.lease = NoTime,
              !.needsHuman = NoCode,
              !.lastError = code]

Succeeded(row) ==
  [row EXCEPT !.status = "succeeded",
              !.auto = AutoTo(row, "completed"),
              !.observed = TRUE,
              !.lease = NoTime,
              !.needsHuman = NoCode,
              !.lastError = NoCode]

\* Mutant: requeueing keeps the code of the repaired failure.
RequeuedWithCode(row) ==
  [row EXCEPT !.status = "available", !.auto = "queued", !.attempts = 0,
              !.claimedBy = Nobody, !.lease = NoTime, !.session = NoSession,
              !.lastError = "requeued"]

Requeued(row) ==
  [row EXCEPT !.status = "available",
              !.auto = "queued",
              !.attempts = 0,
              !.claimedBy = Nobody,
              !.lease = NoTime,
              !.session = NoSession,
              !.needsHuman = NoCode,
              !.lastError = "requeued"]

\* refreshBrowserRunnerBatchState: recompute the batch from its tasks.
Refreshed(b, rows) ==
  LET derived == DeriveBatchStatus(Autos(rows))
  IN  IF ~RunnerBatch THEN b
      ELSE [b EXCEPT !.automation = derived,
                     !.settledAt = IF derived = "settled" THEN now ELSE @]

\* settleDeliveryBatch: the last task to become terminal completes the batch.
SettledBatch(b, rows) ==
  IF Unresolved(rows) # {}
  THEN IF RunnerBatch
       THEN [b EXCEPT !.automation = DeriveBatchStatus(Autos(rows))]
       ELSE b
  ELSE IF b.status # "in_progress" THEN b
  ELSE [b EXCEPT !.status = "completed",
                 !.automation = IF RunnerBatch THEN "settled" ELSE @,
                 !.settledAt = IF RunnerBatch THEN now ELSE @]

\* The three ends of the transactions on one task.
UpdateAndRefresh(op, t, row) ==
  LET rows == [task EXCEPT ![t] = row]
  IN  Commit(op, Refreshed(batch, rows), rows) /\ UNCHANGED <<now, listed, reading>>

UpdateAndSettle(op, t, row) ==
  LET rows == [task EXCEPT ![t] = row]
  IN  Commit(op, SettledBatch(batch, rows), rows) /\ UNCHANGED <<now, listed, reading>>

UpdateOnly(op, t, row) ==
  Commit(op, batch, [task EXCEPT ![t] = row]) /\ UNCHANGED <<now, listed, reading>>

-----------------------------------------------------------------------------
(* The batch's lifecycle *)

\* The caller decides whether freezing insists on an open window.
Freeze ==
  /\ batch.status = "draft"
  /\ Commit("freeze", [batch EXCEPT !.status = "frozen"],
            [t \in Tasks |-> [task[t] EXCEPT !.status = "available"]])
  /\ UNCHANGED <<now, listed, reading>>

\* Starting automation also queues tasks without a status; a Browser Runner
\* batch has none, its tasks are inserted queued.
StartAutomation ==
  /\ RunnerBatch
  /\ batch.status = "frozen"
  /\ batch.automation = "not_started"
  /\ InWindow
  /\ Commit("start", [batch EXCEPT !.status = "in_progress",
                                   !.automation = "running",
                                   !.startedAt = now], task)
  /\ UNCHANGED <<now, listed, reading>>

\* Once automation has started, only a batch nobody touched can be cancelled.
Cancel ==
  /\ batch.status \notin {"completed", "cancelled"}
  /\ RunnerBatch /\ batch.startedAt # NoTime => \A t \in Tasks : Untouched(task[t])
  /\ Commit("cancel",
       [batch EXCEPT !.status = "cancelled",
                     !.automation = IF RunnerBatch THEN "settled" ELSE @,
                     !.settledAt = IF RunnerBatch THEN now ELSE @],
       [t \in Tasks |->
          IF task[t].status \in UnresolvedStatuses
          THEN [task[t] EXCEPT !.status = "cancelled",
                               !.auto = AutoTo(task[t], "completed"),
                               !.lease = NoTime]
          ELSE task[t]])
  /\ UNCHANGED <<now, listed, reading>>

-----------------------------------------------------------------------------
(* Claims *)

Queued == {t \in Tasks : task[t].status = "available" /\ task[t].auto = "queued"}

Exhausted == {t \in Queued : task[t].attempts >= MaxPreSubmitAttempts}

\* Parks every candidate a claim met that may not be replayed.
ParkedCandidates(parked) ==
  [t \in Tasks |->
     IF t \notin parked THEN task[t]
     ELSE Parked(task[t], IF t \in Exhausted THEN "pre_submit_attempts_exhausted"
                          ELSE ParkCode(task[t], "runner_lease_expired"))]

RunnerClaimOpen ==
  /\ RunnerBatch
  /\ batch.automation = "running"
  /\ InProgress
  /\ InWindow

\* One claim call walks its candidates until it can lease a queued task.  It
\* sees the tasks of its own surfaces that no other transaction has locked, so
\* any set of candidates may precede the one it leases.
Claim(r, t, parked) ==
  /\ RunnerClaimOpen
  /\ t \in Queued \ Exhausted
  /\ task[t].generation < MaxGeneration
  /\ LET rows == ParkedCandidates(parked)
     IN  Commit("claim",
           IF parked = {} THEN [batch EXCEPT !.status = "in_progress"]
           ELSE [Refreshed(batch, rows) EXCEPT !.status = "in_progress"],
           [rows EXCEPT ![t] = [Leased(rows[t], r) EXCEPT !.attempts = @ + 1]])
  /\ UNCHANGED <<now, listed, reading>>

\* A claim call that finds only candidates to park.
ClaimNothing(parked) ==
  /\ RunnerClaimOpen
  /\ parked # {}
  /\ LET rows == ParkedCandidates(parked)
     IN  Commit("claim", Refreshed(batch, rows), rows)
  /\ UNCHANGED <<now, listed, reading>>

ClaimTask(r) ==
  \E parked \in SUBSET (ExpiredRunnerClaims \cup Exhausted) :
    \/ \E t \in Tasks : Claim(r, t, parked)
    \/ ClaimNothing(parked)

\* The portal's claim locks its task but not the batch, and never refreshes it.
PortalClaim(u, t) ==
  /\ task[t].generation < MaxGeneration
  /\ Commit("portal_claim", [batch EXCEPT !.status = "in_progress"],
            [task EXCEPT ![t] = Leased(task[t], u)])
  /\ reading' = reading \ {u}
  /\ UNCHANGED <<now, listed>>

\* The manual queue: a free task, or one whose lease ran out.
ClaimAvailable(u, t) ==
  /\ InProgress
  /\ InWindow
  /\ task[t].auto = "null"
  /\ \/ task[t].status = "available"
     \/ task[t].status = "claimed" /\ ExpiredLease(task[t], now)
  /\ PortalClaim(u, t)

\* The human queue, first read: the batch waits for a human.
ReadHumanQueue(u) ==
  /\ RunnerBatch
  /\ u \notin reading
  /\ batch.automation = "needs_human"
  /\ InProgress
  /\ InWindow
  /\ reading' = reading \cup {u}
  /\ refused' = "none"
  /\ UNCHANGED <<batch, task, now, listed>>

\* Every task in the queue is locked by someone else, or none is left.
FindNothing(u) ==
  /\ u \in reading
  /\ reading' = reading \ {u}
  /\ refused' = "none"
  /\ UNCHANGED <<batch, task, now, listed>>

\* Mutant: the human queue also offers submitted tasks.
ClaimAnyParked(u, t) ==
  /\ u \in reading
  /\ \/ task[t].status = "available" /\ task[t].auto = "needs_human"
     \/ t \in ExpiredRunnerClaims /\ task[t].needsHuman # NoCode
  /\ PortalClaim(u, t)

\* The human queue, second read: a parked task that was never submitted, or a
\* human's own claim of one whose lease ran out.  By now the batch may be running.
ClaimNeedsHuman(u, t) ==
  /\ u \in reading
  /\ ~task[t].intent
  /\ \/ task[t].status = "available" /\ task[t].auto = "needs_human"
     \/ t \in ExpiredRunnerClaims /\ task[t].needsHuman # NoCode
  /\ PortalClaim(u, t)

\* The device that parked a task takes it up again.  Before the submission the
\* task starts over; after it, the code stays and marks it as an assist.
Resume(r, t) ==
  /\ RunnerBatch
  /\ InProgress
  /\ batch.automation \in {"needs_human", "running"}
  /\ ResumableBy(task[t], r)
  /\ InWindow
  /\ task[t].generation < MaxGeneration
  /\ Commit("resume", [batch EXCEPT !.automation = "running"],
            [task EXCEPT ![t] = [Leased(task[t], r) EXCEPT
               !.needsHuman = IF task[t].intent THEN @ ELSE NoCode]])
  /\ UNCHANGED <<now, listed, reading>>

\* A device asks what became of a task it still has a journal entry for; the
\* only answer that changes anything parks the device's own expired claim.
ReconcileTask(r, t) ==
  /\ RunnerBatch
  /\ task[t].claimedBy = r
  /\ task[t].status = "claimed"
  /\ task[t].auto = "running"
  /\ ReconcileExactTask(task[t], r, now) \in {"resumable_pre", "resumable_post"}
  /\ UpdateAndRefresh("reconcile", t,
       Parked(task[t], ParkCode(task[t], "runner_lease_expired")))

-----------------------------------------------------------------------------
(* What the holder of a lease does.  g is the generation the caller was given. *)

Heartbeat(t, c, g) ==
  /\ ActiveLease(t, c, g)
  /\ now < WindowEnd
  /\ UpdateOnly("heartbeat", t, [task[t] EXCEPT !.lease = LeaseUntil])

RecordFailure(t, r, g, stage, code) ==
  /\ ActiveRunnerLease(t, r, g)
  /\ UpdateAndRefresh("failure", t,
       IF RetriesFailure(task[t], stage, code)
       THEN [task[t] EXCEPT !.status = "available", !.auto = "queued",
                            !.lease = NoTime, !.lastError = code]
       ELSE Parked(task[t], code))

\* Recording the same session's intent again changes nothing.
RecordSubmitIntent(t, r, g, session) ==
  /\ ActiveRunnerLease(t, r, g)
  /\ task[t].needsHuman = NoCode
  /\ ~task[t].intent
  /\ UpdateOnly("submit_intent", t,
                [task[t] EXCEPT !.session = session, !.intent = TRUE])

ConfirmSubmitted(t, r, g, session) ==
  /\ ActiveRunnerLease(t, r, g)
  /\ task[t].intent
  /\ task[t].session = session
  /\ ~task[t].confirmed
  /\ UpdateOnly("submit_confirmed", t, [task[t] EXCEPT !.confirmed = TRUE])

\* The transaction that stores a successful observation completes the task
\* with it.  A device completes what it has confirmed to have submitted, the
\* portal what was never submitted.  Neither looks at the window or at the
\* batch again: the lease stands for both.
Complete(t, c, g) ==
  /\ ActiveLease(t, c, g)
  /\ \/ c \in Runners /\ task[t].intent /\ task[t].confirmed
     \/ c \in Users /\ PortalMutationAllowed(task[t])
  /\ UpdateAndSettle("complete", t, Succeeded(task[t]))

\* The portal gives its claim back; the batch is not refreshed.
Release(t, u, g) ==
  /\ ActiveLease(t, u, g)
  /\ PortalMutationAllowed(task[t])
  /\ UpdateOnly("release", t,
       [task[t] EXCEPT !.status = "available",
                       !.auto = AutoTo(task[t], "needs_human"),
                       !.lease = NoTime])

\* Mutant: failing the last task does not settle the batch.
PortalFailUnsettled(t, u, g, code) ==
  /\ ActiveLease(t, u, g)
  /\ UpdateOnly("portal_fail", t,
       Failed(task[t], IF task[t].needsHuman # NoCode THEN task[t].needsHuman
                       ELSE code))

\* The portal reports its claim as failed; a parked task keeps its own code.
PortalFail(t, u, g, code) ==
  /\ ActiveLease(t, u, g)
  /\ UpdateAndSettle("portal_fail", t,
       Failed(task[t], IF task[t].needsHuman # NoCode THEN task[t].needsHuman
                       ELSE code))

-----------------------------------------------------------------------------
(* Human disposition and operator recovery *)

ConfirmTerminalFailure(t) ==
  /\ RunnerBatch
  /\ batch.automation = "needs_human"
  /\ task[t].status = "available"
  /\ task[t].auto = "needs_human"
  /\ task[t].needsHuman # NoCode
  /\ UpdateAndSettle("confirm_terminal_failure", t,
       Failed(task[t], task[t].needsHuman))

\* An unclaimed task is claimed privately, under a token nobody holds and in the
\* name its last claim left, and then failed like the others.
FinalizeNeedsHuman ==
  LET open == {t \in Tasks : task[t].status \in {"available", "claimed"}}
      claimed == [t \in Tasks |->
                    IF task[t].status # "available" THEN task[t]
                    ELSE [task[t] EXCEPT !.status = "claimed",
                                         !.auto = "running",
                                         !.generation = @ + 1,
                                         !.lease = now]]
      rows == [t \in Tasks |->
                 IF t \in open THEN Failed(claimed[t], claimed[t].needsHuman)
                 ELSE task[t]]
  IN  /\ RunnerBatch
      /\ open # {}
      /\ \A t \in open : FinalizableByHuman(task[t], now)
      /\ IF \A t \in Tasks : RowAccepted(task[t], claimed[t])
         THEN CommitFrom("finalize", claimed, SettledBatch(batch, rows), rows)
         ELSE UNCHANGED <<batch, task>> /\ refused' = "finalize"
      /\ UNCHANGED <<now, listed, reading>>

RecoveryOpen ==
  /\ RunnerBatch
  /\ batch.status = "in_progress"
  /\ batch.automation = "needs_human"
  /\ batch.startedAt # NoTime
  /\ InWindow

RequeueTasks(cohort) ==
  /\ Commit("requeue",
       [batch EXCEPT !.automation = "running", !.settledAt = NoTime],
       [t \in Tasks |-> IF t \in cohort THEN Requeued(task[t]) ELSE task[t]])
  /\ UNCHANGED <<now, listed, reading>>

\* The whole batch failed untouched on the broker transport.
RequeueTransportFailures ==
  /\ RecoveryOpen
  /\ \A t \in Tasks : SafeTransportRecoveryCandidate(task[t])
  /\ RequeueTasks(Tasks)

\* One task succeeded and kept the dedicated profile busy for all the others.
RequeueProfileBusyTasks ==
  /\ RecoveryOpen
  /\ Cardinality(Tasks) >= 2
  /\ \E holder \in Tasks :
       /\ task[holder].status = "succeeded"
       /\ task[holder].auto = "completed"
       /\ task[holder].intent /\ task[holder].confirmed /\ task[holder].observed
       /\ \A t \in Tasks \ {holder} : DedicatedProfileBusyCandidate(task[t])
       /\ RequeueTasks(Tasks \ {holder})

-----------------------------------------------------------------------------
(* Time-driven transactions *)

\* A reconciler's unlocked read: the batch is started and unfinished.
ListExpired ==
  /\ RunnerBatch
  /\ ~listed
  /\ batch.startedAt # NoTime
  /\ InProgress
  /\ listed' = TRUE
  /\ refused' = "none"
  /\ UNCHANGED <<batch, task, now, reading>>

\* The locked part does not look at the batch's status again.
ReconcileExpired ==
  LET overdue == {t \in Tasks : /\ task[t].status \in {"available", "claimed"}
                                /\ task[t].auto \in {"queued", "running"}
                                /\ ~(task[t].status = "claimed"
                                       /\ LiveLease(task[t], now))}
      rows == [t \in Tasks |->
                 IF t \notin overdue THEN task[t]
                 ELSE Parked(task[t],
                             ParkCode(task[t], "window_expired_unexecuted"))]
  IN  /\ listed
      /\ listed' = FALSE
      /\ IF now < WindowEnd THEN Commit("reconcile_expired", batch, task)
         ELSE Commit("reconcile_expired", Refreshed(batch, rows), rows)
      /\ UNCHANGED <<now, reading>>

SettlementDue ==
  /\ RunnerBatch
  /\ batch.startedAt # NoTime
  /\ InProgress
  /\ now >= SettlementCutoff(batch.startedAt, WindowEnd, DayLength, Noon)

\* Mutant: tasks that are already resolved are settled as well.
SettlementOfAllTasks ==
  LET open == {t \in Tasks : task[t].status \in {"available", "claimed"}}
      rows == [t \in Tasks |-> Failed(task[t], SettlementCode(task[t]))]
  IN  /\ SettlementDue
      /\ \A t \in open : ~(task[t].status = "claimed" /\ LiveLease(task[t], now))
      /\ Commit("daily_settlement",
                SettledBatch([batch EXCEPT !.status = "in_progress"], rows), rows)
      /\ UNCHANGED <<now, listed, reading>>

\* Mutant: a live lease does not defer the settlement.
SettlementOverLiveLease ==
  LET open == {t \in Tasks : task[t].status \in {"available", "claimed"}}
      rows == [t \in Tasks |->
                 IF t \in open THEN Failed(task[t], SettlementCode(task[t]))
                 ELSE task[t]]
  IN  /\ SettlementDue
      /\ Commit("daily_settlement",
                SettledBatch([batch EXCEPT !.status = "in_progress"], rows), rows)
      /\ UNCHANGED <<now, listed, reading>>

\* Mutant: one observed task keeps the whole batch from being settled.
SettlementOfUnobservedBatch ==
  LET open == {t \in Tasks : task[t].status \in {"available", "claimed"}}
      rows == [t \in Tasks |->
                 IF t \in open THEN Failed(task[t], SettlementCode(task[t]))
                 ELSE task[t]]
  IN  /\ SettlementDue
      /\ \A t \in open : ~(task[t].status = "claimed" /\ LiveLease(task[t], now))
      /\ \A t \in Tasks : ~task[t].observed
      /\ Commit("daily_settlement",
                SettledBatch([batch EXCEPT !.status = "in_progress"], rows), rows)
      /\ UNCHANGED <<now, listed, reading>>

\* At the cutoff every unresolved task fails, unless one lease is still live:
\* then the whole batch waits for a later tick.
DailySettlement ==
  LET open == {t \in Tasks : task[t].status \in {"available", "claimed"}}
      rows == [t \in Tasks |->
                 IF t \in open THEN Failed(task[t], SettlementCode(task[t]))
                 ELSE task[t]]
  IN  /\ SettlementDue
      /\ \A t \in open : ~(task[t].status = "claimed" /\ LiveLease(task[t], now))
      /\ \A t \in open : ~task[t].observed
      /\ Commit("daily_settlement",
                SettledBatch([batch EXCEPT !.status = "in_progress"], rows), rows)
      /\ UNCHANGED <<now, listed, reading>>

\* A claim call is short against a unit of time.
Tick ==
  /\ now < MaxTime
  /\ reading = {}
  /\ now' = now + 1
  /\ refused' = "none"
  /\ UNCHANGED <<batch, task, listed, reading>>

-----------------------------------------------------------------------------

RunnerStep(r, t) ==
  \/ Resume(r, t)
  \/ ReconcileTask(r, t)
  \/ \E g \in 1..MaxGeneration :
       \/ Heartbeat(t, r, g)
       \/ \E s \in Sessions : \/ RecordSubmitIntent(t, r, g, s)
                              \/ ConfirmSubmitted(t, r, g, s)
       \/ \E stage \in {"pre_submit", "post_submit"}, code \in FailureCodes :
            RecordFailure(t, r, g, stage, code)
       \/ Complete(t, r, g)

PortalStep(u, t) ==
  \/ ClaimAvailable(u, t)
  \/ ClaimNeedsHuman(u, t)
  \/ \E g \in 1..MaxGeneration :
       \/ Heartbeat(t, u, g)
       \/ Complete(t, u, g)
       \/ Release(t, u, g)
       \/ \E code \in FailureCodes \cup {NoCode} : PortalFail(t, u, g, code)

BatchStep ==
  \/ Freeze
  \/ StartAutomation
  \/ Cancel
  \/ \E t \in Tasks : ConfirmTerminalFailure(t)
  \/ FinalizeNeedsHuman
  \/ RequeueTransportFailures
  \/ RequeueProfileBusyTasks
  \/ ListExpired
  \/ ReconcileExpired
  \/ DailySettlement

Next ==
  \/ \E r \in Runners : ClaimTask(r) \/ \E t \in Tasks : RunnerStep(r, t)
  \/ \E u \in Users : \/ ReadHumanQueue(u)
                     \/ FindNothing(u)
                     \/ \E t \in Tasks : PortalStep(u, t)
  \/ BatchStep
  \/ Tick

Spec == Init /\ [][Next]_vars

\* The maintenance job runs the settlement on every tick of its schedule, a
\* claim call ends, and time passes whatever calls are made (strong fairness:
\* claim calls one after the other do not stop the clock); nothing else need
\* ever happen.
FairSpec ==
  /\ Spec
  /\ SF_vars(Tick)
  /\ WF_vars(\E u \in Users : FindNothing(u))
  /\ WF_vars(DailySettlement)

-----------------------------------------------------------------------------
(* Safety *)

\* The database never rolls back what a device, a portal user, the freeze, the
\* start, a cancellation or a recovery does: no sequence of the protocol's
\* transactions leads one of these to a row that a CHECK constraint or a
\* trigger rejects.
ProtocolNeverRefused ==
  refused \in {"none", "confirm_terminal_failure", "finalize",
               "reconcile_expired", "daily_settlement"}

\* A batch is completed exactly when its last task has become terminal:
\* no last completion is lost between two transactions, and no batch is closed
\* over an open task.
CompletedWithLastTask ==
  Unresolved(task) = {} <=> batch.status \in {"completed", "cancelled"}

\* A queued task of a running batch can be claimed by the next poll: the batch
\* says it is running and the task has attempts left.
QueuedIsClaimable ==
  batch.status = "in_progress" =>
    \A t \in Queued : batch.automation = "running" /\ t \notin Exhausted

\* A task that may have been sent is never reported as one that was not
\* executed, and one that was never sent is never reported as unknown.
HonestFailureCode ==
  \A t \in Tasks : task[t].status = "failed" =>
    /\ task[t].intent =>
         task[t].lastError \notin
           {"runner_lease_expired", "window_expired_unexecuted",
            "pre_submit_attempts_exhausted", "daily_cutoff_unresolved"}
    /\ task[t].lastError = "submit_outcome_unknown" => task[t].intent

-----------------------------------------------------------------------------
(* What a step may never do *)

\* Once submit intent is durable the task stays with its device and session
\* and never returns to the queue: nobody else can send the prompt again.
PostSubmitStaysWithDevice ==
  [][\A t \in Tasks : task[t].intent =>
       /\ task'[t].intent
       /\ task'[t].session = task[t].session
       /\ task'[t].claimedBy = task[t].claimedBy
       /\ task'[t].auto # "queued"]_vars

\* Intent, confirmation and success are recorded only inside the frozen window
\* of a batch that is in progress, though only the claim looks at the window.
WorkOnlyInsideWindow ==
  [][\A t \in Tasks :
       \/ ~task[t].intent /\ task'[t].intent
       \/ ~task[t].confirmed /\ task'[t].confirmed
       \/ ~task[t].observed /\ task'[t].observed
       => InWindow /\ batch.status = "in_progress"]_vars

\* In a Browser Runner batch no batch-level transaction and no other device's
\* claim touches a task whose lease is live: settlement, expiry, finalization,
\* recovery and cancellation leave it to its holder.
LiveLeaseShield ==
  [][RunnerBatch /\ (BatchStep \/ \E r \in Runners : ClaimTask(r)) =>
       \A t \in Tasks : task[t].status = "claimed" /\ LiveLease(task[t], now)
                          => task'[t] = task[t]]_vars

\* The four batch-level transactions that the database does roll back are
\* rolled back for one reason each: a parked task that would fail without a
\* claim, a parked task that was never anyone's, a batch closed by another
\* transaction between the reconciler's two reads.
RefusalsExplained ==
  [][/\ refused' \in {"daily_settlement", "confirm_terminal_failure"} =>
          \E t \in Tasks : task[t].status = "available"
     /\ refused' = "finalize" =>
          \E t \in Tasks : task[t].status = "available" /\ task[t].claimedBy = Nobody
     /\ refused' = "reconcile_expired" => batch.status \in {"completed", "cancelled"}
    ]_vars

-----------------------------------------------------------------------------
(* Liveness *)

\* No chain of claims, heartbeats and resumes holds the settlement off for ever:
\* a started batch ends up closed, or keeps a task that no lease protects.
LeasesDoNotBlockSettlement ==
  <>[](batch.startedAt # NoTime =>
         \/ batch.status \in {"completed", "cancelled"}
         \/ \E t \in Tasks : task[t].status = "available")

-----------------------------------------------------------------------------
(* What the code's documents and tests promise and the database refuses       *)

\* Every unresolved task of a started batch becomes a terminal failure at the
\* cutoff, so the batch is eventually closed.
StartedIsSettled ==
  (batch.startedAt # NoTime) ~> (batch.status \in {"completed", "cancelled"})
=============================================================================
