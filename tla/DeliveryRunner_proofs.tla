----------------------- MODULE DeliveryRunner_proofs -----------------------
(***************************************************************************)
(* Theorems about DeliveryRunner, for every set of tasks, devices and      *)
(* users, every window and every lease duration.                           *)
(***************************************************************************)
EXTENDS DeliveryRunner, TLAPS

-----------------------------------------------------------------------------
(* Types: what the helpers of the transactions return *)

\* The end of a lease granted now is a time, and lies inside the window.
LEMMA LeaseUntilBound ==
  ASSUME now \in Nat
  PROVE  LeaseUntil \in Nat /\ LeaseUntil <= WindowEnd
BY TimeAssumption DEF LeaseUntil

\* A lease, a parking, a failure and a requeueing yield a task row.
LEMMA LeasedTyped ==
  ASSUME now \in Nat, NEW row \in TaskRow, NEW c \in Clients
  PROVE  Leased(row, c) \in TaskRow
<1>1. LeaseUntil \in Times
  BY LeaseUntilBound DEF Times
<1>2. AutoTo(row, "running") \in {"null", "running"}
  BY DEF AutoTo
<1>3. row.generation + 1 \in Nat /\ row.claims + 1 \in Nat
  BY DEF TaskRow
<1>4. "claimed" \in UnresolvedStatuses \cup TerminalStatuses
  BY DEF UnresolvedStatuses
<1> QED
  BY <1>1, <1>2, <1>3, <1>4 DEF TaskRow, Leased

LEMMA ParkedTyped ==
  ASSUME NEW row \in TaskRow, NEW code \in Codes
  PROVE  Parked(row, code) \in TaskRow
BY DEF TaskRow, Parked, UnresolvedStatuses, Times

LEMMA FailedTyped ==
  ASSUME NEW row \in TaskRow, NEW code \in Codes
  PROVE  Failed(row, code) \in TaskRow
<1>1. AutoTo(row, "completed") \in {"null", "completed"}
  BY DEF AutoTo
<1>2. NoTime \in Times /\ NoCode \in Codes
  BY DEF Times, Codes
<1>3. "failed" \in UnresolvedStatuses \cup TerminalStatuses
  BY DEF TerminalStatuses
<1> QED
  BY <1>1, <1>2, <1>3 DEF TaskRow, Failed

LEMMA RequeuedTyped ==
  ASSUME NEW row \in TaskRow
  PROVE  Requeued(row) \in TaskRow
BY DEF TaskRow, Requeued, UnresolvedStatuses, Times, Codes

\* The codes the server itself gives are codes.
LEMMA CodesTyped ==
  ASSUME NEW row \in TaskRow
  PROVE  /\ row.needsHuman \in Codes
         /\ \A code \in Codes : ParkCode(row, code) \in Codes
         /\ SettlementCode(row) \in Codes
BY DEF TaskRow, ParkCode, SettlementCode, Codes

\* Refreshing and settling a batch row yield a batch row.
LEMMA BatchHelpersTyped ==
  ASSUME now \in Nat, NEW b \in BatchRow, NEW rows
  PROVE  Refreshed(b, rows) \in BatchRow /\ SettledBatch(b, rows) \in BatchRow
<1>1. DeriveBatchStatus(Autos(rows)) \in {"running", "needs_human", "settled"}
  BY DEF DeriveBatchStatus
<1>2. Refreshed(b, rows) \in BatchRow
  BY <1>1 DEF Refreshed, BatchRow, Times
<1>3. SettledBatch(b, rows) \in BatchRow
  BY <1>1 DEF SettledBatch, BatchRow, Times
<1> QED
  BY <1>2, <1>3

\* A transaction that writes typed rows leaves typed rows, accepted or not.
LEMMA CommitTyped ==
  ASSUME TypeOK, NEW op \in Operations, NEW from, NEW b \in BatchRow,
         NEW rows \in [Tasks -> TaskRow], CommitFrom(op, from, b, rows)
  PROVE  /\ batch' \in BatchRow
         /\ task' \in [Tasks -> TaskRow]
         /\ refused' \in Operations \cup {"none"}
BY DEF CommitFrom, TypeOK

LEMMA UpdateTyped ==
  ASSUME TypeOK, NEW op \in Operations, NEW t \in Tasks, NEW row \in TaskRow,
         \/ UpdateAndRefresh(op, t, row)
         \/ UpdateAndSettle(op, t, row)
         \/ UpdateOnly(op, t, row)
  PROVE  TypeOK'
<1> DEFINE rows == [task EXCEPT ![t] = row]
<1>1. rows \in [Tasks -> TaskRow]
  BY DEF TypeOK
<1>2. /\ batch \in BatchRow
      /\ Refreshed(batch, rows) \in BatchRow
      /\ SettledBatch(batch, rows) \in BatchRow
  BY BatchHelpersTyped DEF TypeOK
<1>3. /\ \E b \in BatchRow : CommitFrom(op, task, b, rows)
      /\ UNCHANGED <<now, listed, reading>>
  BY <1>2 DEF UpdateAndRefresh, UpdateAndSettle, UpdateOnly, Commit
<1> HIDE DEF rows
<1>4. /\ batch' \in BatchRow
      /\ task' \in [Tasks -> TaskRow]
      /\ refused' \in Operations \cup {"none"}
  BY <1>1, <1>3, CommitTyped
<1> QED
  BY <1>3, <1>4 DEF TypeOK

-----------------------------------------------------------------------------
(* Type correctness, action by action *)

LEMMA BatchStepTyped ==
  ASSUME TypeOK, BatchStep
  PROVE  TypeOK'
<1> USE DEF Operations
<1> SUFFICES /\ batch' \in BatchRow
             /\ task' \in [Tasks -> TaskRow]
             /\ listed' \in BOOLEAN
             /\ refused' \in Operations \cup {"none"}
             /\ UNCHANGED <<now, reading>>
  BY DEF TypeOK
<1>1. CASE Freeze
  <2> DEFINE rows == [t \in Tasks |-> [task[t] EXCEPT !.status = "available"]]
             b == [batch EXCEPT !.status = "frozen"]
  <2>1. b \in BatchRow
    BY DEF TypeOK, BatchRow
  <2>2. ASSUME NEW t \in Tasks
        PROVE  [task[t] EXCEPT !.status = "available"] \in TaskRow
    BY DEF TypeOK, TaskRow, UnresolvedStatuses
  <2>3. rows \in [Tasks -> TaskRow]
    BY <2>2
  <2>4. CommitFrom("freeze", task, b, rows) /\ UNCHANGED <<now, listed, reading>>
    BY <1>1 DEF Freeze, Commit
  <2> HIDE DEF rows, b
  <2> QED
    BY <2>1, <2>3, <2>4, CommitTyped DEF TypeOK
<1>2. CASE StartAutomation
  <2> DEFINE b == [batch EXCEPT !.status = "in_progress",
                                !.automation = "running",
                                !.startedAt = now]
  <2>1. b \in BatchRow /\ task \in [Tasks -> TaskRow]
    BY DEF TypeOK, BatchRow, Times
  <2>2. CommitFrom("start", task, b, task) /\ UNCHANGED <<now, listed, reading>>
    BY <1>2 DEF StartAutomation, Commit
  <2> HIDE DEF b
  <2> QED
    BY <2>1, <2>2, CommitTyped DEF TypeOK
<1>3. CASE Cancel
  <2> DEFINE rows == [t \in Tasks |->
                        IF task[t].status \in UnresolvedStatuses
                        THEN [task[t] EXCEPT !.status = "cancelled",
                                             !.auto = AutoTo(task[t], "completed"),
                                             !.lease = NoTime]
                        ELSE task[t]]
             b == [batch EXCEPT !.status = "cancelled",
                                !.automation = IF RunnerBatch THEN "settled" ELSE @,
                                !.settledAt = IF RunnerBatch THEN now ELSE @]
  <2>1. b \in BatchRow
    BY DEF TypeOK, BatchRow, Times
  <2>2. ASSUME NEW t \in Tasks
        PROVE  [task[t] EXCEPT !.status = "cancelled",
                               !.auto = AutoTo(task[t], "completed"),
                               !.lease = NoTime] \in TaskRow
    <3>1. AutoTo(task[t], "completed") \in {"null", "completed"}
      BY DEF AutoTo
    <3>2. task[t] \in TaskRow
      BY DEF TypeOK
    <3>3. /\ NoTime \in Times
          /\ "cancelled" \in UnresolvedStatuses \cup TerminalStatuses
      BY DEF Times, TerminalStatuses
    <3> QED
      BY <3>1, <3>2, <3>3 DEF TaskRow
  <2>3. rows \in [Tasks -> TaskRow]
    BY <2>2 DEF TypeOK
  <2>4. CommitFrom("cancel", task, b, rows) /\ UNCHANGED <<now, listed, reading>>
    BY <1>3 DEF Cancel, Commit
  <2> HIDE DEF rows, b
  <2> QED
    BY <2>1, <2>3, <2>4, CommitTyped DEF TypeOK
<1>4. CASE \E t \in Tasks : ConfirmTerminalFailure(t)
  <2>1. PICK t \in Tasks : ConfirmTerminalFailure(t)
    BY <1>4
  <2>2. task[t] \in TaskRow /\ task[t].needsHuman \in Codes
    BY CodesTyped DEF TypeOK
  <2>3. Failed(task[t], task[t].needsHuman) \in TaskRow
    BY <2>2, FailedTyped
  <2>4. TypeOK'
    BY <2>1, <2>3, UpdateTyped DEF ConfirmTerminalFailure
  <2> QED
    BY <2>1, <2>4 DEF TypeOK, ConfirmTerminalFailure, UpdateAndSettle
<1>5. CASE FinalizeNeedsHuman
  <2> DEFINE open == {t \in Tasks : task[t].status \in {"available", "claimed"}}
             claimed == [t \in Tasks |->
                           IF task[t].status # "available" THEN task[t]
                           ELSE [task[t] EXCEPT !.status = "claimed",
                                                !.auto = "running",
                                                !.generation = @ + 1,
                                                !.lease = now]]
             rows == [t \in Tasks |->
                        IF t \in open THEN Failed(claimed[t], claimed[t].needsHuman)
                        ELSE task[t]]
  <2>1. ASSUME NEW t \in Tasks
        PROVE  claimed[t] \in TaskRow
    <3>1. task[t] \in TaskRow
      BY DEF TypeOK
    <3>2. now \in Times
      BY DEF TypeOK, Times
    <3>3. task[t].generation + 1 \in Nat
      BY <3>1 DEF TaskRow
    <3>4. [task[t] EXCEPT !.status = "claimed", !.auto = "running",
                          !.generation = @ + 1, !.lease = now] \in TaskRow
      BY <3>1, <3>2, <3>3 DEF TaskRow, UnresolvedStatuses
    <3> QED
      BY <3>1, <3>4
  <2> HIDE DEF claimed
  <2>2. ASSUME NEW t \in Tasks
        PROVE  Failed(claimed[t], claimed[t].needsHuman) \in TaskRow
    BY <2>1, CodesTyped, FailedTyped
  <2>3. rows \in [Tasks -> TaskRow]
    BY <2>2 DEF TypeOK
  <2>4. /\ \/ CommitFrom("finalize", claimed, SettledBatch(batch, rows), rows)
           \/ UNCHANGED <<batch, task>> /\ refused' = "finalize"
        /\ UNCHANGED <<now, listed, reading>>
    BY <1>5 DEF FinalizeNeedsHuman, claimed
  <2> HIDE DEF rows
  <2>5. SettledBatch(batch, rows) \in BatchRow
    BY BatchHelpersTyped DEF TypeOK
  <2> QED
    BY <2>3, <2>4, <2>5, CommitTyped DEF TypeOK
<1>6. CASE RequeueTransportFailures \/ RequeueProfileBusyTasks
  <2>1. PICK cohort : RequeueTasks(cohort)
    BY <1>6 DEF RequeueTransportFailures, RequeueProfileBusyTasks
  <2> DEFINE rows == [t \in Tasks |->
                        IF t \in cohort THEN Requeued(task[t]) ELSE task[t]]
             b == [batch EXCEPT !.automation = "running", !.settledAt = NoTime]
  <2>2. b \in BatchRow
    BY DEF TypeOK, BatchRow, Times
  <2>3. rows \in [Tasks -> TaskRow]
    BY RequeuedTyped DEF TypeOK
  <2>4. CommitFrom("requeue", task, b, rows) /\ UNCHANGED <<now, listed, reading>>
    BY <2>1 DEF RequeueTasks, Commit
  <2> HIDE DEF rows, b
  <2> QED
    BY <2>2, <2>3, <2>4, CommitTyped DEF TypeOK
<1>7. CASE ListExpired
  BY <1>7 DEF ListExpired, TypeOK
<1>8. CASE ReconcileExpired
  <2> DEFINE overdue == {t \in Tasks : /\ task[t].status \in {"available", "claimed"}
                                       /\ task[t].auto \in {"queued", "running"}
                                       /\ ~(task[t].status = "claimed"
                                              /\ LiveLease(task[t], now))}
             rows == [t \in Tasks |->
                        IF t \notin overdue THEN task[t]
                        ELSE Parked(task[t],
                               ParkCode(task[t], "window_expired_unexecuted"))]
  <2>1. ASSUME NEW t \in Tasks
        PROVE  Parked(task[t], ParkCode(task[t], "window_expired_unexecuted"))
                 \in TaskRow
    <3>1. task[t] \in TaskRow
      BY DEF TypeOK
    <3>2. ParkCode(task[t], "window_expired_unexecuted") \in Codes
      BY DEF ParkCode, Codes
    <3> QED
      BY <3>1, <3>2, ParkedTyped
  <2>2. rows \in [Tasks -> TaskRow]
    BY <2>1 DEF TypeOK
  <2>3. /\ \/ CommitFrom("reconcile_expired", task, batch, task)
           \/ CommitFrom("reconcile_expired", task, Refreshed(batch, rows), rows)
        /\ UNCHANGED <<now, reading>>
        /\ listed' = FALSE
    BY <1>8 DEF ReconcileExpired, Commit
  <2> HIDE DEF rows
  <2>4. Refreshed(batch, rows) \in BatchRow
    BY BatchHelpersTyped DEF TypeOK
  <2> QED
    BY <2>2, <2>3, <2>4, CommitTyped DEF TypeOK
<1>9. CASE DailySettlement
  <2> DEFINE open == {t \in Tasks : task[t].status \in {"available", "claimed"}}
             rows == [t \in Tasks |->
                        IF t \in open THEN Failed(task[t], SettlementCode(task[t]))
                        ELSE task[t]]
             b == SettledBatch([batch EXCEPT !.status = "in_progress"], rows)
  <2>1. ASSUME NEW t \in Tasks
        PROVE  Failed(task[t], SettlementCode(task[t])) \in TaskRow
    BY CodesTyped, FailedTyped DEF TypeOK
  <2>2. rows \in [Tasks -> TaskRow]
    BY <2>1 DEF TypeOK
  <2>3. CommitFrom("daily_settlement", task, b, rows) /\ UNCHANGED <<now, listed, reading>>
    BY <1>9 DEF DailySettlement, Commit
  <2> HIDE DEF rows
  <2>4. [batch EXCEPT !.status = "in_progress"] \in BatchRow
    BY DEF TypeOK, BatchRow
  <2>5. b \in BatchRow
    BY <2>4, BatchHelpersTyped DEF TypeOK
  <2> HIDE DEF b
  <2> QED
    BY <2>2, <2>3, <2>5, CommitTyped DEF TypeOK
<1> QED
  BY <1>1, <1>2, <1>3, <1>4, <1>5, <1>6, <1>7, <1>8, <1>9 DEF BatchStep

LEMMA HeartbeatTyped ==
  ASSUME TypeOK, NEW t \in Tasks, NEW c \in Clients, NEW g, Heartbeat(t, c, g)
  PROVE  TypeOK'
<1>1. LeaseUntil \in Times
  BY LeaseUntilBound DEF TypeOK, Times
<1>2. [task[t] EXCEPT !.lease = LeaseUntil] \in TaskRow
  BY <1>1 DEF TypeOK, TaskRow
<1> QED
  BY <1>2, UpdateTyped DEF Heartbeat, Operations

LEMMA CompleteTyped ==
  ASSUME TypeOK, NEW t \in Tasks, NEW c \in Clients, NEW g, Complete(t, c, g)
  PROVE  TypeOK'
<1> DEFINE row == Succeeded(task[t])
<1>1. AutoTo(task[t], "completed") \in {"null", "completed"}
  BY DEF AutoTo
<1>2. row \in TaskRow
  <2>1. task[t] \in TaskRow
    BY DEF TypeOK
  <2>2. NoTime \in Times /\ NoCode \in Codes
    BY DEF Times, Codes
  <2>3. "succeeded" \in UnresolvedStatuses \cup TerminalStatuses
    BY DEF TerminalStatuses
  <2> QED
    BY <1>1, <2>1, <2>2, <2>3 DEF Succeeded, TaskRow
<1>3. UpdateAndSettle("complete", t, row)
  BY DEF Complete
<1> HIDE DEF row
<1> QED
  BY <1>2, <1>3, UpdateTyped DEF Operations

LEMMA ClaimTaskTyped ==
  ASSUME TypeOK, NEW r \in Runners, ClaimTask(r)
  PROVE  TypeOK'
<1> USE DEF Operations
<1>1. PICK parked : (\E t \in Tasks : Claim(r, t, parked)) \/ ClaimNothing(parked)
  BY DEF ClaimTask
<1> DEFINE rows == ParkedCandidates(parked)
<1>2. rows \in [Tasks -> TaskRow]
  <2>1. ASSUME NEW t \in Tasks
        PROVE  rows[t] \in TaskRow
    <3>1. task[t] \in TaskRow
      BY DEF TypeOK
    <3>2. ASSUME NEW code \in Codes
          PROVE  Parked(task[t], code) \in TaskRow
      BY <3>1, ParkedTyped
    <3>3. /\ "pre_submit_attempts_exhausted" \in Codes
          /\ ParkCode(task[t], "runner_lease_expired") \in Codes
      BY DEF ParkCode, Codes
    <3> QED
      BY <3>1, <3>2, <3>3 DEF ParkedCandidates
  <2> QED
    BY <2>1 DEF ParkedCandidates
<1>3. Refreshed(batch, rows) \in BatchRow
  BY BatchHelpersTyped DEF TypeOK
<1> HIDE DEF rows
<1>4. CASE \E t \in Tasks : Claim(r, t, parked)
  <2>1. PICK t \in Tasks : Claim(r, t, parked)
    BY <1>4
  <2> DEFINE row == [Leased(rows[t], r) EXCEPT !.attempts = @ + 1]
             leased == [rows EXCEPT ![t] = row]
             b == IF parked = {} THEN [batch EXCEPT !.status = "in_progress"]
                  ELSE [Refreshed(batch, rows) EXCEPT !.status = "in_progress"]
  <2>2. b \in BatchRow
    BY <1>3 DEF TypeOK, BatchRow
  <2>3. row \in TaskRow
    <3>1. Leased(rows[t], r) \in TaskRow
      BY <1>2, LeasedTyped DEF TypeOK, Clients
    <3> QED
      BY <3>1 DEF TaskRow
  <2> HIDE DEF row
  <2>4. leased \in [Tasks -> TaskRow]
    BY <1>2, <2>3
  <2>5. CommitFrom("claim", task, b, leased) /\ UNCHANGED <<now, listed, reading>>
    BY <2>1 DEF Claim, Commit, rows, row
  <2> HIDE DEF leased, b
  <2> QED
    BY <2>2, <2>4, <2>5, CommitTyped DEF TypeOK
<1>5. CASE ClaimNothing(parked)
  <2>1. /\ CommitFrom("claim", task, Refreshed(batch, rows), rows)
        /\ UNCHANGED <<now, listed, reading>>
    BY <1>5 DEF ClaimNothing, Commit, rows
  <2> QED
    BY <1>2, <1>3, <2>1, CommitTyped DEF TypeOK
<1> QED
  BY <1>1, <1>4, <1>5

LEMMA RunnerStepTyped ==
  ASSUME TypeOK, NEW r \in Runners, NEW t \in Tasks, RunnerStep(r, t)
  PROVE  TypeOK'
<1> USE DEF Operations
<1>1. task[t] \in TaskRow /\ task[t].needsHuman \in Codes
  BY CodesTyped DEF TypeOK
<1>2. CASE Resume(r, t)
  <2> DEFINE row == [Leased(task[t], r) EXCEPT
                       !.needsHuman = IF task[t].intent THEN @ ELSE NoCode]
             rows == [task EXCEPT ![t] = row]
             b == [batch EXCEPT !.automation = "running"]
  <2>1. row \in TaskRow
    <3>1. Leased(task[t], r) \in TaskRow
      BY <1>1, LeasedTyped DEF TypeOK, Clients
    <3>2. NoCode \in Codes
      BY DEF Codes
    <3> QED
      BY <3>1, <3>2 DEF TaskRow
  <2> HIDE DEF row
  <2>2. rows \in [Tasks -> TaskRow] /\ b \in BatchRow
    BY <2>1 DEF TypeOK, BatchRow
  <2>3. CommitFrom("resume", task, b, rows) /\ UNCHANGED <<now, listed, reading>>
    BY <1>2 DEF Resume, Commit, row
  <2> HIDE DEF rows, b
  <2> QED
    BY <2>2, <2>3, CommitTyped DEF TypeOK
<1>3. CASE ReconcileTask(r, t)
  <2>1. ParkCode(task[t], "runner_lease_expired") \in Codes
    BY DEF ParkCode, Codes
  <2> QED
    BY <1>1, <1>3, <2>1, ParkedTyped, UpdateTyped DEF ReconcileTask
<1>4. ASSUME NEW g \in 1..MaxGeneration, Heartbeat(t, r, g)
      PROVE  TypeOK'
  BY <1>4, HeartbeatTyped DEF Clients
<1>5. ASSUME NEW g \in 1..MaxGeneration, NEW s \in Sessions,
             RecordSubmitIntent(t, r, g, s) \/ ConfirmSubmitted(t, r, g, s)
      PROVE  TypeOK'
  <2>1. /\ [task[t] EXCEPT !.session = s, !.intent = TRUE] \in TaskRow
        /\ [task[t] EXCEPT !.confirmed = TRUE] \in TaskRow
    BY <1>1 DEF TaskRow
  <2> QED
    BY <1>5, <2>1, UpdateTyped DEF RecordSubmitIntent, ConfirmSubmitted
<1>6. ASSUME NEW g \in 1..MaxGeneration, NEW stage, NEW code \in FailureCodes,
             RecordFailure(t, r, g, stage, code)
      PROVE  TypeOK'
  <2> DEFINE row == IF RetriesFailure(task[t], stage, code)
                    THEN [task[t] EXCEPT !.status = "available", !.auto = "queued",
                                         !.lease = NoTime, !.lastError = code]
                    ELSE Parked(task[t], code)
  <2>1. code \in Codes
    BY DEF Codes
  <2>2. [task[t] EXCEPT !.status = "available", !.auto = "queued",
                        !.lease = NoTime, !.lastError = code] \in TaskRow
    BY <1>1, <2>1 DEF TaskRow, Times, UnresolvedStatuses
  <2>3. row \in TaskRow
    BY <1>1, <2>1, <2>2, ParkedTyped
  <2>4. UpdateAndRefresh("failure", t, row)
    BY <1>6 DEF RecordFailure
  <2> HIDE DEF row
  <2> QED
    BY <2>3, <2>4, UpdateTyped
<1>7. ASSUME NEW g \in 1..MaxGeneration, Complete(t, r, g)
      PROVE  TypeOK'
  BY <1>7, CompleteTyped DEF Clients
<1> QED
  BY <1>2, <1>3, <1>4, <1>5, <1>6, <1>7 DEF RunnerStep

LEMMA PortalStepTyped ==
  ASSUME TypeOK, NEW u \in Users, NEW t \in Tasks, PortalStep(u, t)
  PROVE  TypeOK'
<1> USE DEF Operations
<1>1. task[t] \in TaskRow /\ task[t].needsHuman \in Codes
  BY CodesTyped DEF TypeOK
<1>2. CASE ClaimAvailable(u, t) \/ ClaimNeedsHuman(u, t)
  <2> DEFINE rows == [task EXCEPT ![t] = Leased(task[t], u)]
             b == [batch EXCEPT !.status = "in_progress"]
  <2>1. Leased(task[t], u) \in TaskRow
    BY <1>1, LeasedTyped DEF TypeOK, Clients
  <2>2. rows \in [Tasks -> TaskRow] /\ b \in BatchRow
    BY <2>1 DEF TypeOK, BatchRow
  <2>3. /\ CommitFrom("portal_claim", task, b, rows)
        /\ reading' \in SUBSET Users
        /\ UNCHANGED <<now, listed>>
    BY <1>2 DEF ClaimAvailable, ClaimNeedsHuman, PortalClaim, Commit, TypeOK
  <2> HIDE DEF rows, b
  <2> QED
    BY <2>2, <2>3, CommitTyped DEF TypeOK
<1>3. ASSUME NEW g \in 1..MaxGeneration, Heartbeat(t, u, g)
      PROVE  TypeOK'
  BY <1>3, HeartbeatTyped DEF Clients
<1>4. ASSUME NEW g \in 1..MaxGeneration, Complete(t, u, g)
      PROVE  TypeOK'
  BY <1>4, CompleteTyped DEF Clients
<1>5. ASSUME NEW g \in 1..MaxGeneration, Release(t, u, g)
      PROVE  TypeOK'
  <2>1. AutoTo(task[t], "needs_human") \in {"null", "needs_human"}
    BY DEF AutoTo
  <2>2. [task[t] EXCEPT !.status = "available",
                        !.auto = AutoTo(task[t], "needs_human"),
                        !.lease = NoTime] \in TaskRow
    BY <1>1, <2>1 DEF TaskRow, Times, UnresolvedStatuses
  <2> QED
    BY <1>5, <2>2, UpdateTyped DEF Release
<1>6. ASSUME NEW g \in 1..MaxGeneration, NEW code \in FailureCodes \cup {NoCode},
             PortalFail(t, u, g, code)
      PROVE  TypeOK'
  <2> DEFINE kept == IF task[t].needsHuman # NoCode THEN task[t].needsHuman ELSE code
  <2>1. kept \in Codes
    BY <1>1 DEF Codes
  <2>2. UpdateAndSettle("portal_fail", t, Failed(task[t], kept))
    BY <1>6 DEF PortalFail
  <2> HIDE DEF kept
  <2> QED
    BY <1>1, <2>1, <2>2, FailedTyped, UpdateTyped
<1> QED
  BY <1>2, <1>3, <1>4, <1>5, <1>6 DEF PortalStep

LEMMA TypeOKInductive ==
  ASSUME TypeOK, [Next]_vars
  PROVE  TypeOK'
<1>1. ASSUME NEW r \in Runners, ClaimTask(r) PROVE TypeOK'
  BY <1>1, ClaimTaskTyped
<1>2. ASSUME NEW r \in Runners, NEW t \in Tasks, RunnerStep(r, t) PROVE TypeOK'
  BY <1>2, RunnerStepTyped
<1>3. ASSUME NEW u \in Users, NEW t \in Tasks, PortalStep(u, t) PROVE TypeOK'
  BY <1>3, PortalStepTyped
<1>4. ASSUME NEW u \in Users, ReadHumanQueue(u) \/ FindNothing(u) PROVE TypeOK'
  BY <1>4 DEF ReadHumanQueue, FindNothing, TypeOK
<1>5. CASE BatchStep
  BY <1>5, BatchStepTyped
<1>6. CASE Tick
  BY <1>6 DEF Tick, TypeOK
<1>7. CASE UNCHANGED vars
  BY <1>7 DEF vars, TypeOK
<1> QED
  BY <1>1, <1>2, <1>3, <1>4, <1>5, <1>6, <1>7 DEF Next

LEMMA InitTyped ==
  ASSUME Init
  PROVE  TypeOK
<1>1. batch \in BatchRow
  BY ModesAssumption DEF Init, BatchRow, Times
<1>2. ASSUME NEW t \in Tasks
      PROVE  task[t] \in TaskRow
  <2>1. /\ NoTime \in Times
        /\ NoCode \in Codes
        /\ "planned" \in UnresolvedStatuses \cup TerminalStatuses
    BY DEF Times, Codes, UnresolvedStatuses
  <2> QED
    BY <2>1 DEF Init, TaskRow
<1>3. task \in [Tasks -> TaskRow]
  BY <1>2 DEF Init
<1> QED
  BY <1>1, <1>3 DEF Init, TypeOK

\* Every value the transactions ever write has its column's type, whatever the
\* tasks, the devices, the window and the lease duration are.
THEOREM TypeCorrect == Spec => []TypeOK
<1>1. Init => TypeOK
  BY InitTyped
<1>2. TypeOK /\ [Next]_vars => TypeOK'
  BY TypeOKInductive
<1> QED
  BY <1>1, <1>2, PTL DEF Spec

-----------------------------------------------------------------------------
(* Custody of submitted tasks *)

\* The part of the row constraints custody rests on: a queued task, or one of
\* a manual batch, has never been submitted.
AutomationConsistent == \A t \in Tasks : AutomationStateConsistent(task[t])

CustodyInv == TypeOK /\ AutomationConsistent

\* What custody asks of a row and the row that replaces it.
Kept(old, new) ==
  old.intent => /\ new.intent
                /\ new.session = old.session
                /\ new.claimedBy = old.claimedBy
                /\ new.auto # "queued"

\* What every step must show: tasks are kept, and the rows stay consistent.
CustodyStep ==
  /\ AutomationConsistent'
  /\ \A t \in Tasks : Kept(task[t], task'[t])

\* Submitted tasks are neither queued nor of a manual batch.
LEMMA SubmittedNotQueued ==
  ASSUME CustodyInv, NEW t \in Tasks, task[t].intent
  PROVE  task[t].auto \notin {"null", "queued"}
BY DEF CustodyInv, AutomationConsistent, AutomationStateConsistent

\* A step that leaves the rows alone keeps them.
LEMMA UnchangedKeeps ==
  ASSUME CustodyInv, UNCHANGED task
  PROVE  CustodyStep
<1>1. \A t \in Tasks : Kept(task[t], task[t])
  BY SubmittedNotQueued DEF Kept
<1> QED
  BY <1>1 DEF CustodyStep, CustodyInv, AutomationConsistent

\* A transaction that writes kept rows keeps them, accepted or not; what is
\* accepted satisfies the constraints.
LEMMA CommitKeeps ==
  ASSUME CustodyInv, NEW op, NEW from, NEW b, NEW rows,
         CommitFrom(op, from, b, rows),
         \A t \in Tasks : Kept(task[t], rows[t])
  PROVE  CustodyStep
<1>1. CASE UNCHANGED task
  BY <1>1, UnchangedKeeps
<1>2. CASE task' = rows /\ \A t \in Tasks : RowAccepted(from[t], rows[t])
  BY <1>2 DEF CustodyStep, AutomationConsistent, RowAccepted, RowConsistent
<1> QED
  BY <1>1, <1>2 DEF CommitFrom

\* A transaction on one task keeps all of them if it keeps that one.
LEMMA UpdateKeeps ==
  ASSUME CustodyInv, NEW op, NEW t \in Tasks, NEW row, Kept(task[t], row),
         \/ UpdateAndRefresh(op, t, row)
         \/ UpdateAndSettle(op, t, row)
         \/ UpdateOnly(op, t, row)
  PROVE  CustodyStep
<1> DEFINE rows == [task EXCEPT ![t] = row]
<1>1. \A u \in Tasks : Kept(task[u], rows[u])
  <2>1. \A u \in Tasks : Kept(task[u], task[u])
    BY SubmittedNotQueued DEF Kept
  <2>2. task \in [Tasks -> TaskRow]
    BY DEF CustodyInv, TypeOK
  <2> QED
    BY <2>1, <2>2
<1>2. \E b : CommitFrom(op, task, b, rows)
  BY DEF UpdateAndRefresh, UpdateAndSettle, UpdateOnly, Commit
<1> HIDE DEF rows
<1> QED
  BY <1>1, <1>2, CommitKeeps

\* Parking and failing keep a task; leasing keeps one for its own device.
LEMMA HelpersKeep ==
  ASSUME CustodyInv, NEW t \in Tasks, NEW code
  PROVE  /\ Kept(task[t], task[t])
         /\ Kept(task[t], Parked(task[t], code))
         /\ Kept(task[t], Failed(task[t], code))
         /\ Kept(task[t], Leased(task[t], task[t].claimedBy))
<1>1. task[t] \in TaskRow
  BY DEF CustodyInv, TypeOK
<1>2. task[t].intent => task[t].auto # "queued"
  BY SubmittedNotQueued
<1>3. AutoTo(task[t], "completed") # "queued" /\ AutoTo(task[t], "running") # "queued"
  BY DEF AutoTo
<1>4. Kept(task[t], task[t]) /\ Kept(task[t], Parked(task[t], code))
  BY <1>1, <1>2 DEF Kept, Parked, TaskRow
<1>5. Kept(task[t], Failed(task[t], code))
  BY <1>1, <1>3 DEF Kept, Failed, TaskRow
<1>6. Kept(task[t], Leased(task[t], task[t].claimedBy))
  BY <1>1, <1>3 DEF Kept, Leased, TaskRow
<1> QED
  BY <1>4, <1>5, <1>6

LEMMA ClaimTaskKeeps ==
  ASSUME CustodyInv, NEW r \in Runners, ClaimTask(r)
  PROVE  CustodyStep
<1>1. PICK parked : (\E t \in Tasks : Claim(r, t, parked)) \/ ClaimNothing(parked)
  BY DEF ClaimTask
<1> DEFINE rows == ParkedCandidates(parked)
<1>2. \A t \in Tasks : Kept(task[t], rows[t])
  BY HelpersKeep DEF ParkedCandidates
<1>3. CASE \E t \in Tasks : Claim(r, t, parked)
  <2>1. PICK t \in Tasks : Claim(r, t, parked)
    BY <1>3
  <2> DEFINE row == [Leased(rows[t], r) EXCEPT !.attempts = @ + 1]
  <2>2. ~task[t].intent
    BY <2>1, SubmittedNotQueued DEF Claim, Queued
  <2>3. \A u \in Tasks : Kept(task[u], [rows EXCEPT ![t] = row][u])
    BY <1>2, <2>2 DEF Kept, ParkedCandidates
  <2>4. \E b : CommitFrom("claim", task, b, [rows EXCEPT ![t] = row])
    BY <2>1 DEF Claim, Commit
  <2> HIDE DEF rows, row
  <2> QED
    BY <2>3, <2>4, CommitKeeps
<1>4. CASE ClaimNothing(parked)
  <2>1. CommitFrom("claim", task, Refreshed(batch, rows), rows)
    BY <1>4 DEF ClaimNothing, Commit
  <2> HIDE DEF rows
  <2> QED
    BY <1>2, <2>1, CommitKeeps
<1> QED
  BY <1>1, <1>3, <1>4

\* Whoever holds the lease: completing and extending keep the task.
LEMMA HolderKeeps ==
  ASSUME CustodyInv, NEW t \in Tasks, NEW c, NEW g,
         Heartbeat(t, c, g) \/ Complete(t, c, g)
  PROVE  CustodyStep
<1>1. task[t] \in TaskRow
  BY DEF CustodyInv, TypeOK
<1>2. task[t].intent => task[t].auto # "queued"
  BY SubmittedNotQueued
<1>3. CASE Heartbeat(t, c, g)
  <2>1. Kept(task[t], [task[t] EXCEPT !.lease = LeaseUntil])
    BY <1>1, <1>2 DEF Kept, TaskRow
  <2> QED
    BY <1>3, <2>1, UpdateKeeps DEF Heartbeat
<1>4. CASE Complete(t, c, g)
  <2> DEFINE row == Succeeded(task[t])
  <2>1. AutoTo(task[t], "completed") # "queued"
    BY DEF AutoTo
  <2>2. Kept(task[t], row)
    BY <1>1, <2>1 DEF Succeeded, Kept, TaskRow
  <2>3. UpdateAndSettle("complete", t, row)
    BY <1>4 DEF Complete
  <2> HIDE DEF row
  <2> QED
    BY <2>2, <2>3, UpdateKeeps
<1> QED
  BY <1>3, <1>4

LEMMA RunnerStepKeeps ==
  ASSUME CustodyInv, NEW r \in Runners, NEW t \in Tasks, RunnerStep(r, t)
  PROVE  CustodyStep
<1>1. task[t] \in TaskRow /\ task \in [Tasks -> TaskRow]
  BY DEF CustodyInv, TypeOK
<1>2. CASE Resume(r, t)
  <2> DEFINE row == [Leased(task[t], r) EXCEPT
                       !.needsHuman = IF task[t].intent THEN @ ELSE NoCode]
             rows == [task EXCEPT ![t] = row]
  <2>1. task[t].claimedBy = r
    BY <1>2 DEF Resume, ResumableBy
  <2>2. Kept(task[t], Leased(task[t], r))
    BY <2>1, HelpersKeep
  <2>3. Kept(task[t], row)
    BY <1>1, <2>2 DEF Kept, Leased, TaskRow
  <2> HIDE DEF row
  <2>4. \A u \in Tasks : Kept(task[u], rows[u])
    BY <1>1, <2>3, HelpersKeep
  <2>5. CommitFrom("resume", task, [batch EXCEPT !.automation = "running"], rows)
    BY <1>2 DEF Resume, Commit, row
  <2> HIDE DEF rows
  <2> QED
    BY <2>4, <2>5, CommitKeeps
<1>3. CASE ReconcileTask(r, t)
  BY <1>3, HelpersKeep, UpdateKeeps DEF ReconcileTask
<1>4. ASSUME NEW g \in 1..MaxGeneration, NEW s \in Sessions,
             RecordSubmitIntent(t, r, g, s) \/ ConfirmSubmitted(t, r, g, s)
      PROVE  CustodyStep
  <2>1. CASE RecordSubmitIntent(t, r, g, s)
    <3>1. Kept(task[t], [task[t] EXCEPT !.session = s, !.intent = TRUE])
      BY <2>1 DEF RecordSubmitIntent, Kept
    <3> QED
      BY <2>1, <3>1, UpdateKeeps DEF RecordSubmitIntent
  <2>2. CASE ConfirmSubmitted(t, r, g, s)
    <3>1. Kept(task[t], [task[t] EXCEPT !.confirmed = TRUE])
      BY <1>1, SubmittedNotQueued DEF Kept, TaskRow
    <3> QED
      BY <2>2, <3>1, UpdateKeeps DEF ConfirmSubmitted
  <2> QED
    BY <1>4, <2>1, <2>2
<1>5. ASSUME NEW g \in 1..MaxGeneration, NEW stage, NEW code \in FailureCodes,
             RecordFailure(t, r, g, stage, code)
      PROVE  CustodyStep
  <2>1. CASE RetriesFailure(task[t], stage, code)
    <3> DEFINE row == [task[t] EXCEPT !.status = "available", !.auto = "queued",
                                      !.lease = NoTime, !.lastError = code]
    <3>1. Kept(task[t], row)
      BY <2>1 DEF RetriesFailure, Kept
    <3>2. UpdateAndRefresh("failure", t, row)
      BY <1>5, <2>1 DEF RecordFailure
    <3> HIDE DEF row
    <3> QED
      BY <3>1, <3>2, UpdateKeeps
  <2>2. CASE ~RetriesFailure(task[t], stage, code)
    <3>1. UpdateAndRefresh("failure", t, Parked(task[t], code))
      BY <1>5, <2>2 DEF RecordFailure
    <3> QED
      BY <3>1, HelpersKeep, UpdateKeeps
  <2> QED
    BY <2>1, <2>2
<1>6. ASSUME NEW g \in 1..MaxGeneration, Heartbeat(t, r, g) \/ Complete(t, r, g)
      PROVE  CustodyStep
  BY <1>6, HolderKeeps
<1> QED
  BY <1>2, <1>3, <1>4, <1>5, <1>6 DEF RunnerStep

LEMMA PortalStepKeeps ==
  ASSUME CustodyInv, NEW u \in Users, NEW t \in Tasks, PortalStep(u, t)
  PROVE  CustodyStep
<1>1. task[t] \in TaskRow /\ task \in [Tasks -> TaskRow]
  BY DEF CustodyInv, TypeOK
<1>2. CASE ClaimAvailable(u, t) \/ ClaimNeedsHuman(u, t)
  <2> DEFINE rows == [task EXCEPT ![t] = Leased(task[t], u)]
  <2>1. ~task[t].intent
    BY <1>2, SubmittedNotQueued DEF ClaimAvailable, ClaimNeedsHuman
  <2>2. \A v \in Tasks : Kept(task[v], rows[v])
    BY <1>1, <2>1, HelpersKeep DEF Kept
  <2>3. \E b : CommitFrom("portal_claim", task, b, rows)
    BY <1>2 DEF ClaimAvailable, ClaimNeedsHuman, PortalClaim, Commit
  <2> HIDE DEF rows
  <2> QED
    BY <2>2, <2>3, CommitKeeps
<1>3. ASSUME NEW g \in 1..MaxGeneration, Heartbeat(t, u, g) \/ Complete(t, u, g)
      PROVE  CustodyStep
  BY <1>3, HolderKeeps
<1>4. ASSUME NEW g \in 1..MaxGeneration, Release(t, u, g)
      PROVE  CustodyStep
  <2> DEFINE row == [task[t] EXCEPT !.status = "available",
                                    !.auto = AutoTo(task[t], "needs_human"),
                                    !.lease = NoTime]
  <2>1. Kept(task[t], row)
    BY <1>4 DEF Release, PortalMutationAllowed, Kept
  <2>2. UpdateOnly("release", t, row)
    BY <1>4 DEF Release
  <2> HIDE DEF row
  <2> QED
    BY <2>1, <2>2, UpdateKeeps
<1>5. ASSUME NEW g \in 1..MaxGeneration, NEW code \in FailureCodes \cup {NoCode},
             PortalFail(t, u, g, code)
      PROVE  CustodyStep
  BY <1>5, HelpersKeep, UpdateKeeps DEF PortalFail
<1> QED
  BY <1>2, <1>3, <1>4, <1>5 DEF PortalStep

LEMMA BatchStepKeeps ==
  ASSUME CustodyInv, BatchStep
  PROVE  CustodyStep
<1>1. \A t \in Tasks : task[t] \in TaskRow
  BY DEF CustodyInv, TypeOK
<1>2. CASE Freeze
  <2> DEFINE rows == [t \in Tasks |-> [task[t] EXCEPT !.status = "available"]]
  <2>1. \A t \in Tasks : Kept(task[t], rows[t])
    BY <1>1, SubmittedNotQueued DEF Kept, TaskRow
  <2>2. \E b : CommitFrom("freeze", task, b, rows)
    BY <1>2 DEF Freeze, Commit
  <2> HIDE DEF rows
  <2> QED
    BY <2>1, <2>2, CommitKeeps
<1>3. CASE StartAutomation
  <2>1. \E b : CommitFrom("start", task, b, task)
    BY <1>3 DEF StartAutomation, Commit
  <2> QED
    BY <2>1, HelpersKeep, CommitKeeps
<1>4. CASE Cancel
  <2> DEFINE rows == [t \in Tasks |->
                        IF task[t].status \in UnresolvedStatuses
                        THEN [task[t] EXCEPT !.status = "cancelled",
                                             !.auto = AutoTo(task[t], "completed"),
                                             !.lease = NoTime]
                        ELSE task[t]]
  <2>1. ASSUME NEW t \in Tasks
        PROVE  Kept(task[t], rows[t])
    <3>1. AutoTo(task[t], "completed") # "queued"
      BY DEF AutoTo
    <3>2. Kept(task[t], [task[t] EXCEPT !.status = "cancelled",
                                        !.auto = AutoTo(task[t], "completed"),
                                        !.lease = NoTime])
      BY <1>1, <3>1 DEF Kept, TaskRow
    <3> QED
      BY <3>2, HelpersKeep
  <2>2. \E b : CommitFrom("cancel", task, b, rows)
    BY <1>4 DEF Cancel, Commit
  <2> HIDE DEF rows
  <2> QED
    BY <2>1, <2>2, CommitKeeps
<1>5. CASE \E t \in Tasks : ConfirmTerminalFailure(t)
  BY <1>5, HelpersKeep, UpdateKeeps DEF ConfirmTerminalFailure
<1>6. CASE FinalizeNeedsHuman
  <2> DEFINE open == {t \in Tasks : task[t].status \in {"available", "claimed"}}
             claimed == [t \in Tasks |->
                           IF task[t].status # "available" THEN task[t]
                           ELSE [task[t] EXCEPT !.status = "claimed",
                                                !.auto = "running",
                                                !.generation = @ + 1,
                                                !.lease = now]]
             rows == [t \in Tasks |->
                        IF t \in open THEN Failed(claimed[t], claimed[t].needsHuman)
                        ELSE task[t]]
  <2>1. ASSUME NEW t \in Tasks
        PROVE  Kept(task[t], rows[t])
    <3>1. Kept(task[t], Failed(task[t], task[t].needsHuman)) /\ Kept(task[t], task[t])
      BY HelpersKeep
    <3> DEFINE held == [task[t] EXCEPT !.status = "claimed", !.auto = "running",
                                       !.generation = @ + 1, !.lease = now]
    <3>2. Kept(task[t], Failed(held, held.needsHuman))
      BY <1>1 DEF Kept, Failed, AutoTo, TaskRow
    <3>3. claimed[t] = task[t] \/ claimed[t] = held
      OBVIOUS
    <3> HIDE DEF claimed, held
    <3> QED
      BY <3>1, <3>2, <3>3
  <2>2. \/ UNCHANGED task
        \/ CommitFrom("finalize", claimed, SettledBatch(batch, rows), rows)
    BY <1>6 DEF FinalizeNeedsHuman
  <2> HIDE DEF claimed, rows
  <2> QED
    BY <2>1, <2>2, CommitKeeps, UnchangedKeeps
<1>7. ASSUME NEW cohort, RequeueTasks(cohort),
             \A t \in Tasks : t \in cohort => ~task[t].intent
      PROVE  CustodyStep
  <2> DEFINE rows == [t \in Tasks |->
                        IF t \in cohort THEN Requeued(task[t]) ELSE task[t]]
  <2>1. \A t \in Tasks : Kept(task[t], rows[t])
    BY <1>7, HelpersKeep DEF Kept
  <2>2. \E b : CommitFrom("requeue", task, b, rows)
    BY <1>7 DEF RequeueTasks, Commit
  <2> HIDE DEF rows
  <2> QED
    BY <2>1, <2>2, CommitKeeps
<1>8. CASE RequeueTransportFailures
  BY <1>7, <1>8 DEF RequeueTransportFailures, SafeTransportRecoveryCandidate,
                    UntouchedFailure
<1>9. CASE RequeueProfileBusyTasks
  BY <1>7, <1>9 DEF RequeueProfileBusyTasks, DedicatedProfileBusyCandidate,
                    UntouchedFailure
<1>10. CASE ListExpired
  BY <1>10, UnchangedKeeps DEF ListExpired
<1>11. CASE ReconcileExpired
  <2>1. PICK b, rows : /\ CommitFrom("reconcile_expired", task, b, rows)
                       /\ \A t \in Tasks :
                            \/ rows[t] = task[t]
                            \/ \E code : rows[t] = Parked(task[t], code)
    BY <1>11 DEF ReconcileExpired, Commit
  <2>2. \A t \in Tasks : Kept(task[t], rows[t])
    BY <2>1, HelpersKeep
  <2> QED
    BY <2>1, <2>2, CommitKeeps
<1>12. CASE DailySettlement
  <2> DEFINE open == {t \in Tasks : task[t].status \in {"available", "claimed"}}
             rows == [t \in Tasks |->
                        IF t \in open THEN Failed(task[t], SettlementCode(task[t]))
                        ELSE task[t]]
  <2>1. \A t \in Tasks : Kept(task[t], rows[t])
    BY HelpersKeep
  <2>2. \E b : CommitFrom("daily_settlement", task, b, rows)
    BY <1>12 DEF DailySettlement, Commit
  <2> HIDE DEF rows
  <2> QED
    BY <2>1, <2>2, CommitKeeps
<1> QED
  BY <1>2, <1>3, <1>4, <1>5, <1>6, <1>8, <1>9, <1>10, <1>11, <1>12 DEF BatchStep

LEMMA NextKeeps ==
  ASSUME CustodyInv, [Next]_vars
  PROVE  CustodyStep
<1>1. ASSUME NEW r \in Runners, ClaimTask(r) PROVE CustodyStep
  BY <1>1, ClaimTaskKeeps
<1>2. ASSUME NEW r \in Runners, NEW t \in Tasks, RunnerStep(r, t) PROVE CustodyStep
  BY <1>2, RunnerStepKeeps
<1>3. ASSUME NEW u \in Users, NEW t \in Tasks, PortalStep(u, t) PROVE CustodyStep
  BY <1>3, PortalStepKeeps
<1>4. ASSUME NEW u \in Users, ReadHumanQueue(u) \/ FindNothing(u) PROVE CustodyStep
  BY <1>4, UnchangedKeeps DEF ReadHumanQueue, FindNothing
<1>5. CASE BatchStep
  BY <1>5, BatchStepKeeps
<1>6. CASE Tick \/ UNCHANGED vars
  BY <1>6, UnchangedKeeps DEF Tick, vars
<1> QED
  BY <1>1, <1>2, <1>3, <1>4, <1>5, <1>6 DEF Next

\* A task whose prompt may have been sent never leaves its device and session
\* and never returns to the queue, whatever devices, portal users, operators
\* and the maintenance job do: only the queue and the human queue hand tasks
\* on, and neither ever holds a submitted one.
THEOREM SubmittedTasksStay == Spec => PostSubmitStaysWithDevice
<1>1. Init => CustodyInv
  <2> SUFFICES ASSUME Init
               PROVE  AutomationConsistent
    BY InitTyped DEF CustodyInv
  <2> QED
    BY DEF Init, AutomationConsistent, AutomationStateConsistent
<1>2. CustodyInv /\ [Next]_vars => CustodyInv'
  BY TypeOKInductive, NextKeeps DEF CustodyInv, CustodyStep
<1>3. CustodyInv /\ [Next]_vars =>
        [\A t \in Tasks : task[t].intent =>
           /\ task'[t].intent
           /\ task'[t].session = task[t].session
           /\ task'[t].claimedBy = task[t].claimedBy
           /\ task'[t].auto # "queued"]_vars
  BY NextKeeps DEF CustodyStep, Kept
<1> QED
  BY <1>1, <1>2, <1>3, PTL DEF Spec, PostSubmitStaysWithDevice
=============================================================================
