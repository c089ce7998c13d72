---------------------------- MODULE RunnerPolicy ----------------------------
(***************************************************************************)
(* The pure decisions of packages/lib/src/browser-runner-policy.ts: what   *)
(* the Browser Runner may do with a delivery task, given the task's row.   *)
(*                                                                         *)
(* A task row is a record with the columns of delivery_tasks the decisions *)
(* read.  A nullable timestamp that is only ever compared with null is a   *)
(* BOOLEAN (intent, confirmed, observed); the lease expiry is a time, or   *)
(* NoTime for null; a nullable code is a string, or NoCode for null.  A    *)
(* code always has a reason next to it and only the code is kept.          *)
(***************************************************************************)
EXTENDS Integers

NoTime == -1
NoCode == "null"

MaxPreSubmitAttempts == 2
SafeTransportRecoveryCode == "broker_create_transport_failure"
DedicatedProfileBusyCode == "dedicated_profile_busy"
RetryablePreSubmitCodes ==
  {"navigation_timeout", "page_load_timeout", "network_transient",
   "browser_crash_before_submit"}

TerminalStatuses == {"succeeded", "failed", "cancelled"}
UnresolvedStatuses == {"planned", "available", "claimed"}

-----------------------------------------------------------------------------
(* Leases *)

LiveLease(row, now) == row.lease # NoTime /\ row.lease > now

ExpiredLease(row, now) == row.lease # NoTime /\ row.lease < now

-----------------------------------------------------------------------------
(* Decisions on one task *)

\* The two operator recoveries accept only a task that was claimed exactly
\* once and failed before anything was sent, with the code they repair.
UntouchedFailure(row, code) ==
  /\ row.status = "available"
  /\ row.auto = "needs_human"
  /\ row.attempts = 1
  /\ row.claims = 1
  /\ ~row.intent
  /\ ~row.confirmed
  /\ ~row.observed
  /\ row.needsHuman = code
  /\ row.lastError = code

SafeTransportRecoveryCandidate(row) ==
  UntouchedFailure(row, SafeTransportRecoveryCode)

DedicatedProfileBusyCandidate(row) ==
  UntouchedFailure(row, DedicatedProfileBusyCode)

\* May the portal submit or release the task it holds?
PortalMutationAllowed(row) == ~row.intent

\* Mutant: one attempt too many.
RetriesPastBudget(row, stage, code) ==
  /\ stage = "pre_submit"
  /\ code \in RetryablePreSubmitCodes
  /\ ~row.intent
  /\ ~row.confirmed
  /\ row.attempts <= MaxPreSubmitAttempts

\* Does a reported failure go back to the queue, or to a human?
RetriesFailure(row, stage, code) ==
  /\ stage = "pre_submit"
  /\ code \in RetryablePreSubmitCodes
  /\ ~row.intent
  /\ ~row.confirmed
  /\ row.attempts < MaxPreSubmitAttempts

ResumableBy(row, claimant) ==
  /\ row.status = "available"
  /\ row.auto = "needs_human"
  /\ row.claimedBy = claimant

\* What a device that still has a journal entry for the task is told.
ReconcileExactTask(row, claimant, now) ==
  LET resumable == IF row.intent THEN "resumable_post" ELSE "resumable_pre"
  IN  IF /\ row.status \in TerminalStatuses
         /\ row.auto = "completed"
         /\ row.lease = NoTime
      THEN "terminal"
      ELSE IF /\ row.status = "available"
              /\ row.auto = "queued"
              /\ ~row.intent
              /\ row.lease = NoTime
      THEN "released"
      ELSE IF /\ row.status = "available"
              /\ row.auto = "needs_human"
              /\ row.lease = NoTime
              /\ row.claimedBy = claimant
      THEN resumable
      ELSE IF /\ row.status = "claimed"
              /\ row.auto = "running"
              /\ row.lease # NoTime
              /\ row.claimedBy = claimant
      THEN IF row.lease > now THEN "active" ELSE resumable
      ELSE "blocked"

\* Mutant: the submit intent is forgotten.
ParkAsUnsent(row, unsentCode) == unsentCode

\* The code an expired claim, or an unresolved task at the end of the window,
\* is parked under: a task whose submit intent is durable may have been sent.
ParkCode(row, unsentCode) ==
  IF row.intent THEN "submit_outcome_unknown" ELSE unsentCode

\* The terminal code the daily settlement gives an unresolved task.
SettlementCode(row) ==
  IF row.needsHuman # NoCode THEN row.needsHuman
  ELSE ParkCode(row, IF row.status = "claimed" THEN "runner_lease_expired"
                     ELSE "daily_cutoff_unresolved")

Untouched(row) ==
  /\ row.status = "available"
  /\ row.auto = "queued"
  /\ row.attempts = 0
  /\ row.claims = 0
  /\ ~row.intent
  /\ ~row.observed

\* May a human declare the unresolved task a terminal failure now?
FinalizableByHuman(row, now) ==
  /\ row.needsHuman # NoCode
  /\ row.auto \in {"needs_human", "running"}
  /\ ~(row.status = "claimed" /\ LiveLease(row, now))

-----------------------------------------------------------------------------
(* Decisions on a batch *)

\* Mutant: a status of tasks given to the batch.
DeriveTaskStatus(autos) ==
  IF "queued" \in autos THEN "queued"
  ELSE IF "running" \in autos THEN "running"
  ELSE IF "needs_human" \in autos THEN "needs_human"
  ELSE "settled"

\* The batch status that a set of task automation statuses stands for.
DeriveBatchStatus(autos) ==
  IF autos \cap {"queued", "running"} # {} THEN "running"
  ELSE IF "needs_human" \in autos THEN "needs_human"
  ELSE "settled"

\* Noon of the next calendar day, or the end of the window if that is earlier.
\* Time is counted in units of the model; a day has dayLength of them.
SettlementCutoff(startedAt, windowEnd, dayLength, noon) ==
  LET nextNoon == ((startedAt \div dayLength) + 1) * dayLength + noon
  IN  IF nextNoon < windowEnd THEN nextNoon ELSE windowEnd
=============================================================================
