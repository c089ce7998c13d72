------------------------ MODULE DeliveryRows_proofs ------------------------
(***************************************************************************)
(* What the transactions of DeliveryRunner keep true of a batch and its    *)
(* rows, and that the database accepts what the protocol writes.  For any  *)
(* tasks, devices, users, codes, window and lease duration.                *)
(***************************************************************************)
EXTENDS DeliveryRunner_proofs

-----------------------------------------------------------------------------
(* The invariant *)

Unstarted == {"draft", "frozen"}
Closed == {"completed", "cancelled"}

UnsentCodes ==
  {"runner_lease_expired", "window_expired_unexecuted",
   "pre_submit_attempts_exhausted", "daily_cutoff_unresolved"}

\* What a failure code says of the submission is true.
Honest(intent, code) ==
  /\ intent => code \notin UnsentCodes
  /\ code = "submit_outcome_unknown" => intent

\* RowConsistent for a batch of the given mode.
Consistent(row, mode) ==
  /\ AutomationStateConsistent(row)
  /\ RunnerSessionConsistent(row)
  /\ LeaseStateConsistent(row)
  /\ TerminalStateConsistent(row)
  /\ row.auto = "null" <=> mode = "manual"

\* The constraints, that a batch nobody started is untouched, that a lease lies
\* in the window, who works on a parked task, and that codes are honest.
RowSound(row, b, time) ==
  /\ Consistent(row, b.mode)
  /\ row.observed => row.status \in {"succeeded", "failed"}
  /\ row.status = "planned" <=> b.status = "draft"
  /\ b.status \in Unstarted =>
       row.status \in {"planned", "available"} /\ row.auto \in {"null", "queued"}
  /\ row.status = "claimed" => WindowStart <= time /\ row.lease <= WindowEnd
  /\ row.auto = "queued" => row.attempts < MaxPreSubmitAttempts
  /\ row.auto = "running" =>
       /\ row.claimedBy \in Runners /\ ~row.intent => row.needsHuman = NoCode
       /\ row.claimedBy \in Users => row.needsHuman # NoCode
  /\ Honest(row.intent, row.needsHuman)
  /\ row.status = "failed" => Honest(row.intent, row.lastError)

\* The batch's automation covers a queued task, and the batch is closed when
\* its tasks are.
BatchSound(b, rows) ==
  /\ b.automation = "null" <=> b.mode = "manual"
  /\ b.mode = "manual" => b.startedAt = NoTime /\ b.settledAt = NoTime
  /\ b.status \in Unstarted =>
       b.startedAt = NoTime /\ b.automation \in {"null", "not_started"}
  /\ b.mode = "browser_runner" /\ b.status = "in_progress" => b.startedAt # NoTime
  /\ b.status = "in_progress" =>
       \A t \in Tasks : rows[t].auto = "queued" => b.automation = "running"
  /\ b.status \in Closed <=> \A t \in Tasks : rows[t].status \in TerminalStatuses

ProtocolInv ==
  /\ TypeOK
  /\ \A t \in Tasks : RowSound(task[t], batch, now)
  /\ BatchSound(batch, task)
  /\ listed => batch.status \notin Unstarted
  /\ reading # {} => InWindow
  /\ ProtocolNeverRefused

\* What a step makes of a row: a terminal row is final, a confirmation stays, a
\* submitted task is not cancelled, and work is recorded inside the window.
Evolves(old, new) ==
  /\ old.status \in TerminalStatuses => new = old
  /\ old.confirmed => new.confirmed
  /\ new.status = "cancelled" => new = old \/ ~old.intent
  /\ \/ ~old.intent /\ new.intent
     \/ ~old.confirmed /\ new.confirmed
     \/ ~old.observed /\ new.observed
     => InWindow /\ batch.status = "in_progress"

\* Why a batch-level transaction may be rolled back.
Explained(op) ==
  \/ /\ op \in {"daily_settlement", "confirm_terminal_failure"}
     /\ \E t \in Tasks : task[t].status = "available"
  \/ /\ op = "finalize"
     /\ \E t \in Tasks : task[t].status = "available" /\ task[t].claimedBy = Nobody
  \/ op = "reconcile_expired" /\ batch.status \in Closed

SoundStep ==
  /\ ProtocolInv'
  /\ \A t \in Tasks : Evolves(task[t], task'[t])
  /\ refused' = "none" \/ Explained(refused')

-----------------------------------------------------------------------------
(* Rows and the database's decision *)

\* The part of RowAccepted that compares the old row with the new one.
Follows(old, new) ==
  /\ old.status \in TerminalStatuses => new = old
  /\ new.status \in NextStatuses(old.status)
  /\ old.status # "claimed" /\ new.status = "claimed"
       => new.generation > old.generation
  /\ new.observed => new.status \in {"succeeded", "failed"}

\* A step of the batch's status that the trigger allows.
StatusFollows(old, new) ==
  \/ old = new
  \/ old = "draft" /\ new \in {"frozen", "cancelled"}
  \/ old = "frozen" /\ new \in {"in_progress", "cancelled"}
  \/ old = "in_progress" /\ new \in Closed

LEMMA SoundTask ==
  ASSUME ProtocolInv, NEW t \in Tasks
  PROVE  /\ task[t] \in TaskRow
         /\ RowSound(task[t], batch, now)
         /\ Follows(task[t], task[t])
         /\ Evolves(task[t], task[t])
<1>1. task[t] \in TaskRow /\ RowSound(task[t], batch, now)
  BY DEF ProtocolInv, TypeOK
<1>2. task[t].status \in NextStatuses(task[t].status)
  BY <1>1 DEF NextStatuses, TaskRow, UnresolvedStatuses, TerminalStatuses
<1> QED
  BY <1>1, <1>2 DEF RowSound, Follows, Evolves

\* A row that is sound and follows the old one is accepted.
LEMMA SoundAccepted ==
  ASSUME NEW b, b.mode = batch.mode, NEW old, NEW new,
         RowSound(new, b, now), Follows(old, new)
  PROVE  RowAccepted(old, new)
BY DEF RowSound, Consistent, Follows, RowAccepted, RowConsistent,
       ExecutionModeConsistent

\* A sound row stays sound when the batch starts or ends, or time passes.
LEMMA StaysSound ==
  ASSUME NEW row \in TaskRow, NEW b, NEW time \in Nat, RowSound(row, b, time),
         NEW c, c.mode = b.mode, c.status = "draft" <=> b.status = "draft",
         c.status \in Unstarted => b.status \in Unstarted,
         NEW later \in Nat, later >= time
  PROVE  RowSound(row, c, later)
<1>1. row.status = "claimed" => WindowStart <= later /\ row.lease <= WindowEnd
  BY TimeAssumption DEF RowSound
<1> QED
  BY <1>1 DEF RowSound, Unstarted

\* A transaction that writes sound rows is accepted, unless a row does not
\* follow the old one; then it changes nothing.
LEMMA CommitSound ==
  ASSUME ProtocolInv, TypeOK', NEW op, NEW from, NEW b, NEW rows,
         CommitFrom(op, from, b, rows), now' = now, listed' => listed,
         reading' \subseteq reading, batch.status \notin Closed,
         b.mode = batch.mode, StatusFollows(batch.status, b.status),
         BatchSound(b, rows),
         \A t \in Tasks : RowSound(rows[t], b, now) /\ Evolves(task[t], rows[t]),
         (\A t \in Tasks : Follows(from[t], rows[t])) \/ Explained(op)
  PROVE  SoundStep
<1>1. BatchAccepted(batch, b, rows)
  <2>1. b.status \in CASE batch.status = "draft" -> {"draft", "frozen", "cancelled"}
                       [] batch.status = "frozen" ->
                            {"frozen", "in_progress", "cancelled"}
                       [] batch.status = "in_progress" ->
                            {"in_progress", "completed", "cancelled"}
                       [] OTHER -> {batch.status}
    BY DEF StatusFollows, Closed
  <2> QED
    BY <2>1 DEF BatchAccepted, BatchSound, Closed
<1>2. reading' # {} => InWindow'
  BY DEF ProtocolInv, InWindow
<1>3. CASE /\ batch' = b /\ task' = rows /\ refused' = "none"
  <2>1. \A t \in Tasks : RowSound(task'[t], batch', now') /\ Evolves(task[t], task'[t])
    BY <1>3
  <2>2. BatchSound(batch', task')
    BY <1>3
  <2>3. listed' => batch'.status \notin Unstarted
    BY <1>3 DEF ProtocolInv, StatusFollows, Unstarted, Closed
  <2> QED
    BY <1>3, <1>2, <2>1, <2>2, <2>3 DEF SoundStep, ProtocolInv, ProtocolNeverRefused
<1>4. CASE UNCHANGED <<batch, task>> /\ refused' = op /\ Explained(op)
  <2>1. \A t \in Tasks :
          RowSound(task'[t], batch', now') /\ Evolves(task[t], task'[t])
    BY <1>4, SoundTask
  <2>2. BatchSound(batch', task')
    BY <1>4 DEF ProtocolInv
  <2>3. ProtocolNeverRefused'
    BY <1>4 DEF ProtocolNeverRefused, Explained
  <2> QED
    BY <1>4, <1>2, <2>1, <2>2, <2>3 DEF SoundStep, ProtocolInv
<1>5. (\A t \in Tasks : Follows(from[t], rows[t])) =>
        \A t \in Tasks : RowAccepted(from[t], rows[t])
  BY SoundAccepted
<1> QED
  BY <1>1, <1>3, <1>4, <1>5 DEF CommitFrom

\* A step that writes nothing.
LEMMA NothingCommitted ==
  ASSUME ProtocolInv, TypeOK', UNCHANGED <<batch, task>>, now' >= now,
         listed' => batch.status \notin Unstarted, reading' # {} => InWindow',
         refused' = "none" \/ Explained(refused')
  PROVE  SoundStep
<1>1. ASSUME NEW t \in Tasks
      PROVE  RowSound(task'[t], batch', now') /\ Evolves(task[t], task'[t])
  <2>1. RowSound(task[t], batch, now')
    BY SoundTask, StaysSound DEF ProtocolInv, TypeOK
  <2> QED
    BY <2>1, SoundTask
<1>2. BatchSound(batch', task')
  BY DEF ProtocolInv
<1>3. ProtocolNeverRefused'
  BY DEF ProtocolNeverRefused, Explained
<1> QED
  BY <1>1, <1>2, <1>3 DEF SoundStep, ProtocolInv

-----------------------------------------------------------------------------
(* What the helpers write *)

\* A task of an open batch that is parked with an honest code.
LEMMA ParkedSound ==
  ASSUME ProtocolInv, NEW t \in Tasks, batch.status \notin Unstarted,
         task[t].status \in {"available", "claimed"}, task[t].auto # "null",
         NEW code \in Codes, code # NoCode, Honest(task[t].intent, code)
  PROVE  /\ RowSound(Parked(task[t], code), batch, now)
         /\ Follows(task[t], Parked(task[t], code))
         /\ Evolves(task[t], Parked(task[t], code))
<1> DEFINE old == task[t]
           new == Parked(old, code)
<1>1. old \in TaskRow /\ RowSound(old, batch, now) /\ ~old.observed
  BY SoundTask DEF RowSound
<1>2. /\ new.status = "available" /\ new.auto = "needs_human"
      /\ new.lease = NoTime /\ new.needsHuman = code
      /\ new.session = old.session /\ new.intent = old.intent
      /\ new.confirmed = old.confirmed /\ new.observed = old.observed
  BY <1>1 DEF Parked, TaskRow
<1>3. RowSound(new, batch, now)
  BY <1>1, <1>2 DEF RowSound, Consistent, AutomationStateConsistent,
     RunnerSessionConsistent, LeaseStateConsistent, TerminalStateConsistent, Unstarted
<1>4. "available" \in NextStatuses(old.status)
  BY DEF NextStatuses
<1>5. Follows(old, new) /\ Evolves(old, new)
  BY <1>1, <1>2, <1>4 DEF Follows, Evolves, TerminalStatuses
<1> QED
  BY <1>3, <1>5

\* A task of an open batch that fails with an honest code.  An available one
\* does not follow: the database wants a claim first.
LEMMA FailedRowSound ==
  ASSUME ProtocolInv, NEW t \in Tasks, batch.status \notin Unstarted,
         task[t].status \in {"available", "claimed"},
         NEW new, new.status = "failed", new.auto = AutoTo(task[t], "completed"),
         new.lease = NoTime, new.needsHuman = NoCode,
         Honest(task[t].intent, new.lastError),
         new.session = task[t].session, new.intent = task[t].intent,
         new.confirmed = task[t].confirmed, new.observed = task[t].observed,
         new.attempts = task[t].attempts
  PROVE  /\ RowSound(new, batch, now)
         /\ task[t].status = "claimed" => Follows(task[t], new)
         /\ Evolves(task[t], new)
<1> DEFINE old == task[t]
<1>1. old \in TaskRow /\ RowSound(old, batch, now) /\ ~old.observed
  BY SoundTask DEF RowSound
<1>2. new.auto = IF old.auto = "null" THEN "null" ELSE "completed"
  BY DEF AutoTo
<1>3. Consistent(new, batch.mode)
  BY <1>1, <1>2 DEF RowSound, Consistent, AutomationStateConsistent,
     RunnerSessionConsistent, LeaseStateConsistent, TerminalStateConsistent,
     TerminalStatuses
<1>4. Honest(new.intent, new.needsHuman)
  BY DEF Honest, NoCode, UnsentCodes
<1>5. RowSound(new, batch, now)
  BY <1>1, <1>2, <1>3, <1>4 DEF RowSound, Unstarted
<1>6. old.status = "claimed" => "failed" \in NextStatuses(old.status)
  BY DEF NextStatuses, TerminalStatuses
<1>7. old.status = "claimed" => Follows(old, new)
  BY <1>1, <1>6 DEF Follows, TerminalStatuses
<1>8. Evolves(old, new)
  BY <1>1 DEF Evolves, TerminalStatuses
<1> QED
  BY <1>5, <1>7, <1>8

LEMMA FailedSound ==
  ASSUME ProtocolInv, NEW t \in Tasks, batch.status \notin Unstarted,
         task[t].status \in {"available", "claimed"},
         NEW code \in Codes, Honest(task[t].intent, code)
  PROVE  /\ RowSound(Failed(task[t], code), batch, now)
         /\ task[t].status = "claimed" => Follows(task[t], Failed(task[t], code))
         /\ Evolves(task[t], Failed(task[t], code))
<1> DEFINE new == Failed(task[t], code)
<1>1. task[t] \in TaskRow
  BY SoundTask
<1>2. /\ new.status = "failed" /\ new.auto = AutoTo(task[t], "completed")
      /\ new.lease = NoTime /\ new.needsHuman = NoCode /\ new.lastError = code
      /\ new.session = task[t].session /\ new.intent = task[t].intent
      /\ new.confirmed = task[t].confirmed /\ new.observed = task[t].observed
      /\ new.attempts = task[t].attempts
  BY <1>1 DEF Failed, TaskRow
<1> HIDE DEF new
<1>3. /\ RowSound(new, batch, now)
      /\ task[t].status = "claimed" => Follows(task[t], new)
      /\ Evolves(task[t], new)
  BY <1>2, FailedRowSound
<1> QED
  BY <1>3 DEF new

\* A task leased to c in the window: what a claim and a resume write.
LEMMA LeaseSound ==
  ASSUME ProtocolInv, NEW t \in Tasks, InWindow,
         NEW b, b.mode = batch.mode, b.status \notin Unstarted,
         task[t].status \in {"available", "claimed"},
         NEW new \in TaskRow, NEW c \in Clients,
         new.status = "claimed", new.auto = AutoTo(task[t], "running"),
         new.claimedBy = c, new.lease = LeaseUntil,
         new.generation = task[t].generation + 1,
         new.session = task[t].session, new.intent = task[t].intent,
         new.confirmed = task[t].confirmed, new.observed = task[t].observed,
         task[t].auto = "null" =>
           new.attempts = task[t].attempts /\ new.needsHuman = task[t].needsHuman,
         task[t].auto # "null" =>
           /\ c \in Runners /\ ~new.intent => new.needsHuman = NoCode
           /\ c \in Users => new.needsHuman # NoCode,
         new.needsHuman \in {task[t].needsHuman, NoCode}
  PROVE  /\ RowSound(new, b, now)
         /\ Follows(task[t], new)
         /\ Evolves(task[t], new)
<1> DEFINE old == task[t]
<1>1. old \in TaskRow /\ RowSound(old, batch, now) /\ ~old.observed
  BY SoundTask DEF RowSound
<1>2. new.auto = IF old.auto = "null" THEN "null" ELSE "running"
  BY DEF AutoTo
<1>3. /\ new.lease \in Nat /\ new.lease <= WindowEnd /\ new.lease # NoTime
      /\ WindowStart <= now
  BY LeaseUntilBound DEF ProtocolInv, TypeOK, InWindow, NoTime
<1>4. c # Nobody
  BY ClientsAssumption
<1>5. Consistent(new, b.mode)
  BY <1>1, <1>2, <1>3, <1>4 DEF RowSound, Consistent, AutomationStateConsistent,
     RunnerSessionConsistent, LeaseStateConsistent, TerminalStateConsistent
<1>6. Honest(new.intent, new.needsHuman)
  BY <1>1 DEF RowSound, Honest, NoCode, UnsentCodes
<1>7. RowSound(new, b, now)
  BY <1>1, <1>2, <1>3, <1>5, <1>6 DEF RowSound, Unstarted
<1>8. "claimed" \in NextStatuses(old.status)
  BY DEF NextStatuses
<1>9. new.generation > old.generation
  BY <1>1 DEF TaskRow
<1>10. Follows(old, new) /\ Evolves(old, new)
  BY <1>1, <1>8, <1>9 DEF Follows, Evolves, TerminalStatuses
<1> QED
  BY <1>7, <1>10

\* The codes the server gives are honest about the rows it gives them to.
LEMMA HonestCodes ==
  ASSUME ProtocolInv, NEW t \in Tasks
  PROVE  /\ Honest(task[t].intent, task[t].needsHuman)
         /\ \A code \in FailureCodes \cup {NoCode} : Honest(task[t].intent, code)
         /\ \A code \in {"runner_lease_expired", "window_expired_unexecuted"} :
              /\ ParkCode(task[t], code) \in Codes \ {NoCode}
              /\ Honest(task[t].intent, ParkCode(task[t], code))
         /\ Honest(task[t].intent, SettlementCode(task[t]))
         /\ \A code \in FailureCodes : code # NoCode
<1>1. Honest(task[t].intent, task[t].needsHuman)
  BY SoundTask DEF RowSound
<1>2. \A code \in FailureCodes \cup {NoCode} : Honest(task[t].intent, code)
  BY CodesAssumption DEF Honest, NoCode, UnsentCodes
<1>3. ASSUME NEW code \in {"runner_lease_expired", "window_expired_unexecuted"}
      PROVE  /\ ParkCode(task[t], code) \in Codes \ {NoCode}
             /\ Honest(task[t].intent, ParkCode(task[t], code))
  BY DEF ParkCode, Codes, NoCode, Honest, UnsentCodes
<1>4. Honest(task[t].intent, SettlementCode(task[t]))
  BY <1>1 DEF SettlementCode, ParkCode, Honest, UnsentCodes
<1>5. \A code \in FailureCodes : code # NoCode
  BY CodesAssumption
<1> QED
  BY <1>1, <1>2, <1>3, <1>4, <1>5

-----------------------------------------------------------------------------
(* What the transactions make of the batch *)

\* A batch with an open task is open.
LEMMA OpenBatch ==
  ASSUME ProtocolInv, NEW t \in Tasks, task[t].status \in {"available", "claimed"}
  PROVE  /\ batch.status \in {"frozen", "in_progress"}
         /\ task[t].auto \notin {"null", "queued"} => batch.status = "in_progress"
         /\ task[t].status = "claimed" => batch.status = "in_progress"
<1>1. task[t].status \notin TerminalStatuses
  BY DEF TerminalStatuses
<1>2. batch \in BatchRow /\ batch.status \notin Closed
  BY <1>1 DEF ProtocolInv, BatchSound, TypeOK
<1>3. RowSound(task[t], batch, now)
  BY SoundTask
<1> QED
  BY <1>2, <1>3 DEF RowSound, BatchRow, Closed, Unstarted

\* The refreshed batch covers its queued tasks; it stays open with an open task.
LEMMA RefreshedSound ==
  ASSUME ProtocolInv, batch.status = "in_progress", RunnerBatch,
         NEW rows, \E t \in Tasks : rows[t].status \notin TerminalStatuses
  PROVE  /\ BatchSound(Refreshed(batch, rows), rows)
         /\ Refreshed(batch, rows).mode = batch.mode
         /\ Refreshed(batch, rows).status = "in_progress"
<1> DEFINE b == Refreshed(batch, rows)
<1>1. batch \in BatchRow /\ BatchSound(batch, task)
  BY DEF ProtocolInv, TypeOK
<1>2. /\ b.mode = batch.mode /\ b.status = batch.status
      /\ b.startedAt = batch.startedAt
      /\ b.automation = DeriveBatchStatus(Autos(rows))
  BY <1>1 DEF Refreshed, BatchRow
<1>3. /\ b.automation \in {"running", "needs_human", "settled"}
      /\ \A t \in Tasks : rows[t].auto = "queued" => b.automation = "running"
  BY <1>2 DEF DeriveBatchStatus, Autos
<1> HIDE DEF b
<1>4. BatchSound(b, rows) /\ b.mode = batch.mode /\ b.status = "in_progress"
  BY <1>1, <1>2, <1>3 DEF BatchSound, RunnerBatch, Unstarted, Closed
<1> QED
  BY <1>4 DEF b

\* The settled batch covers its queued tasks, and is completed with the last task.
LEMMA SettledSound ==
  ASSUME ProtocolInv, batch.status = "in_progress",
         NEW rows \in [Tasks -> TaskRow],
         \A t \in Tasks : RowSound(rows[t], batch, now)
  PROVE  /\ BatchSound(SettledBatch(batch, rows), rows)
         /\ SettledBatch(batch, rows).mode = batch.mode
         /\ SettledBatch(batch, rows).status \in {"in_progress", "completed"}
<1> DEFINE b == SettledBatch(batch, rows)
<1>1. batch \in BatchRow /\ BatchSound(batch, task) /\ batch.status \notin Unstarted
  BY DEF ProtocolInv, TypeOK, Unstarted
<1>2. Unresolved(rows) = {} <=> \A t \in Tasks : rows[t].status \in TerminalStatuses
  BY DEF Unresolved, TaskRow, UnresolvedStatuses, TerminalStatuses
<1>3. /\ b.mode = batch.mode /\ b.startedAt = batch.startedAt
      /\ ~RunnerBatch =>
           b.automation = batch.automation /\ b.settledAt = batch.settledAt
      /\ Unresolved(rows) = {} => b.status = "completed"
      /\ Unresolved(rows) # {} => b.status = "in_progress"
      /\ RunnerBatch /\ Unresolved(rows) = {} => b.automation = "settled"
      /\ RunnerBatch /\ Unresolved(rows) # {} =>
           b.automation = DeriveBatchStatus(Autos(rows))
  BY <1>1 DEF SettledBatch, BatchRow
<1>4. /\ DeriveBatchStatus(Autos(rows)) \in {"running", "needs_human", "settled"}
      /\ \A t \in Tasks :
           rows[t].auto = "queued" => DeriveBatchStatus(Autos(rows)) = "running"
  BY DEF DeriveBatchStatus, Autos
<1>5. ~RunnerBatch => \A t \in Tasks : rows[t].auto # "queued"
  BY <1>1 DEF RowSound, Consistent, RunnerBatch, BatchRow
<1> HIDE DEF b
<1>6. BatchSound(b, rows)
  BY <1>1, <1>2, <1>3, <1>4, <1>5 DEF BatchSound, RunnerBatch, Unstarted, Closed
<1> QED
  BY <1>3, <1>6 DEF b

\* A batch in progress whose automation is left alone, or set to running.
Continued(b) ==
  /\ b \in BatchRow
  /\ b.mode = batch.mode
  /\ b.status = "in_progress"
  /\ b.startedAt = batch.startedAt
  /\ b.settledAt = batch.settledAt \/ RunnerBatch
  /\ \/ b.automation = batch.automation
     \/ RunnerBatch /\ b.automation = "running"

\* Rows of which one is open, and none newly queued unless the batch runs.
Covered(b, rows) ==
  /\ \E t \in Tasks : rows[t].status \notin TerminalStatuses
  /\ \/ b.automation = "running"
     \/ \A t \in Tasks : rows[t].auto = "queued" => task[t].auto = "queued"

LEMMA ContinuedSound ==
  ASSUME ProtocolInv, batch.status = "in_progress",
         NEW b, Continued(b), NEW rows, Covered(b, rows)
  PROVE  BatchSound(b, rows)
<1>1. BatchSound(batch, task) /\ batch \in BatchRow
  BY DEF ProtocolInv, TypeOK
<1> QED
  BY <1>1 DEF Continued, Covered, BatchSound, RunnerBatch, Unstarted, Closed

\* Rows that are sound in a batch in progress are sound when it ends.
LEMMA RowsStaySound ==
  ASSUME ProtocolInv, batch.status = "in_progress", NEW b, b.mode = batch.mode,
         b.status \in {"in_progress", "completed"},
         NEW rows \in [Tasks -> TaskRow],
         \A t \in Tasks : RowSound(rows[t], batch, now)
  PROVE  \A t \in Tasks : RowSound(rows[t], b, now)
<1>1. now \in Nat
  BY DEF ProtocolInv, TypeOK
<1>2. (b.status = "draft" <=> batch.status = "draft") /\ b.status \notin Unstarted
  BY DEF Unstarted
<1>3. ASSUME NEW t \in Tasks PROVE RowSound(rows[t], b, now)
  BY <1>1, <1>2, StaysSound
<1> QED
  BY <1>3

\* A transaction on one row of a batch in progress.
LEMMA UpdateSound ==
  ASSUME ProtocolInv, TypeOK', NEW op, NEW t \in Tasks, NEW row \in TaskRow,
         batch.status = "in_progress",
         RowSound(row, batch, now), Evolves(task[t], row),
         Follows(task[t], row) \/ Explained(op),
         \/ /\ UpdateAndRefresh(op, t, row)
            /\ RunnerBatch /\ row.status = "available"
         \/ UpdateAndSettle(op, t, row)
         \/ /\ UpdateOnly(op, t, row)
            /\ row.status \notin TerminalStatuses
            /\ row.auto = "queued" => task[t].auto = "queued"
  PROVE  SoundStep
<1> DEFINE rows == [task EXCEPT ![t] = row]
<1>1. task \in [Tasks -> TaskRow] /\ batch \in BatchRow
  BY DEF ProtocolInv, TypeOK
<1>2. /\ rows \in [Tasks -> TaskRow]
      /\ rows[t] = row /\ \A u \in Tasks \ {t} : rows[u] = task[u]
  BY <1>1
<1>3. \A u \in Tasks : RowSound(rows[u], batch, now) /\ Evolves(task[u], rows[u])
  BY <1>2, SoundTask
<1>4. (\A u \in Tasks : Follows(task[u], rows[u])) \/ Explained(op)
  BY <1>2, SoundTask
<1>5. batch.status \notin Closed
  BY DEF Closed
<1>6. PICK b : /\ CommitFrom(op, task, b, rows) /\ UNCHANGED <<now, listed, reading>>
               /\ b.mode = batch.mode /\ b.status \in {"in_progress", "completed"}
               /\ BatchSound(b, rows)
  <2> HIDE DEF rows
  <2>1. CASE /\ UpdateAndRefresh(op, t, row)
             /\ RunnerBatch /\ row.status = "available"
    <3>1. CommitFrom(op, task, Refreshed(batch, rows), rows)
            /\ UNCHANGED <<now, listed, reading>>
      BY <2>1 DEF UpdateAndRefresh, Commit, rows
    <3>2. \E u \in Tasks : rows[u].status \notin TerminalStatuses
      BY <1>2, <2>1 DEF TerminalStatuses
    <3> QED
      BY <2>1, <3>1, <3>2, RefreshedSound
  <2>2. CASE UpdateAndSettle(op, t, row)
    <3>1. CommitFrom(op, task, SettledBatch(batch, rows), rows)
            /\ UNCHANGED <<now, listed, reading>>
      BY <2>2 DEF UpdateAndSettle, Commit, rows
    <3> QED
      BY <1>2, <1>3, <3>1, SettledSound
  <2>3. CASE /\ UpdateOnly(op, t, row)
             /\ row.status \notin TerminalStatuses
             /\ row.auto = "queued" => task[t].auto = "queued"
    <3>1. CommitFrom(op, task, batch, rows) /\ UNCHANGED <<now, listed, reading>>
      BY <2>3 DEF UpdateOnly, Commit, rows
    <3>2. Continued(batch)
      BY <1>1 DEF Continued
    <3>3. \A u \in Tasks : rows[u].auto = "queued" => task[u].auto = "queued"
      <4>1. row.auto = "queued" => task[t].auto = "queued"
        BY <2>3
      <4> QED
        BY <1>2, <4>1
    <3>4. rows[t].status \notin TerminalStatuses
      BY <1>2, <2>3
    <3>5. BatchSound(batch, rows)
      BY <3>2, <3>3, <3>4, ContinuedSound DEF Covered
    <3> QED
      BY <3>1, <3>5
  <2> QED
    BY <2>1, <2>2, <2>3
<1>7. StatusFollows(batch.status, b.status)
  BY <1>6 DEF StatusFollows, Closed
<1> HIDE DEF rows
<1>8. \A u \in Tasks : RowSound(rows[u], b, now)
  BY <1>2, <1>3, <1>6, RowsStaySound
<1> QED
  BY <1>3, <1>4, <1>5, <1>6, <1>7, <1>8, CommitSound

-----------------------------------------------------------------------------
(* The holder of a lease *)

\* A live lease is one of a batch in progress, inside the window.
LEMMA LiveInsideWindow ==
  ASSUME ProtocolInv, NEW t \in Tasks, NEW c, NEW g, ActiveLease(t, c, g)
  PROVE  /\ task[t].status = "claimed" /\ task[t].claimedBy = c
         /\ InWindow /\ batch.status = "in_progress"
         /\ task[t].lease \in Nat /\ ~task[t].observed
<1>1. task[t] \in TaskRow /\ RowSound(task[t], batch, now) /\ now \in Nat
  BY SoundTask DEF ProtocolInv, TypeOK
<1>2. /\ task[t].status = "claimed" /\ task[t].claimedBy = c
      /\ task[t].lease # NoTime /\ task[t].lease > now
  BY DEF ActiveLease, LiveLease
<1>3. task[t].lease \in Nat
  BY <1>1, <1>2 DEF TaskRow, Times
<1>4. InWindow
  BY <1>1, <1>2, <1>3, TimeAssumption DEF RowSound, InWindow
<1>5. ~task[t].observed
  BY <1>1, <1>2 DEF RowSound
<1> QED
  BY <1>2, <1>3, <1>4, <1>5, OpenBatch

LEMMA HeartbeatSound ==
  ASSUME ProtocolInv, TypeOK', NEW t \in Tasks, NEW c, NEW g, Heartbeat(t, c, g)
  PROVE  SoundStep
<1> DEFINE old == task[t]
           new == [task[t] EXCEPT !.lease = LeaseUntil]
<1>1. old \in TaskRow /\ RowSound(old, batch, now)
  BY SoundTask
<1>2. old.status = "claimed" /\ batch.status = "in_progress"
  BY LiveInsideWindow DEF Heartbeat
<1>3. LeaseUntil \in Nat /\ LeaseUntil <= WindowEnd /\ LeaseUntil # NoTime
  BY LeaseUntilBound DEF ProtocolInv, TypeOK, NoTime
<1>4. new \in TaskRow
  BY <1>1, <1>3 DEF TaskRow, Times
<1>5. RowSound(new, batch, now)
  BY <1>1, <1>2, <1>3 DEF RowSound, Consistent, AutomationStateConsistent,
     RunnerSessionConsistent, LeaseStateConsistent, TerminalStateConsistent, TaskRow
<1>6. Follows(old, new) /\ Evolves(old, new)
  BY <1>1, <1>2 DEF RowSound, Follows, Evolves, TaskRow, TerminalStatuses, NextStatuses
<1>7. UpdateOnly("heartbeat", t, new)
  BY DEF Heartbeat
<1>8. new.status = old.status /\ new.auto = old.auto
  BY <1>1 DEF TaskRow
<1> HIDE DEF new
<1> QED
  BY <1>2, <1>4, <1>5, <1>6, <1>7, <1>8, UpdateSound DEF TerminalStatuses

LEMMA CompleteSound ==
  ASSUME ProtocolInv, TypeOK', NEW t \in Tasks, NEW c, NEW g, Complete(t, c, g)
  PROVE  SoundStep
<1> DEFINE old == task[t]
           new == Succeeded(task[t])
<1>1. old \in TaskRow /\ RowSound(old, batch, now)
  BY SoundTask
<1>2. /\ old.status = "claimed" /\ batch.status = "in_progress"
      /\ InWindow /\ ~old.observed
  BY LiveInsideWindow DEF Complete
<1>3. /\ new.status = "succeeded" /\ new.lease = NoTime /\ new.observed
      /\ new.auto = IF old.auto = "null" THEN "null" ELSE "completed"
      /\ new.needsHuman = NoCode
      /\ new.session = old.session /\ new.intent = old.intent
      /\ new.confirmed = old.confirmed /\ new.attempts = old.attempts
  BY <1>1 DEF Succeeded, AutoTo, TaskRow
<1>4. new \in TaskRow
  <2>1. /\ NoTime \in Times /\ NoCode \in Codes
        /\ "succeeded" \in UnresolvedStatuses \cup TerminalStatuses
        /\ AutoTo(old, "completed") \in {"null", "completed"}
    BY DEF Times, Codes, TerminalStatuses, AutoTo
  <2> QED
    BY <1>1, <2>1 DEF Succeeded, TaskRow
<1>5. Consistent(new, batch.mode)
  BY <1>1, <1>2, <1>3 DEF RowSound, Consistent, AutomationStateConsistent,
     RunnerSessionConsistent, LeaseStateConsistent, TerminalStateConsistent,
     TerminalStatuses
<1>6. Honest(new.intent, new.needsHuman)
  BY <1>3 DEF Honest, NoCode, UnsentCodes
<1>7. RowSound(new, batch, now)
  BY <1>1, <1>2, <1>3, <1>5, <1>6 DEF RowSound, Unstarted
<1>8. "succeeded" \in NextStatuses(old.status)
  BY <1>2 DEF NextStatuses, TerminalStatuses
<1>9. Follows(old, new) /\ Evolves(old, new)
  BY <1>1, <1>2, <1>3, <1>8 DEF Follows, Evolves, TerminalStatuses
<1>10. UpdateAndSettle("complete", t, new)
  BY DEF Complete
<1> HIDE DEF new
<1> QED
  BY <1>2, <1>4, <1>7, <1>9, <1>10, UpdateSound

-----------------------------------------------------------------------------
(* What a device does *)

LEMMA SubmitSound ==
  ASSUME ProtocolInv, TypeOK', NEW r \in Runners, NEW t \in Tasks, NEW g,
         NEW s \in Sessions,
         RecordSubmitIntent(t, r, g, s) \/ ConfirmSubmitted(t, r, g, s)
  PROVE  SoundStep
<1> DEFINE old == task[t]
<1>1. old \in TaskRow /\ RowSound(old, batch, now)
  BY SoundTask
<1>2. ActiveRunnerLease(t, r, g)
  BY DEF RecordSubmitIntent, ConfirmSubmitted
<1>3. /\ old.status = "claimed" /\ old.auto = "running"
      /\ batch.status = "in_progress" /\ InWindow
  BY <1>2, LiveInsideWindow DEF ActiveRunnerLease
<1>4. old.status \notin TerminalStatuses /\ "claimed" \in NextStatuses("claimed")
  BY <1>3 DEF TerminalStatuses, NextStatuses
<1>5. CASE RecordSubmitIntent(t, r, g, s)
  <2> DEFINE new == [task[t] EXCEPT !.session = s, !.intent = TRUE]
  <2>1. s # NoSession /\ old.needsHuman = NoCode /\ ~old.intent
    BY <1>5, SessionsAssumption DEF RecordSubmitIntent
  <2>2. /\ new \in TaskRow
        /\ new.status = old.status /\ new.auto = old.auto /\ new.lease = old.lease
        /\ new.observed = old.observed /\ new.claimedBy = old.claimedBy
        /\ new.needsHuman = old.needsHuman /\ new.confirmed = old.confirmed
        /\ new.session = s /\ new.intent
    BY <1>1 DEF TaskRow
  <2>3. UpdateOnly("submit_intent", t, new)
    BY <1>5 DEF RecordSubmitIntent
  <2> HIDE DEF new
  <2>4. Consistent(new, batch.mode)
    BY <1>1, <1>3, <2>1, <2>2 DEF RowSound, Consistent, AutomationStateConsistent,
       RunnerSessionConsistent, LeaseStateConsistent, TerminalStateConsistent
  <2>5. Honest(new.intent, new.needsHuman)
    BY <2>1, <2>2 DEF Honest, NoCode, UnsentCodes
  <2>6. RowSound(new, batch, now)
    BY <1>1, <1>3, <2>1, <2>2, <2>4, <2>5, ClientsAssumption
       DEF RowSound, Unstarted, Clients
  <2>7. Follows(old, new) /\ Evolves(old, new)
    BY <1>1, <1>3, <1>4, <2>2 DEF RowSound, Follows, Evolves
  <2> QED
    BY <1>3, <1>4, <2>2, <2>3, <2>6, <2>7, UpdateSound
<1>6. CASE ConfirmSubmitted(t, r, g, s)
  <2> DEFINE new == [task[t] EXCEPT !.confirmed = TRUE]
  <2>1. old.intent
    BY <1>6 DEF ConfirmSubmitted
  <2>2. /\ new \in TaskRow
        /\ new.status = old.status /\ new.auto = old.auto /\ new.lease = old.lease
        /\ new.observed = old.observed /\ new.claimedBy = old.claimedBy
        /\ new.needsHuman = old.needsHuman /\ new.intent = old.intent
        /\ new.session = old.session /\ new.confirmed
    BY <1>1 DEF TaskRow
  <2>3. UpdateOnly("submit_confirmed", t, new)
    BY <1>6 DEF ConfirmSubmitted
  <2> HIDE DEF new
  <2>4. Consistent(new, batch.mode)
    BY <1>1, <1>3, <2>1, <2>2 DEF RowSound, Consistent, AutomationStateConsistent,
       RunnerSessionConsistent, LeaseStateConsistent, TerminalStateConsistent
  <2>5. RowSound(new, batch, now)
    BY <1>1, <1>3, <2>1, <2>2, <2>4 DEF RowSound, Unstarted
  <2>6. Follows(old, new) /\ Evolves(old, new)
    BY <1>1, <1>3, <1>4, <2>2 DEF RowSound, Follows, Evolves
  <2> QED
    BY <1>3, <1>4, <2>2, <2>3, <2>5, <2>6, UpdateSound
<1> QED
  BY <1>5, <1>6

LEMMA FailureSound ==
  ASSUME ProtocolInv, TypeOK', NEW r \in Runners, NEW t \in Tasks, NEW g, NEW stage,
         NEW code \in FailureCodes, RecordFailure(t, r, g, stage, code)
  PROVE  SoundStep
<1> DEFINE old == task[t]
<1>1. old \in TaskRow /\ RowSound(old, batch, now)
  BY SoundTask
<1>2. ActiveRunnerLease(t, r, g)
  BY DEF RecordFailure
<1>3. /\ old.status = "claimed" /\ old.auto = "running" /\ old.claimedBy = r
      /\ batch.status = "in_progress" /\ batch.status \notin Unstarted
      /\ ~old.observed
  BY <1>2, LiveInsideWindow DEF ActiveRunnerLease, Unstarted
<1>4. RunnerBatch
  BY <1>1, <1>3 DEF RowSound, Consistent, RunnerBatch, ProtocolInv, TypeOK, BatchRow
<1>5. code \in Codes /\ code # NoCode /\ Honest(old.intent, code)
  BY HonestCodes DEF Codes
<1>6. CASE RetriesFailure(old, stage, code)
  <2> DEFINE new == [task[t] EXCEPT !.status = "available", !.auto = "queued",
                                    !.lease = NoTime, !.lastError = code]
  <2>1. ~old.intent /\ ~old.confirmed /\ old.attempts < MaxPreSubmitAttempts
    BY <1>6 DEF RetriesFailure
  <2>2. old.needsHuman = NoCode /\ old.session = NoSession
    BY <1>1, <1>3, <2>1 DEF RowSound, Consistent, RunnerSessionConsistent
  <2>3. /\ new.status = "available" /\ new.auto = "queued" /\ new.lease = NoTime
        /\ new.observed = old.observed /\ new.claimedBy = old.claimedBy
        /\ new.needsHuman = old.needsHuman /\ new.intent = old.intent
        /\ new.session = old.session /\ new.confirmed = old.confirmed
        /\ new.attempts = old.attempts
    BY <1>1 DEF TaskRow
  <2>4. new \in TaskRow
    BY <1>1, <1>5 DEF TaskRow, Times, UnresolvedStatuses
  <2>5. UpdateAndRefresh("failure", t, new)
    BY <1>6 DEF RecordFailure
  <2> HIDE DEF new
  <2>6. Consistent(new, batch.mode)
    BY <1>1, <1>3, <2>1, <2>2, <2>3 DEF RowSound, Consistent,
       AutomationStateConsistent, RunnerSessionConsistent, LeaseStateConsistent,
       TerminalStateConsistent
  <2>7. RowSound(new, batch, now)
    BY <1>1, <1>3, <2>1, <2>2, <2>3, <2>6 DEF RowSound, Unstarted
  <2>8. Follows(old, new) /\ Evolves(old, new)
    <3>1. "available" \in NextStatuses(old.status)
      BY <1>3 DEF NextStatuses
    <3> QED
      BY <1>1, <1>3, <2>3, <3>1 DEF Follows, Evolves, TerminalStatuses
  <2> QED
    BY <1>3, <1>4, <2>3, <2>4, <2>5, <2>7, <2>8, UpdateSound
<1>7. CASE ~RetriesFailure(old, stage, code)
  <2> DEFINE new == Parked(task[t], code)
  <2>1. UpdateAndRefresh("failure", t, new)
    BY <1>7 DEF RecordFailure
  <2>2. RowSound(new, batch, now) /\ Follows(old, new) /\ Evolves(old, new)
    BY <1>3, <1>5, ParkedSound
  <2>3. new \in TaskRow /\ new.status = "available"
    BY <1>1, <1>5, ParkedTyped DEF Parked, TaskRow
  <2> HIDE DEF new
  <2> QED
    BY <1>3, <1>4, <2>1, <2>2, <2>3, UpdateSound
<1> QED
  BY <1>6, <1>7

LEMMA ReconcileSound ==
  ASSUME ProtocolInv, TypeOK', NEW r \in Runners, NEW t \in Tasks, ReconcileTask(r, t)
  PROVE  SoundStep
<1> DEFINE code == ParkCode(task[t], "runner_lease_expired")
           new == Parked(task[t], code)
<1>1. /\ RunnerBatch /\ task[t].status = "claimed" /\ task[t].auto = "running"
      /\ UpdateAndRefresh("reconcile", t, new)
  BY DEF ReconcileTask
<1>2. code \in Codes /\ code # NoCode /\ Honest(task[t].intent, code)
  BY HonestCodes
<1>3. batch.status = "in_progress" /\ batch.status \notin Unstarted
  BY <1>1, OpenBatch DEF Unstarted
<1> HIDE DEF code
<1>4. RowSound(new, batch, now) /\ Follows(task[t], new) /\ Evolves(task[t], new)
  BY <1>1, <1>2, <1>3, ParkedSound
<1>5. task[t] \in TaskRow
  BY SoundTask
<1>6. new \in TaskRow /\ new.status = "available"
  BY <1>2, <1>5, ParkedTyped DEF Parked, TaskRow
<1> HIDE DEF new
<1> QED
  BY <1>1, <1>3, <1>4, <1>6, UpdateSound

\* A lease written into a row of a batch that stays or becomes in progress.
LEMMA LeaseCommitted ==
  ASSUME ProtocolInv, TypeOK', NEW op, NEW t \in Tasks, NEW rows \in [Tasks -> TaskRow],
         NEW b, CommitFrom(op, task, b, rows), UNCHANGED <<now, listed>>,
         reading' \subseteq reading,
         batch.status = "in_progress", Continued(b),
         rows[t].status = "claimed",
         \/ b.automation = "running"
         \/ \A u \in Tasks : rows[u].auto = "queued" => task[u].auto = "queued",
         \A u \in Tasks : /\ RowSound(rows[u], batch, now)
                          /\ Follows(task[u], rows[u])
                          /\ Evolves(task[u], rows[u])
  PROVE  SoundStep
<1>1. Covered(b, rows)
  BY DEF Covered, TerminalStatuses
<1>2. BatchSound(b, rows)
  BY <1>1, ContinuedSound
<1>3. b.mode = batch.mode /\ b.status = "in_progress"
  BY DEF Continued
<1>4. \A u \in Tasks : RowSound(rows[u], b, now)
  BY <1>3, RowsStaySound
<1>5. StatusFollows(batch.status, b.status) /\ batch.status \notin Closed
  BY <1>3 DEF StatusFollows, Closed
<1> QED
  BY <1>2, <1>3, <1>4, <1>5, CommitSound

LEMMA ResumeSound ==
  ASSUME ProtocolInv, TypeOK', NEW r \in Runners, NEW t \in Tasks, Resume(r, t)
  PROVE  SoundStep
<1> DEFINE old == task[t]
           new == [Leased(task[t], r) EXCEPT
                     !.needsHuman = IF task[t].intent THEN @ ELSE NoCode]
           rows == [task EXCEPT ![t] = new]
           b == [batch EXCEPT !.automation = "running"]
<1>1. old \in TaskRow /\ RowSound(old, batch, now)
  BY SoundTask
<1>2. /\ old.status = "available" /\ old.auto = "needs_human" /\ old.claimedBy = r
      /\ RunnerBatch /\ InWindow
      /\ CommitFrom("resume", task, b, rows) /\ UNCHANGED <<now, listed, reading>>
  BY DEF Resume, ResumableBy, Commit
<1>3. batch.status = "in_progress" /\ batch.status \notin Unstarted
  BY <1>2, OpenBatch DEF Unstarted
<1>4. /\ new \in TaskRow
      /\ new.status = "claimed" /\ new.auto = AutoTo(old, "running")
      /\ new.claimedBy = r /\ new.lease = LeaseUntil
      /\ new.generation = old.generation + 1
      /\ new.session = old.session /\ new.intent = old.intent
      /\ new.confirmed = old.confirmed /\ new.observed = old.observed
      /\ new.needsHuman = IF old.intent THEN old.needsHuman ELSE NoCode
  <2>1. Leased(old, r) \in TaskRow /\ NoCode \in Codes
    BY <1>1, LeasedTyped DEF ProtocolInv, TypeOK, Clients, Codes
  <2> QED
    BY <1>1, <2>1 DEF Leased, TaskRow
<1> HIDE DEF new
<1>5. r \in Clients /\ r \notin Users
  BY ClientsAssumption DEF Clients
<1>6. /\ new.needsHuman \in {old.needsHuman, NoCode}
      /\ ~new.intent => new.needsHuman = NoCode
  BY <1>4
<1>7. RowSound(new, batch, now) /\ Follows(old, new) /\ Evolves(old, new)
  BY <1>2, <1>3, <1>4, <1>5, <1>6, LeaseSound
<1>8. task \in [Tasks -> TaskRow] /\ batch \in BatchRow
  BY DEF ProtocolInv, TypeOK
<1>9. /\ rows \in [Tasks -> TaskRow] /\ rows[t] = new
      /\ \A u \in Tasks : /\ RowSound(rows[u], batch, now)
                          /\ Follows(task[u], rows[u])
                          /\ Evolves(task[u], rows[u])
  BY <1>4, <1>7, <1>8, SoundTask
<1>10. Continued(b) /\ b.automation = "running"
  BY <1>2, <1>3, <1>8 DEF Continued, BatchRow
<1> HIDE DEF rows, b
<1> QED
  BY <1>2, <1>3, <1>4, <1>9, <1>10, LeaseCommitted

-----------------------------------------------------------------------------
(* Claims *)

Held(t) == task[t].status = "claimed" /\ LiveLease(task[t], now)

\* Tasks under a live lease are left alone.
Shielded == \A t \in Tasks : Held(t) => task'[t] = task[t]

LEMMA CommitShields ==
  ASSUME NEW op, NEW from, NEW b, NEW rows, CommitFrom(op, from, b, rows),
         \A t \in Tasks : Held(t) => rows[t] = task[t]
  PROVE  Shielded
BY DEF Shielded, CommitFrom

LEMMA ClaimBatchOpen ==
  ASSUME ProtocolInv, RunnerClaimOpen
  PROVE  /\ batch.status = "in_progress" /\ batch.status \notin Unstarted
         /\ RunnerBatch /\ InWindow /\ batch.automation = "running"
BY DEF RunnerClaimOpen, InProgress, ProtocolInv, BatchSound, Unstarted

\* What a claim parks follows the constraints and no live lease.
LEMMA CandidatesSound ==
  ASSUME ProtocolInv, RunnerClaimOpen,
         NEW parked \in SUBSET (ExpiredRunnerClaims \cup Exhausted)
  PROVE  /\ ParkedCandidates(parked) \in [Tasks -> TaskRow]
         /\ \A t \in Tasks :
              /\ RowSound(ParkedCandidates(parked)[t], batch, now)
              /\ Follows(task[t], ParkedCandidates(parked)[t])
              /\ Evolves(task[t], ParkedCandidates(parked)[t])
              /\ t \in parked => ParkedCandidates(parked)[t].status = "available"
              /\ t \notin parked => ParkedCandidates(parked)[t] = task[t]
              /\ Held(t) => t \notin parked
<1> DEFINE rows == ParkedCandidates(parked)
<1> SUFFICES ASSUME NEW t \in Tasks
             PROVE  /\ rows[t] \in TaskRow
                    /\ RowSound(rows[t], batch, now)
                    /\ Follows(task[t], rows[t]) /\ Evolves(task[t], rows[t])
                    /\ t \in parked => rows[t].status = "available"
                    /\ t \notin parked => rows[t] = task[t]
                    /\ Held(t) => t \notin parked
  BY DEF ParkedCandidates
<1> DEFINE code == IF t \in Exhausted THEN "pre_submit_attempts_exhausted"
                   ELSE ParkCode(task[t], "runner_lease_expired")
<1>1. task[t] \in TaskRow /\ RowSound(task[t], batch, now)
  BY SoundTask
<1>2. rows[t] = IF t \notin parked THEN task[t] ELSE Parked(task[t], code)
  BY DEF ParkedCandidates
<1>3. Held(t) => t \notin parked
  <2>1. now \in Nat /\ (task[t].lease # NoTime => task[t].lease \in Nat)
    BY <1>1 DEF ProtocolInv, TypeOK, TaskRow, Times
  <2> QED
    BY <2>1 DEF Held, LiveLease, ExpiredRunnerClaims, ExpiredLease, Exhausted, Queued
<1>4. CASE t \notin parked
  BY <1>1, <1>2, <1>3, <1>4, SoundTask
<1>5. CASE t \in parked
  <2>1. task[t].status \in {"available", "claimed"} /\ task[t].auto # "null"
    BY <1>5 DEF ExpiredRunnerClaims, Exhausted, Queued
  <2>2. code \in Codes /\ code # NoCode /\ Honest(task[t].intent, code)
    <3>1. CASE t \in Exhausted
      <4>1. ~task[t].intent
        BY <1>1, <3>1 DEF Exhausted, Queued, RowSound, Consistent,
                          AutomationStateConsistent
      <4> QED
        BY <3>1, <4>1 DEF Codes, NoCode, Honest
    <3>2. CASE t \notin Exhausted
      BY <3>2, HonestCodes
    <3> QED
      BY <3>1, <3>2
  <2>3. batch.status \notin Unstarted
    BY ClaimBatchOpen
  <2> HIDE DEF code
  <2>4. Parked(task[t], code) \in TaskRow /\ Parked(task[t], code).status = "available"
    BY <1>1, <2>2, ParkedTyped DEF Parked, TaskRow
  <2>5. /\ RowSound(Parked(task[t], code), batch, now)
        /\ Follows(task[t], Parked(task[t], code))
        /\ Evolves(task[t], Parked(task[t], code))
    BY <2>1, <2>2, <2>3, ParkedSound
  <2> QED
    BY <1>2, <1>3, <1>5, <2>4, <2>5
<1> QED
  BY <1>4, <1>5

LEMMA ClaimNothingSound ==
  ASSUME ProtocolInv, TypeOK',
         NEW parked \in SUBSET (ExpiredRunnerClaims \cup Exhausted),
         ClaimNothing(parked)
  PROVE  SoundStep /\ Shielded
<1> DEFINE rows == ParkedCandidates(parked)
           b == Refreshed(batch, rows)
<1>1. RunnerClaimOpen /\ parked # {} /\ CommitFrom("claim", task, b, rows)
        /\ UNCHANGED <<now, listed, reading>>
  BY DEF ClaimNothing, Commit
<1>2. batch.status = "in_progress" /\ RunnerBatch
  BY <1>1, ClaimBatchOpen
<1>3. /\ rows \in [Tasks -> TaskRow]
      /\ \A t \in Tasks : /\ RowSound(rows[t], batch, now)
                          /\ Follows(task[t], rows[t]) /\ Evolves(task[t], rows[t])
                          /\ t \in parked => rows[t].status = "available"
                          /\ Held(t) => rows[t] = task[t]
  BY <1>1, CandidatesSound
<1> HIDE DEF rows
<1>4. \E t \in Tasks : rows[t].status \notin TerminalStatuses
  BY <1>1, <1>3 DEF TerminalStatuses, ExpiredRunnerClaims, Exhausted, Queued
<1>5. BatchSound(b, rows) /\ b.mode = batch.mode /\ b.status = "in_progress"
  BY <1>2, <1>4, RefreshedSound
<1> HIDE DEF b
<1>6. StatusFollows(batch.status, b.status) /\ batch.status \notin Closed
  BY <1>2, <1>5 DEF StatusFollows, Closed
<1>7. \A t \in Tasks : RowSound(rows[t], b, now)
  BY <1>2, <1>3, <1>5, RowsStaySound
<1>8. SoundStep
  BY <1>1, <1>3, <1>5, <1>6, <1>7, CommitSound
<1> QED
  BY <1>1, <1>3, <1>8, CommitShields

LEMMA ClaimSound ==
  ASSUME ProtocolInv, TypeOK', NEW r \in Runners, NEW t \in Tasks,
         NEW parked \in SUBSET (ExpiredRunnerClaims \cup Exhausted),
         Claim(r, t, parked)
  PROVE  SoundStep /\ Shielded
<1> DEFINE old == ParkedCandidates(parked)
           new == [Leased(old[t], r) EXCEPT !.attempts = @ + 1]
           rows == [old EXCEPT ![t] = new]
           b == IF parked = {} THEN [batch EXCEPT !.status = "in_progress"]
                ELSE [Refreshed(batch, old) EXCEPT !.status = "in_progress"]
<1>1. /\ RunnerClaimOpen /\ t \in Queued \ Exhausted
      /\ CommitFrom("claim", task, b, rows) /\ UNCHANGED <<now, listed, reading>>
  BY DEF Claim, Commit
<1>2. /\ batch.status = "in_progress" /\ batch.status \notin Unstarted
      /\ RunnerBatch /\ InWindow /\ batch.automation = "running"
  BY <1>1, ClaimBatchOpen
<1>3. /\ old \in [Tasks -> TaskRow]
      /\ \A u \in Tasks : /\ RowSound(old[u], batch, now)
                          /\ Follows(task[u], old[u]) /\ Evolves(task[u], old[u])
                          /\ u \notin parked => old[u] = task[u]
                          /\ Held(u) => u \notin parked
  BY <1>1, CandidatesSound
<1>4. task[t].status = "available" /\ task[t].auto = "queued" /\ t \notin parked
  BY <1>1 DEF Queued, Exhausted, ExpiredRunnerClaims
<1>5. old[t] = task[t] /\ task[t] \in TaskRow /\ RowSound(task[t], batch, now)
  BY <1>3, <1>4, SoundTask
<1>6. /\ new \in TaskRow
      /\ new.status = "claimed" /\ new.auto = AutoTo(task[t], "running")
      /\ new.claimedBy = r /\ new.lease = LeaseUntil
      /\ new.generation = task[t].generation + 1
      /\ new.session = task[t].session /\ new.intent = task[t].intent
      /\ new.confirmed = task[t].confirmed /\ new.observed = task[t].observed
      /\ new.needsHuman = task[t].needsHuman
  <2> DEFINE lease == Leased(task[t], r)
  <2>1. lease \in TaskRow
    BY <1>5, LeasedTyped DEF ProtocolInv, TypeOK, Clients
  <2>2. /\ lease.status = "claimed" /\ lease.auto = AutoTo(task[t], "running")
        /\ lease.claimedBy = r /\ lease.lease = LeaseUntil
        /\ lease.generation = task[t].generation + 1
        /\ lease.session = task[t].session /\ lease.intent = task[t].intent
        /\ lease.confirmed = task[t].confirmed
        /\ lease.observed = task[t].observed
        /\ lease.needsHuman = task[t].needsHuman
    BY <1>5 DEF Leased, TaskRow
  <2> HIDE DEF lease, old
  <2>3. new = [lease EXCEPT !.attempts = @ + 1]
    BY <1>5 DEF lease
  <2> HIDE DEF new
  <2> QED
    BY <2>1, <2>2, <2>3 DEF TaskRow
<1> HIDE DEF new
<1>7. r \in Clients /\ r \notin Users /\ task[t].needsHuman = NoCode
  BY <1>4, <1>5, ClientsAssumption
     DEF Clients, RowSound, Consistent, AutomationStateConsistent
<1>8. RowSound(new, batch, now) /\ Follows(task[t], new) /\ Evolves(task[t], new)
  BY <1>2, <1>4, <1>6, <1>7, LeaseSound
<1>9. b.automation = "running" /\ Continued(b)
  <2> HIDE DEF old
  <2>1. batch \in BatchRow
    BY DEF ProtocolInv, TypeOK
  <2>2. CASE parked = {}
    BY <1>2, <2>1, <2>2 DEF Continued, BatchRow
  <2>3. CASE parked # {}
    <3>1. DeriveBatchStatus(Autos(old)) = "running"
      BY <1>4, <1>5 DEF DeriveBatchStatus, Autos
    <3>2. /\ Refreshed(batch, old) \in BatchRow
          /\ Refreshed(batch, old).mode = batch.mode
          /\ Refreshed(batch, old).startedAt = batch.startedAt
          /\ Refreshed(batch, old).automation = "running"
      BY <1>2, <2>1, <3>1, BatchHelpersTyped
         DEF Refreshed, BatchRow, ProtocolInv, TypeOK
    <3> QED
      BY <1>2, <2>3, <3>2 DEF Continued, BatchRow
  <2> QED
    BY <2>2, <2>3
<1> HIDE DEF old, b
<1>10. /\ rows \in [Tasks -> TaskRow] /\ rows[t].status = "claimed"
       /\ \A u \in Tasks : /\ RowSound(rows[u], batch, now)
                           /\ Follows(task[u], rows[u]) /\ Evolves(task[u], rows[u])
                           /\ Held(u) => rows[u] = task[u]
  BY <1>3, <1>4, <1>6, <1>8 DEF Held
<1> HIDE DEF rows
<1>11. SoundStep
  BY <1>1, <1>2, <1>9, <1>10, LeaseCommitted
<1> QED
  BY <1>1, <1>10, <1>11, CommitShields

LEMMA ClaimTaskSound ==
  ASSUME ProtocolInv, TypeOK', NEW r \in Runners, ClaimTask(r)
  PROVE  SoundStep /\ Shielded
BY ClaimSound, ClaimNothingSound DEF ClaimTask

LEMMA RunnerStepSound ==
  ASSUME ProtocolInv, TypeOK', NEW r \in Runners, NEW t \in Tasks, RunnerStep(r, t)
  PROVE  SoundStep
BY ResumeSound, ReconcileSound, HeartbeatSound, SubmitSound, FailureSound,
   CompleteSound DEF RunnerStep

-----------------------------------------------------------------------------
(* What a portal user does *)

\* What the portal's claim writes into its row.
LEMMA PortalLeaseSound ==
  ASSUME ProtocolInv, NEW u \in Users, NEW t \in Tasks, InWindow,
         NEW b, b.mode = batch.mode, b.status \notin Unstarted,
         task[t].status \in {"available", "claimed"},
         task[t].auto = "null" \/ task[t].needsHuman # NoCode
  PROVE  /\ Leased(task[t], u) \in TaskRow
         /\ Leased(task[t], u).status = "claimed"
         /\ Leased(task[t], u).auto = AutoTo(task[t], "running")
         /\ RowSound(Leased(task[t], u), b, now)
         /\ Follows(task[t], Leased(task[t], u))
         /\ Evolves(task[t], Leased(task[t], u))
<1> DEFINE old == task[t]
           new == Leased(task[t], u)
<1>1. old \in TaskRow
  BY SoundTask
<1>2. u \in Clients /\ u \notin Runners
  BY ClientsAssumption DEF Clients
<1>3. new \in TaskRow
  BY <1>1, <1>2, LeasedTyped DEF ProtocolInv, TypeOK
<1>4. /\ new.status = "claimed" /\ new.auto = AutoTo(old, "running")
      /\ new.claimedBy = u /\ new.lease = LeaseUntil
      /\ new.generation = old.generation + 1
      /\ new.session = old.session /\ new.intent = old.intent
      /\ new.confirmed = old.confirmed /\ new.observed = old.observed
      /\ new.attempts = old.attempts /\ new.needsHuman = old.needsHuman
  BY <1>1 DEF Leased, TaskRow
<1> HIDE DEF new
<1>5. RowSound(new, b, now) /\ Follows(old, new) /\ Evolves(old, new)
  BY <1>2, <1>3, <1>4, LeaseSound
<1> QED
  BY <1>3, <1>4, <1>5 DEF new

LEMMA ClaimAvailableSound ==
  ASSUME ProtocolInv, TypeOK', NEW u \in Users, NEW t \in Tasks, ClaimAvailable(u, t)
  PROVE  SoundStep
<1> DEFINE new == Leased(task[t], u)
           rows == [task EXCEPT ![t] = new]
           b == [batch EXCEPT !.status = "in_progress"]
<1>1. /\ InProgress /\ InWindow /\ task[t].auto = "null"
      /\ task[t].status \in {"available", "claimed"}
      /\ CommitFrom("portal_claim", task, b, rows)
      /\ reading' = reading \ {u} /\ UNCHANGED <<now, listed>>
  BY DEF ClaimAvailable, PortalClaim, Commit
<1>2. task \in [Tasks -> TaskRow] /\ batch \in BatchRow /\ now \in Nat
  BY DEF ProtocolInv, TypeOK
<1>3. batch.mode = "manual"
  BY <1>1, SoundTask DEF RowSound, Consistent
<1>4. /\ b.mode = batch.mode /\ b.status = "in_progress"
      /\ b.startedAt = batch.startedAt /\ b.settledAt = batch.settledAt
      /\ b.automation = batch.automation
  BY <1>2 DEF BatchRow
<1> HIDE DEF b
<1>5. b.status \notin Unstarted /\ b.status \notin Closed
  BY <1>4 DEF Unstarted, Closed
<1>6. /\ new \in TaskRow /\ new.status = "claimed" /\ new.auto = "null"
      /\ RowSound(new, b, now) /\ Follows(task[t], new) /\ Evolves(task[t], new)
  BY <1>1, <1>4, <1>5, PortalLeaseSound DEF AutoTo
<1> HIDE DEF new
<1>7. batch.status \in {"frozen", "in_progress"}
  BY <1>1 DEF InProgress
<1>8. ASSUME NEW v \in Tasks
      PROVE  RowSound(task[v], b, now) /\ task[v].auto = "null"
  <2>1. task[v] \in TaskRow /\ RowSound(task[v], batch, now)
    BY SoundTask
  <2>2. b.status = "draft" <=> batch.status = "draft"
    BY <1>4, <1>7
  <2> QED
    BY <1>2, <1>3, <1>4, <1>5, <2>1, <2>2, StaysSound DEF RowSound, Consistent
<1>9. /\ rows[t].status = "claimed"
      /\ \A v \in Tasks : /\ RowSound(rows[v], b, now) /\ Follows(task[v], rows[v])
                          /\ Evolves(task[v], rows[v]) /\ rows[v].auto = "null"
  BY <1>2, <1>6, <1>8, SoundTask
<1> HIDE DEF rows
<1>10. BatchSound(b, rows)
  <2>1. rows[t].status \notin TerminalStatuses
    BY <1>9 DEF TerminalStatuses
  <2>2. BatchSound(batch, task)
    BY DEF ProtocolInv
  <2> QED
    BY <1>3, <1>4, <1>5, <1>9, <2>1, <2>2 DEF BatchSound
<1>11. StatusFollows(batch.status, b.status) /\ batch.status \notin Closed
  BY <1>4, <1>7 DEF StatusFollows, Closed
<1> QED
  BY <1>1, <1>4, <1>9, <1>10, <1>11, CommitSound

LEMMA ClaimNeedsHumanSound ==
  ASSUME ProtocolInv, TypeOK', NEW u \in Users, NEW t \in Tasks, ClaimNeedsHuman(u, t)
  PROVE  SoundStep
<1> DEFINE new == Leased(task[t], u)
           rows == [task EXCEPT ![t] = new]
           b == [batch EXCEPT !.status = "in_progress"]
<1>1. /\ u \in reading /\ task[t].status \in {"available", "claimed"}
      /\ task[t].auto \in {"needs_human", "running"}
      /\ task[t].needsHuman # NoCode
      /\ CommitFrom("portal_claim", task, b, rows)
      /\ reading' = reading \ {u} /\ UNCHANGED <<now, listed>>
  BY SoundTask DEF ClaimNeedsHuman, PortalClaim, Commit, ExpiredRunnerClaims,
                   RowSound, Consistent, AutomationStateConsistent
<1>2. /\ task \in [Tasks -> TaskRow] /\ batch \in BatchRow /\ now \in Nat
      /\ InWindow
  BY <1>1 DEF ProtocolInv, TypeOK
<1>3. batch.status = "in_progress" /\ batch.status \notin Unstarted
  BY <1>1, OpenBatch DEF Unstarted
<1>4. b = batch
  BY <1>2, <1>3 DEF BatchRow
<1>5. Continued(batch)
  BY <1>2, <1>3 DEF Continued
<1>6. /\ new \in TaskRow /\ new.status = "claimed" /\ new.auto # "queued"
      /\ RowSound(new, batch, now)
      /\ Follows(task[t], new) /\ Evolves(task[t], new)
  BY <1>1, <1>2, <1>3, PortalLeaseSound DEF AutoTo
<1> HIDE DEF new
<1>7. /\ rows \in [Tasks -> TaskRow] /\ rows[t].status = "claimed"
      /\ \A v \in Tasks : /\ RowSound(rows[v], batch, now)
                          /\ Follows(task[v], rows[v])
                          /\ Evolves(task[v], rows[v])
  BY <1>2, <1>6, SoundTask
<1>8. \A v \in Tasks : rows[v].auto = "queued" => task[v].auto = "queued"
  BY <1>2, <1>6
<1> HIDE DEF rows, b
<1>9. CommitFrom("portal_claim", task, batch, rows)
  BY <1>1, <1>4
<1> QED
  BY <1>1, <1>3, <1>5, <1>7, <1>8, <1>9, LeaseCommitted

\* A user who gives a parked task back leaves the code it was parked with.
LEMMA ReleaseSound ==
  ASSUME ProtocolInv, TypeOK', NEW u \in Users, NEW t \in Tasks, NEW g,
         Release(t, u, g)
  PROVE  SoundStep
<1> DEFINE old == task[t]
           new == [task[t] EXCEPT !.status = "available",
                                  !.auto = AutoTo(task[t], "needs_human"),
                                  !.lease = NoTime]
<1>1. old \in TaskRow /\ RowSound(old, batch, now)
  BY SoundTask
<1>2. /\ ActiveLease(t, u, g) /\ UpdateOnly("release", t, new)
  BY DEF Release
<1>3. /\ old.status = "claimed" /\ old.claimedBy = u /\ ~old.observed
      /\ batch.status = "in_progress"
  BY <1>2, LiveInsideWindow
<1>4. /\ new.status = "available" /\ new.lease = NoTime
      /\ new.auto = IF old.auto = "null" THEN "null" ELSE "needs_human"
      /\ new.observed = old.observed /\ new.claimedBy = old.claimedBy
      /\ new.needsHuman = old.needsHuman /\ new.intent = old.intent
      /\ new.session = old.session /\ new.confirmed = old.confirmed
      /\ new.attempts = old.attempts
  BY <1>1 DEF TaskRow, AutoTo
<1>5. new \in TaskRow
  <2>1. /\ NoTime \in Times /\ "available" \in UnresolvedStatuses \cup TerminalStatuses
        /\ AutoTo(old, "needs_human") \in {"null", "needs_human"}
    BY DEF Times, UnresolvedStatuses, AutoTo
  <2> QED
    BY <1>1, <2>1 DEF TaskRow
<1> HIDE DEF new
<1>6. old.auto = "null" \/ (old.auto = "running" /\ old.needsHuman # NoCode)
  BY <1>1, <1>3 DEF RowSound, Consistent, AutomationStateConsistent, TaskRow,
                    TerminalStatuses
<1>7. Consistent(new, batch.mode)
  BY <1>1, <1>3, <1>4, <1>6 DEF RowSound, Consistent, AutomationStateConsistent,
     RunnerSessionConsistent, LeaseStateConsistent, TerminalStateConsistent
<1>8. RowSound(new, batch, now)
  BY <1>1, <1>3, <1>4, <1>7 DEF RowSound, Unstarted
<1>9. "available" \in NextStatuses(old.status)
  BY <1>3 DEF NextStatuses
<1>10. Follows(old, new) /\ Evolves(old, new)
  BY <1>1, <1>3, <1>4, <1>9 DEF Follows, Evolves, TerminalStatuses
<1>11. new.status \notin TerminalStatuses /\ new.auto # "queued"
  BY <1>4 DEF TerminalStatuses
<1> QED
  BY <1>2, <1>3, <1>5, <1>8, <1>10, <1>11, UpdateSound

LEMMA PortalFailSound ==
  ASSUME ProtocolInv, TypeOK', NEW u \in Users, NEW t \in Tasks, NEW g,
         NEW code \in FailureCodes \cup {NoCode}, PortalFail(t, u, g, code)
  PROVE  SoundStep
<1> DEFINE kept == IF task[t].needsHuman # NoCode THEN task[t].needsHuman ELSE code
           new == Failed(task[t], kept)
<1>1. task[t] \in TaskRow
  BY SoundTask
<1>2. ActiveLease(t, u, g) /\ UpdateAndSettle("portal_fail", t, new)
  BY DEF PortalFail
<1>3. task[t].status = "claimed" /\ batch.status = "in_progress"
  BY <1>2, LiveInsideWindow
<1>4. kept \in Codes /\ Honest(task[t].intent, kept)
  BY <1>1, HonestCodes, CodesTyped DEF Codes
<1>5. batch.status \notin Unstarted
  BY <1>3 DEF Unstarted
<1> HIDE DEF kept
<1>6. /\ new \in TaskRow /\ RowSound(new, batch, now)
      /\ Follows(task[t], new) /\ Evolves(task[t], new)
  BY <1>1, <1>3, <1>4, <1>5, FailedTyped, FailedSound
<1> HIDE DEF new
<1> QED
  BY <1>2, <1>3, <1>6, UpdateSound

LEMMA PortalStepSound ==
  ASSUME ProtocolInv, TypeOK', NEW u \in Users, NEW t \in Tasks, PortalStep(u, t)
  PROVE  SoundStep
BY ClaimAvailableSound, ClaimNeedsHumanSound, HeartbeatSound, CompleteSound,
   ReleaseSound, PortalFailSound DEF PortalStep

-----------------------------------------------------------------------------
(* What is done to the batch as a whole *)

\* A transaction that reads and writes nothing is accepted in an open batch.
LEMMA IdleCommit ==
  ASSUME ProtocolInv, TypeOK', NEW op, CommitFrom(op, task, batch, task),
         now' = now, listed' => listed, reading' \subseteq reading,
         batch.status \notin Closed
  PROVE  SoundStep
<1>1. BatchSound(batch, task)
  BY DEF ProtocolInv
<1>2. StatusFollows(batch.status, batch.status)
  BY DEF StatusFollows
<1> QED
  BY <1>1, <1>2, SoundTask, CommitSound

LEMMA FreezeSound ==
  ASSUME ProtocolInv, TypeOK', Freeze
  PROVE  SoundStep /\ Shielded
<1> DEFINE b == [batch EXCEPT !.status = "frozen"]
           rows == [t \in Tasks |-> [task[t] EXCEPT !.status = "available"]]
<1>1. /\ batch.status = "draft" /\ CommitFrom("freeze", task, b, rows)
      /\ UNCHANGED <<now, listed, reading>>
  BY DEF Freeze, Commit
<1>2. batch \in BatchRow /\ BatchSound(batch, task)
  BY DEF ProtocolInv, TypeOK
<1>3. /\ b.mode = batch.mode /\ b.status = "frozen"
      /\ b.startedAt = batch.startedAt /\ b.settledAt = batch.settledAt
      /\ b.automation = batch.automation
  BY <1>2 DEF BatchRow
<1> HIDE DEF b
<1>4. ASSUME NEW t \in Tasks
      PROVE  /\ task[t].status = "planned" /\ rows[t].status = "available"
             /\ RowSound(rows[t], b, now)
             /\ Follows(task[t], rows[t]) /\ Evolves(task[t], rows[t])
  <2> DEFINE old == task[t]
             new == [task[t] EXCEPT !.status = "available"]
  <2>1. old \in TaskRow /\ RowSound(old, batch, now)
    BY SoundTask
  <2>2. /\ old.status = "planned" /\ old.auto \in {"null", "queued"}
        /\ ~old.observed
    BY <1>1, <2>1 DEF RowSound, Unstarted
  <2>3. /\ new.status = "available" /\ new.auto = old.auto /\ new.lease = old.lease
        /\ new.observed = old.observed /\ new.claimedBy = old.claimedBy
        /\ new.needsHuman = old.needsHuman /\ new.intent = old.intent
        /\ new.session = old.session /\ new.confirmed = old.confirmed
        /\ new.attempts = old.attempts
    BY <2>1 DEF TaskRow
  <2> HIDE DEF new
  <2>4. Consistent(new, b.mode)
    BY <1>3, <2>1, <2>2, <2>3 DEF RowSound, Consistent, AutomationStateConsistent,
       RunnerSessionConsistent, LeaseStateConsistent, TerminalStateConsistent
  <2>5. RowSound(new, b, now)
    BY <1>3, <2>1, <2>2, <2>3, <2>4 DEF RowSound, Unstarted
  <2>6. "available" \in NextStatuses(old.status)
    BY <2>2 DEF NextStatuses
  <2>7. Follows(old, new) /\ Evolves(old, new)
    BY <2>2, <2>3, <2>6 DEF Follows, Evolves, TerminalStatuses
  <2>8. rows[t] = new
    BY DEF new
  <2> QED
    BY <2>2, <2>3, <2>5, <2>7, <2>8
<1> HIDE DEF rows
<1>5. BatchSound(b, rows)
  <2>1. \E t \in Tasks : rows[t].status \notin TerminalStatuses
    BY <1>4, TasksAssumption DEF TerminalStatuses
  <2> QED
    BY <1>1, <1>2, <1>3, <2>1 DEF BatchSound, Unstarted, Closed
<1>6. StatusFollows(batch.status, b.status) /\ batch.status \notin Closed
  BY <1>1, <1>3 DEF StatusFollows, Closed
<1>7. SoundStep
  BY <1>1, <1>3, <1>4, <1>5, <1>6, CommitSound
<1>8. \A t \in Tasks : ~Held(t)
  BY <1>4 DEF Held
<1> QED
  BY <1>1, <1>7, <1>8, CommitShields

LEMMA StartSound ==
  ASSUME ProtocolInv, TypeOK', StartAutomation
  PROVE  SoundStep /\ Shielded
<1> DEFINE b == [batch EXCEPT !.status = "in_progress",
                              !.automation = "running",
                              !.startedAt = now]
<1>1. /\ RunnerBatch /\ batch.status = "frozen"
      /\ CommitFrom("start", task, b, task) /\ UNCHANGED <<now, listed, reading>>
  BY DEF StartAutomation, Commit
<1>2. batch \in BatchRow /\ BatchSound(batch, task) /\ now \in Nat
  BY DEF ProtocolInv, TypeOK
<1>3. /\ b.mode = batch.mode /\ b.status = "in_progress"
      /\ b.startedAt = now /\ b.automation = "running"
  BY <1>2 DEF BatchRow
<1> HIDE DEF b
<1>4. b.status \notin Unstarted /\ (b.status = "draft" <=> batch.status = "draft")
  BY <1>1, <1>3 DEF Unstarted
<1>5. ASSUME NEW t \in Tasks
      PROVE  /\ RowSound(task[t], b, now)
             /\ Follows(task[t], task[t]) /\ Evolves(task[t], task[t])
  BY <1>2, <1>3, <1>4, SoundTask, StaysSound
<1>6. BatchSound(b, task)
  BY <1>1, <1>2, <1>3 DEF BatchSound, RunnerBatch, Unstarted, Closed, NoTime
<1>7. StatusFollows(batch.status, b.status) /\ batch.status \notin Closed
  BY <1>1, <1>3 DEF StatusFollows, Closed
<1>8. SoundStep
  BY <1>1, <1>3, <1>5, <1>6, <1>7, CommitSound
<1> QED
  BY <1>1, <1>8, CommitShields

LEMMA CancelSound ==
  ASSUME ProtocolInv, TypeOK', Cancel
  PROVE  SoundStep /\ (RunnerBatch => Shielded)
<1> DEFINE b == [batch EXCEPT !.status = "cancelled",
                              !.automation = IF RunnerBatch THEN "settled" ELSE @,
                              !.settledAt = IF RunnerBatch THEN now ELSE @]
           ended(t) == [task[t] EXCEPT !.status = "cancelled",
                                       !.auto = AutoTo(task[t], "completed"),
                                       !.lease = NoTime]
           rows == [t \in Tasks |-> IF task[t].status \in UnresolvedStatuses
                                    THEN ended(t) ELSE task[t]]
<1>1. /\ batch.status \notin Closed
      /\ RunnerBatch /\ batch.startedAt # NoTime => \A t \in Tasks : Untouched(task[t])
      /\ CommitFrom("cancel", task, b, rows) /\ UNCHANGED <<now, listed, reading>>
  BY DEF Cancel, Commit, Closed
<1>2. batch \in BatchRow /\ BatchSound(batch, task)
  BY DEF ProtocolInv, TypeOK
<1>3. /\ b.mode = batch.mode /\ b.status = "cancelled"
      /\ b.startedAt = batch.startedAt
      /\ b.settledAt = batch.settledAt \/ RunnerBatch
      /\ b.automation = IF RunnerBatch THEN "settled" ELSE batch.automation
  BY <1>2 DEF BatchRow
<1> HIDE DEF b
<1>4. ASSUME NEW t \in Tasks
      PROVE  ~task[t].intent /\ (RunnerBatch => ~Held(t))
  <2>1. RowSound(task[t], batch, now) /\ task[t] \in TaskRow
    BY SoundTask
  <2>2. CASE ~RunnerBatch
    BY <1>2, <2>1, <2>2 DEF RunnerBatch, BatchRow, RowSound, Consistent,
                            AutomationStateConsistent
  <2>3. CASE RunnerBatch /\ batch.startedAt = NoTime
    <3>1. batch.status \in Unstarted
      BY <1>1, <1>2, <2>3 DEF BatchSound, RunnerBatch, BatchRow, Unstarted, Closed
    <3> QED
      BY <2>1, <3>1 DEF RowSound, Consistent, AutomationStateConsistent, Held
  <2>4. CASE RunnerBatch /\ batch.startedAt # NoTime
    BY <1>1, <2>4 DEF Untouched, Held
  <2> QED
    BY <2>2, <2>3, <2>4
<1>5. ASSUME NEW t \in Tasks
      PROVE  /\ rows[t].status \in TerminalStatuses
             /\ RowSound(rows[t], b, now)
             /\ Follows(task[t], rows[t]) /\ Evolves(task[t], rows[t])
  <2> DEFINE old == task[t]
             new == ended(t)
  <2>1. old \in TaskRow /\ RowSound(old, batch, now) /\ Follows(old, old)
    BY SoundTask
  <2>2. CASE old.status \in UnresolvedStatuses
    <3>1. rows[t] = new
      BY <2>2
    <3>2. /\ new.status = "cancelled" /\ new.lease = NoTime
          /\ new.auto = IF old.auto = "null" THEN "null" ELSE "completed"
          /\ new.observed = old.observed /\ new.claimedBy = old.claimedBy
          /\ new.needsHuman = old.needsHuman /\ new.intent = old.intent
          /\ new.session = old.session /\ new.confirmed = old.confirmed
          /\ new.attempts = old.attempts
      BY <2>1 DEF TaskRow, AutoTo
    <3> HIDE DEF new, rows
    <3>3. ~old.observed /\ old.status \notin TerminalStatuses
      BY <2>1, <2>2 DEF RowSound, UnresolvedStatuses, TerminalStatuses
    <3>4. Consistent(new, b.mode)
      BY <1>3, <2>1, <2>2, <3>2, <3>3 DEF RowSound, Consistent,
         AutomationStateConsistent, RunnerSessionConsistent, LeaseStateConsistent,
         TerminalStateConsistent, TerminalStatuses
    <3>5. RowSound(new, b, now)
      BY <1>3, <2>1, <3>2, <3>3, <3>4 DEF RowSound, Unstarted
    <3>6. "cancelled" \in NextStatuses(old.status)
      BY <2>2 DEF NextStatuses, UnresolvedStatuses, TerminalStatuses
    <3>7. Follows(old, new) /\ Evolves(old, new)
      BY <1>4, <3>2, <3>3, <3>6 DEF Follows, Evolves
    <3> QED
      BY <3>1, <3>2, <3>5, <3>7 DEF TerminalStatuses
  <2>3. CASE old.status \notin UnresolvedStatuses
    <3>1. rows[t] = old /\ old.status \in TerminalStatuses
      BY <2>1, <2>3 DEF TaskRow
    <3>2. RowSound(old, b, now)
      BY <1>3, <2>1, <3>1 DEF RowSound, Unstarted, TerminalStatuses
    <3> HIDE DEF rows
    <3> QED
      BY <2>1, <3>1, <3>2, SoundTask
  <2> QED
    BY <2>2, <2>3
<1> HIDE DEF rows
<1>6. BatchSound(b, rows)
  BY <1>2, <1>3, <1>5 DEF BatchSound, RunnerBatch, BatchRow, Unstarted, Closed
<1>7. StatusFollows(batch.status, b.status)
  BY <1>1, <1>2, <1>3 DEF StatusFollows, BatchRow, Closed
<1>8. SoundStep
  BY <1>1, <1>3, <1>5, <1>6, <1>7, CommitSound
<1> QED
  BY <1>1, <1>4, <1>8, CommitShields

LEMMA TerminalFailureSound ==
  ASSUME ProtocolInv, TypeOK', NEW t \in Tasks, ConfirmTerminalFailure(t)
  PROVE  SoundStep /\ Shielded
<1> DEFINE code == task[t].needsHuman
           new == Failed(task[t], code)
           rows == [task EXCEPT ![t] = new]
<1>1. /\ task[t].status = "available" /\ task[t].auto = "needs_human"
      /\ UpdateAndSettle("confirm_terminal_failure", t, new)
  BY DEF ConfirmTerminalFailure
<1>2. task[t] \in TaskRow /\ task \in [Tasks -> TaskRow]
  BY SoundTask DEF ProtocolInv, TypeOK
<1>3. batch.status = "in_progress" /\ batch.status \notin Unstarted
  BY <1>1, OpenBatch DEF Unstarted
<1>4. code \in Codes /\ Honest(task[t].intent, code)
  BY <1>2, HonestCodes, CodesTyped
<1> HIDE DEF code
<1>5. new \in TaskRow /\ RowSound(new, batch, now) /\ Evolves(task[t], new)
  BY <1>1, <1>2, <1>3, <1>4, FailedTyped, FailedSound
<1>6. Explained("confirm_terminal_failure")
  BY <1>1 DEF Explained
<1> HIDE DEF new
<1>7. SoundStep
  BY <1>1, <1>3, <1>5, <1>6, UpdateSound
<1>8. CommitFrom("confirm_terminal_failure", task, SettledBatch(batch, rows), rows)
  BY <1>1 DEF UpdateAndSettle, Commit
<1>9. \A v \in Tasks : Held(v) => rows[v] = task[v]
  BY <1>1, <1>2 DEF Held
<1> HIDE DEF rows
<1> QED
  BY <1>7, <1>8, <1>9, CommitShields

LEMMA SettlementSound ==
  ASSUME ProtocolInv, TypeOK', DailySettlement
  PROVE  SoundStep /\ Shielded
<1> DEFINE open == {t \in Tasks : task[t].status \in {"available", "claimed"}}
           rows == [t \in Tasks |->
                      IF t \in open THEN Failed(task[t], SettlementCode(task[t]))
                      ELSE task[t]]
           same == [batch EXCEPT !.status = "in_progress"]
           b == SettledBatch(batch, rows)
<1>1. /\ SettlementDue
      /\ \A t \in open : ~Held(t)
      /\ CommitFrom("daily_settlement", task, SettledBatch(same, rows), rows)
      /\ UNCHANGED <<now, listed, reading>>
  BY DEF DailySettlement, Commit, Held
<1>2. batch \in BatchRow /\ BatchSound(batch, task)
  BY DEF ProtocolInv, TypeOK
<1>3. batch.status = "in_progress" /\ batch.status \notin Unstarted
  BY <1>1, <1>2 DEF SettlementDue, InProgress, BatchSound, Unstarted
<1>4. same = batch
  BY <1>2, <1>3 DEF BatchRow
<1>5. ASSUME NEW t \in Tasks
      PROVE  /\ rows[t] \in TaskRow /\ RowSound(rows[t], batch, now)
             /\ Evolves(task[t], rows[t])
             /\ Follows(task[t], rows[t]) \/ task[t].status = "available"
             /\ Held(t) => rows[t] = task[t]
  <2> DEFINE code == SettlementCode(task[t])
  <2>1. task[t] \in TaskRow /\ RowSound(task[t], batch, now)
    BY SoundTask
  <2>2. CASE t \notin open
    <3>1. rows[t] = task[t]
      BY <2>2
    <3> QED
      BY <2>1, <3>1, SoundTask
  <2>3. CASE t \in open
    <3>1. rows[t] = Failed(task[t], code)
      BY <2>3
    <3>2. task[t].status \in {"available", "claimed"} /\ ~Held(t)
      BY <1>1, <2>3
    <3>3. code \in Codes /\ Honest(task[t].intent, code)
      BY <2>1, HonestCodes, CodesTyped
    <3> HIDE DEF code, rows, open
    <3> QED
      BY <1>3, <2>1, <3>1, <3>2, <3>3, FailedTyped, FailedSound
  <2> QED
    BY <2>2, <2>3
<1>6. rows \in [Tasks -> TaskRow]
  BY <1>5
<1>7. CommitFrom("daily_settlement", task, b, rows)
  BY <1>1, <1>4
<1> HIDE DEF rows, open, same
<1>8. /\ BatchSound(b, rows) /\ b.mode = batch.mode
      /\ b.status \in {"in_progress", "completed"}
  BY <1>3, <1>5, <1>6, SettledSound
<1> HIDE DEF b
<1>9. \A t \in Tasks : RowSound(rows[t], b, now)
  BY <1>3, <1>5, <1>6, <1>8, RowsStaySound
<1>10. StatusFollows(batch.status, b.status) /\ batch.status \notin Closed
  BY <1>3, <1>8 DEF StatusFollows, Closed
<1>11. (\A t \in Tasks : Follows(task[t], rows[t])) \/ Explained("daily_settlement")
  BY <1>5 DEF Explained
<1>12. SoundStep
  BY <1>1, <1>5, <1>7, <1>8, <1>9, <1>10, <1>11, CommitSound
<1> QED
  BY <1>5, <1>7, <1>12, CommitShields

LEMMA FinalizeSound ==
  ASSUME ProtocolInv, TypeOK', FinalizeNeedsHuman
  PROVE  SoundStep /\ Shielded
<1> DEFINE open == {t \in Tasks : task[t].status \in {"available", "claimed"}}
           private(t) == [task[t] EXCEPT !.status = "claimed", !.auto = "running",
                                         !.generation = @ + 1, !.lease = now]
           claimed == [t \in Tasks |-> IF task[t].status # "available" THEN task[t]
                                       ELSE private(t)]
           rows == [t \in Tasks |-> IF t \in open
                                    THEN Failed(claimed[t], claimed[t].needsHuman)
                                    ELSE task[t]]
           b == SettledBatch(batch, rows)
<1>1. /\ RunnerBatch /\ open # {}
      /\ \A t \in open : FinalizableByHuman(task[t], now)
      /\ UNCHANGED <<now, listed, reading>>
      /\ IF \A t \in Tasks : RowAccepted(task[t], claimed[t])
         THEN CommitFrom("finalize", claimed, b, rows)
         ELSE UNCHANGED <<batch, task>> /\ refused' = "finalize"
  BY DEF FinalizeNeedsHuman
<1>2. /\ task \in [Tasks -> TaskRow] /\ batch \in BatchRow /\ now \in Nat
      /\ batch.mode = "browser_runner"
  BY <1>1 DEF ProtocolInv, TypeOK, RunnerBatch
<1>3. ASSUME NEW t \in open
      PROVE  /\ t \in Tasks /\ task[t].status \in {"available", "claimed"}
             /\ task[t].needsHuman # NoCode
             /\ task[t].auto \in {"needs_human", "running"} /\ ~Held(t)
  BY <1>1 DEF FinalizableByHuman, Held
<1>4. batch.status = "in_progress" /\ batch.status \notin Unstarted
  BY <1>1, <1>3, OpenBatch DEF Unstarted
<1>5. ASSUME NEW t \in Tasks, task[t].status = "available"
      PROVE  /\ claimed[t] = private(t) /\ t \in open
             /\ claimed[t].status = "claimed" /\ claimed[t].auto = "running"
             /\ claimed[t].lease = now
             /\ claimed[t].generation = task[t].generation + 1
             /\ claimed[t].claimedBy = task[t].claimedBy
             /\ claimed[t].session = task[t].session
             /\ claimed[t].intent = task[t].intent
             /\ claimed[t].confirmed = task[t].confirmed
             /\ claimed[t].observed = task[t].observed
             /\ claimed[t].attempts = task[t].attempts
             /\ claimed[t].needsHuman = task[t].needsHuman
             /\ claimed[t] \in TaskRow
  <2>1. "claimed" \in UnresolvedStatuses \cup TerminalStatuses /\ now \in Times
    BY <1>2 DEF UnresolvedStatuses, Times
  <2>2. claimed[t] = private(t) /\ t \in open
    BY <1>5
  <2> DEFINE old == task[t]
             new == private(t)
  <2>3. old \in TaskRow
    BY <1>2
  <2>4. /\ new.status = "claimed" /\ new.auto = "running" /\ new.lease = now
        /\ new.generation = old.generation + 1 /\ new.claimedBy = old.claimedBy
        /\ new.session = old.session /\ new.intent = old.intent
        /\ new.confirmed = old.confirmed /\ new.observed = old.observed
        /\ new.attempts = old.attempts /\ new.needsHuman = old.needsHuman
    BY <2>3 DEF TaskRow
  <2>5. new \in TaskRow
    <3>1. old.generation + 1 \in Nat
      BY <2>3 DEF TaskRow
    <3>2. new = [old EXCEPT !.status = "claimed", !.auto = "running",
                            !.generation = old.generation + 1, !.lease = now]
      OBVIOUS
    <3> HIDE DEF old, new
    <3> QED
      BY <2>1, <2>3, <3>1, <3>2 DEF TaskRow
  <2> HIDE DEF private, claimed, open
  <2> QED
    BY <2>2, <2>4, <2>5
<1>6. ASSUME NEW t \in Tasks
      PROVE  /\ claimed[t] \in TaskRow
             /\ task[t].status # "available" => claimed[t] = task[t]
  BY <1>2, <1>5
<1>7. ASSUME NEW t \in Tasks
      PROVE  rows[t] = IF t \in open THEN Failed(claimed[t], claimed[t].needsHuman)
                       ELSE task[t]
  OBVIOUS
<1>8. ASSUME NEW t \in Tasks
      PROVE  /\ rows[t] \in TaskRow
             /\ RowSound(rows[t], batch, now) /\ Evolves(task[t], rows[t])
             /\ Follows(claimed[t], rows[t])
             /\ Held(t) => rows[t] = task[t]
  <2> HIDE DEF rows, claimed, open
  <2>1. task[t] \in TaskRow /\ RowSound(task[t], batch, now)
    BY SoundTask
  <2>2. CASE t \notin open
    <3>1. rows[t] = task[t] /\ task[t].status # "available"
      BY <1>7, <2>2 DEF open
    <3> QED
      BY <1>6, <2>1, <3>1, SoundTask
  <2>3. CASE t \in open
    <3> DEFINE old == claimed[t]
               new == Failed(claimed[t], claimed[t].needsHuman)
    <3>1. rows[t] = new /\ old \in TaskRow
      BY <1>6, <1>7, <2>3
    <3>2. /\ old.status = "claimed"
          /\ old.session = task[t].session /\ old.intent = task[t].intent
          /\ old.confirmed = task[t].confirmed /\ old.observed = task[t].observed
          /\ old.attempts = task[t].attempts
          /\ old.needsHuman = task[t].needsHuman /\ old.auto # "null"
      BY <1>3, <1>5, <1>6, <2>3
    <3>3. /\ new.status = "failed" /\ new.auto = AutoTo(old, "completed")
          /\ new.lease = NoTime /\ new.needsHuman = NoCode
          /\ new.lastError = old.needsHuman
          /\ new.session = old.session /\ new.intent = old.intent
          /\ new.confirmed = old.confirmed /\ new.observed = old.observed
          /\ new.attempts = old.attempts
      BY <3>1 DEF Failed, TaskRow
    <3>4. new \in TaskRow
      <4>1. old.needsHuman \in Codes
        BY <3>1 DEF TaskRow
      <4> QED
        BY <3>1, <4>1, FailedTyped
    <3> HIDE DEF new, old
    <3>5. new.auto = AutoTo(task[t], "completed")
      BY <1>3, <2>3, <3>2, <3>3 DEF AutoTo
    <3>6. Honest(task[t].intent, new.lastError)
      BY <2>1, <3>2, <3>3 DEF RowSound
    <3>7. RowSound(new, batch, now) /\ Evolves(task[t], new)
      BY <1>3, <1>4, <2>3, <3>2, <3>3, <3>5, <3>6, FailedRowSound
    <3>8. "failed" \in NextStatuses(old.status)
      BY <3>2 DEF NextStatuses, TerminalStatuses
    <3>9. ~old.observed
      BY <1>3, <2>1, <2>3, <3>2 DEF RowSound
    <3>10. Follows(old, new)
      BY <3>2, <3>3, <3>8, <3>9 DEF Follows, TerminalStatuses
    <3> QED
      BY <1>3, <2>3, <3>1, <3>4, <3>7, <3>10 DEF old
  <2> QED
    BY <2>2, <2>3
<1>9. rows \in [Tasks -> TaskRow]
  BY <1>8
<1>10. CASE CommitFrom("finalize", claimed, b, rows)
  <2> HIDE DEF rows, claimed, open
  <2>1. /\ BatchSound(b, rows) /\ b.mode = batch.mode
        /\ b.status \in {"in_progress", "completed"}
    BY <1>4, <1>8, <1>9, SettledSound
  <2> HIDE DEF b
  <2>2. \A t \in Tasks : RowSound(rows[t], b, now)
    BY <1>4, <1>8, <1>9, <2>1, RowsStaySound
  <2>3. StatusFollows(batch.status, b.status) /\ batch.status \notin Closed
    BY <1>4, <2>1 DEF StatusFollows, Closed
  <2>4. SoundStep
    BY <1>1, <1>8, <1>10, <2>1, <2>2, <2>3, CommitSound
  <2> QED
    BY <1>8, <1>10, <2>4, CommitShields
<1>11. CASE /\ ~ \A t \in Tasks : RowAccepted(task[t], claimed[t])
            /\ UNCHANGED <<batch, task>> /\ refused' = "finalize"
  <2> HIDE DEF rows, claimed, open
  <2>1. ASSUME NEW t \in Tasks,
               task[t].status # "available" \/ task[t].claimedBy # Nobody
        PROVE  RowAccepted(task[t], claimed[t])
    <3>1. /\ task[t] \in TaskRow /\ RowSound(task[t], batch, now)
          /\ Follows(task[t], task[t])
      BY SoundTask
    <3>2. CASE task[t].status # "available"
      BY <1>6, <3>1, <3>2, SoundAccepted
    <3>3. CASE task[t].status = "available"
      <4> DEFINE old == task[t]
                 new == claimed[t]
      <4>1. /\ new.status = "claimed" /\ new.auto = "running" /\ new.lease # NoTime
            /\ new.claimedBy # Nobody
            /\ new.session = old.session /\ new.intent = old.intent
            /\ new.confirmed = old.confirmed /\ new.observed = old.observed
            /\ new.generation > old.generation
        <5>1. /\ new.status = "claimed" /\ new.auto = "running" /\ new.lease = now
              /\ new.claimedBy = old.claimedBy
              /\ new.session = old.session /\ new.intent = old.intent
              /\ new.confirmed = old.confirmed /\ new.observed = old.observed
              /\ new.generation = old.generation + 1
          BY <1>5, <3>3
        <5>2. old.generation \in Nat /\ old.claimedBy # Nobody
          BY <2>1, <3>1, <3>3 DEF TaskRow
        <5> QED
          BY <1>2, <5>1, <5>2 DEF NoTime
      <4>2. "claimed" \in NextStatuses(old.status) /\ ~old.observed
        BY <3>1, <3>3 DEF NextStatuses, RowSound
      <4>3. RowConsistent(new)
        BY <1>2, <3>1, <4>1 DEF RowConsistent, RowSound, Consistent,
           AutomationStateConsistent, RunnerSessionConsistent, LeaseStateConsistent,
           TerminalStateConsistent, ExecutionModeConsistent
      <4> QED
        BY <3>3, <4>1, <4>2, <4>3 DEF RowAccepted, TerminalStatuses
    <3> QED
      BY <3>2, <3>3
  <2>2. Explained("finalize")
    BY <1>11, <2>1 DEF Explained
  <2>3. listed' => batch.status \notin Unstarted
    BY <1>4
  <2>4. now' >= now /\ (reading' # {} => InWindow')
    BY <1>1, <1>2 DEF ProtocolInv, InWindow
  <2>5. SoundStep
    BY <1>11, <2>2, <2>3, <2>4, NothingCommitted
  <2> QED
    BY <1>11, <2>5 DEF Shielded
<1> QED
  BY <1>1, <1>10, <1>11

LEMMA RequeueSound ==
  ASSUME ProtocolInv, TypeOK', RecoveryOpen,
         NEW cohort \in SUBSET Tasks, NEW code,
         \A t \in cohort : UntouchedFailure(task[t], code),
         RequeueTasks(cohort)
  PROVE  SoundStep /\ Shielded
<1> DEFINE b == [batch EXCEPT !.automation = "running", !.settledAt = NoTime]
           rows == [t \in Tasks |-> IF t \in cohort THEN Requeued(task[t]) ELSE task[t]]
<1>1. /\ RunnerBatch /\ batch.status = "in_progress"
      /\ CommitFrom("requeue", task, b, rows) /\ UNCHANGED <<now, listed, reading>>
  BY DEF RecoveryOpen, RequeueTasks, Commit
<1>2. batch \in BatchRow /\ BatchSound(batch, task)
  BY DEF ProtocolInv, TypeOK
<1>3. Continued(b) /\ b.automation = "running"
  BY <1>1, <1>2 DEF Continued, BatchRow, Times
<1> HIDE DEF b
<1>4. ASSUME NEW t \in Tasks
      PROVE  /\ rows[t] \in TaskRow /\ RowSound(rows[t], batch, now)
             /\ Follows(task[t], rows[t]) /\ Evolves(task[t], rows[t])
             /\ Held(t) => rows[t] = task[t]
             /\ task[t].status \notin TerminalStatuses =>
                  rows[t].status \notin TerminalStatuses
  <2> DEFINE old == task[t]
             new == Requeued(task[t])
  <2>1. old \in TaskRow /\ RowSound(old, batch, now)
    BY SoundTask
  <2>2. CASE t \notin cohort
    <3>1. rows[t] = old
      BY <2>2
    <3> QED
      BY <2>1, <3>1, SoundTask
  <2>3. CASE t \in cohort
    <3>1. rows[t] = new
      BY <2>3
    <3>2. /\ old.status = "available" /\ old.auto = "needs_human"
          /\ ~old.intent /\ ~old.confirmed /\ ~old.observed
      BY <2>3 DEF UntouchedFailure
    <3>3. new \in TaskRow
      BY <2>1, RequeuedTyped
    <3>4. /\ new.status = "available" /\ new.auto = "queued" /\ new.attempts = 0
          /\ new.lease = NoTime /\ new.session = NoSession
          /\ new.needsHuman = NoCode /\ ~new.intent /\ ~new.confirmed
          /\ ~new.observed
      BY <2>1, <3>2 DEF Requeued, TaskRow
    <3> HIDE DEF new, rows
    <3>5. Consistent(new, batch.mode)
      BY <2>1, <3>2, <3>4 DEF RowSound, Consistent, AutomationStateConsistent,
         RunnerSessionConsistent, LeaseStateConsistent, TerminalStateConsistent
    <3>6. Honest(new.intent, new.needsHuman)
      BY <3>4 DEF Honest, NoCode
    <3>7. RowSound(new, batch, now)
      BY <1>1, <2>1, <3>2, <3>4, <3>5, <3>6
         DEF RowSound, Unstarted, MaxPreSubmitAttempts
    <3>8. "available" \in NextStatuses(old.status)
      BY <3>2 DEF NextStatuses
    <3>9. Follows(old, new) /\ Evolves(old, new)
      BY <3>2, <3>4, <3>8 DEF Follows, Evolves, TerminalStatuses
    <3> QED
      BY <3>1, <3>2, <3>3, <3>4, <3>7, <3>9 DEF TerminalStatuses, Held
  <2> QED
    BY <2>2, <2>3
<1>5. rows \in [Tasks -> TaskRow]
  BY <1>4
<1> HIDE DEF rows
<1>6. \E t \in Tasks : rows[t].status \notin TerminalStatuses
  BY <1>1, <1>2, <1>4 DEF BatchSound, Closed
<1>7. BatchSound(b, rows)
  BY <1>1, <1>3, <1>6, ContinuedSound DEF Covered
<1>8. b.mode = batch.mode /\ b.status = "in_progress"
  BY <1>3 DEF Continued
<1>9. \A t \in Tasks : RowSound(rows[t], b, now)
  BY <1>1, <1>4, <1>5, <1>8, RowsStaySound
<1>10. StatusFollows(batch.status, b.status) /\ batch.status \notin Closed
  BY <1>1, <1>8 DEF StatusFollows, Closed
<1>11. SoundStep
  BY <1>1, <1>4, <1>7, <1>8, <1>9, <1>10, CommitSound
<1> QED
  BY <1>1, <1>4, <1>11, CommitShields

LEMMA RecoverySound ==
  ASSUME ProtocolInv, TypeOK', RequeueTransportFailures \/ RequeueProfileBusyTasks
  PROVE  SoundStep /\ Shielded
<1>1. CASE RequeueTransportFailures
  <2>1. \A t \in Tasks : UntouchedFailure(task[t], SafeTransportRecoveryCode)
    BY <1>1 DEF RequeueTransportFailures, SafeTransportRecoveryCandidate
  <2>2. RecoveryOpen /\ RequeueTasks(Tasks)
    BY <1>1 DEF RequeueTransportFailures
  <2> QED
    BY <2>1, <2>2, RequeueSound
<1>2. CASE RequeueProfileBusyTasks
  <2>1. PICK holder \in Tasks :
          /\ \A t \in Tasks \ {holder} : DedicatedProfileBusyCandidate(task[t])
          /\ RequeueTasks(Tasks \ {holder})
    BY <1>2 DEF RequeueProfileBusyTasks
  <2> DEFINE cohort == Tasks \ {holder}
  <2>2. \A t \in cohort : UntouchedFailure(task[t], DedicatedProfileBusyCode)
    BY <2>1 DEF DedicatedProfileBusyCandidate
  <2>3. RecoveryOpen /\ cohort \in SUBSET Tasks /\ RequeueTasks(cohort)
    BY <1>2, <2>1 DEF RequeueProfileBusyTasks
  <2> HIDE DEF cohort
  <2> QED
    BY <2>2, <2>3, RequeueSound
<1> QED
  BY <1>1, <1>2

LEMMA ListExpiredSound ==
  ASSUME ProtocolInv, TypeOK', ListExpired
  PROVE  SoundStep /\ Shielded
<1>1. batch.status \notin Unstarted
  BY DEF ListExpired, ProtocolInv, BatchSound
<1>2. /\ UNCHANGED <<batch, task, now, reading>> /\ refused' = "none" /\ now \in Nat
  BY DEF ListExpired, ProtocolInv, TypeOK
<1>3. reading' # {} => InWindow'
  BY <1>2 DEF ProtocolInv, InWindow
<1>4. SoundStep
  BY <1>1, <1>2, <1>3, NothingCommitted
<1> QED
  BY <1>2, <1>4 DEF Shielded

\* The reconciler does not look at the batch's status again: in a closed batch
\* it finds no task, and the database accepts only what changes nothing.
LEMMA ReconcileExpiredSound ==
  ASSUME ProtocolInv, TypeOK', ReconcileExpired
  PROVE  SoundStep /\ Shielded
<1> DEFINE code(t) == ParkCode(task[t], "window_expired_unexecuted")
           overdue == {t \in Tasks :
                         /\ task[t].status \in {"available", "claimed"}
                         /\ task[t].auto \in {"queued", "running"}
                         /\ ~(task[t].status = "claimed" /\ LiveLease(task[t], now))}
           rows == [t \in Tasks |-> IF t \notin overdue THEN task[t]
                                    ELSE Parked(task[t], code(t))]
           b == Refreshed(batch, rows)
<1>1. /\ listed /\ UNCHANGED <<now, reading>> /\ listed' = FALSE
      /\ IF now < WindowEnd THEN CommitFrom("reconcile_expired", task, batch, task)
         ELSE CommitFrom("reconcile_expired", task, b, rows)
  BY DEF ReconcileExpired, Commit
<1>2. /\ task \in [Tasks -> TaskRow] /\ batch \in BatchRow /\ now \in Nat
      /\ BatchSound(batch, task) /\ batch.status \notin Unstarted
  BY <1>1 DEF ProtocolInv, TypeOK
<1>3. CASE batch.status \in Closed
  <2>1. overdue = {}
    BY <1>2, <1>3 DEF BatchSound, TerminalStatuses
  <2>2. rows = task
    BY <1>2, <2>1
  <2> HIDE DEF overdue, rows, b
  <2>3. UNCHANGED <<batch, task>>
          /\ (refused' = "none" \/ refused' = "reconcile_expired")
    BY <1>1, <1>3, <2>2 DEF CommitFrom, BatchAccepted, Closed
  <2>4. Explained("reconcile_expired")
    BY <1>3 DEF Explained
  <2>5. reading' # {} => InWindow'
    BY <1>1 DEF ProtocolInv, InWindow
  <2>6. SoundStep
    BY <1>1, <1>2, <2>3, <2>4, <2>5, NothingCommitted
  <2> QED
    BY <2>3, <2>6 DEF Shielded
<1>4. CASE /\ batch.status \notin Closed
           /\ now < WindowEnd \/ ~RunnerBatch
  <2>1. CommitFrom("reconcile_expired", task, batch, task)
    <3>1. CASE now < WindowEnd
      BY <1>1, <3>1
    <3>2. CASE ~RunnerBatch /\ ~(now < WindowEnd)
      <4>1. \A t \in Tasks : task[t].auto = "null"
        BY <1>2, <3>2, SoundTask DEF RowSound, Consistent, RunnerBatch, BatchRow
      <4>2. rows = task
        BY <1>2, <4>1
      <4>3. b = batch
        BY <3>2 DEF Refreshed
      <4> HIDE DEF rows, b
      <4> QED
        BY <1>1, <3>2, <4>2, <4>3
    <3> QED
      BY <1>4, <3>1, <3>2
  <2>2. SoundStep
    BY <1>1, <1>4, <2>1, IdleCommit
  <2> QED
    BY <2>1, <2>2, CommitShields
<1>5. CASE batch.status \notin Closed /\ RunnerBatch /\ ~(now < WindowEnd)
  <2>1. batch.status = "in_progress" /\ CommitFrom("reconcile_expired", task, b, rows)
    BY <1>1, <1>2, <1>5 DEF BatchRow, Unstarted, Closed
  <2>2. ASSUME NEW t \in Tasks
        PROVE  /\ rows[t] \in TaskRow /\ RowSound(rows[t], batch, now)
               /\ Follows(task[t], rows[t]) /\ Evolves(task[t], rows[t])
               /\ Held(t) => rows[t] = task[t]
               /\ task[t].status \notin TerminalStatuses =>
                    rows[t].status \notin TerminalStatuses
    <3>1. CASE t \notin overdue
      <4>1. rows[t] = task[t]
        BY <3>1
      <4> HIDE DEF rows, overdue
      <4> QED
        BY <4>1, SoundTask
    <3>2. CASE t \in overdue
      <4>1. rows[t] = Parked(task[t], code(t))
        BY <3>2
      <4>2. /\ task[t].status \in {"available", "claimed"} /\ task[t].auto # "null"
            /\ ~Held(t)
        BY <3>2 DEF Held
      <4>3. /\ code(t) \in Codes /\ code(t) # NoCode
            /\ Honest(task[t].intent, code(t)) /\ task[t] \in TaskRow
        BY HonestCodes, SoundTask
      <4> HIDE DEF code, rows, overdue
      <4>4. /\ Parked(task[t], code(t)) \in TaskRow
            /\ Parked(task[t], code(t)).status = "available"
        BY <4>3, ParkedTyped DEF Parked, TaskRow
      <4>5. /\ RowSound(Parked(task[t], code(t)), batch, now)
            /\ Follows(task[t], Parked(task[t], code(t)))
            /\ Evolves(task[t], Parked(task[t], code(t)))
        BY <1>2, <4>2, <4>3, ParkedSound
      <4> QED
        BY <4>1, <4>2, <4>4, <4>5 DEF TerminalStatuses
    <3> QED
      BY <3>1, <3>2
  <2>3. rows \in [Tasks -> TaskRow]
    BY <2>2
  <2> HIDE DEF rows, overdue
  <2>4. \E t \in Tasks : rows[t].status \notin TerminalStatuses
    BY <1>2, <1>5, <2>2 DEF BatchSound
  <2>5. BatchSound(b, rows) /\ b.mode = batch.mode /\ b.status = "in_progress"
    BY <1>5, <2>1, <2>4, RefreshedSound
  <2> HIDE DEF b
  <2>6. \A t \in Tasks : RowSound(rows[t], b, now)
    BY <2>1, <2>2, <2>3, <2>5, RowsStaySound
  <2>7. StatusFollows(batch.status, b.status)
    BY <2>1, <2>5 DEF StatusFollows
  <2>8. SoundStep
    BY <1>1, <1>5, <2>1, <2>2, <2>5, <2>6, <2>7, CommitSound
  <2> QED
    BY <2>1, <2>2, <2>8, CommitShields
<1> QED
  BY <1>3, <1>4, <1>5

LEMMA BatchStepSound ==
  ASSUME ProtocolInv, TypeOK', BatchStep
  PROVE  SoundStep /\ (RunnerBatch => Shielded)
BY FreezeSound, StartSound, CancelSound, TerminalFailureSound, FinalizeSound,
   RecoverySound, ListExpiredSound, ReconcileExpiredSound, SettlementSound
   DEF BatchStep

-----------------------------------------------------------------------------
(* The theorems *)

LEMMA NextSound ==
  ASSUME ProtocolInv, Next
  PROVE  SoundStep
<1>1. TypeOK'
  BY TypeOKInductive DEF ProtocolInv
<1>2. ASSUME NEW r \in Runners, ClaimTask(r) PROVE SoundStep
  BY <1>1, <1>2, ClaimTaskSound
<1>3. ASSUME NEW r \in Runners, NEW t \in Tasks, RunnerStep(r, t) PROVE SoundStep
  BY <1>1, <1>3, RunnerStepSound
<1>4. ASSUME NEW u \in Users, NEW t \in Tasks, PortalStep(u, t) PROVE SoundStep
  BY <1>1, <1>4, PortalStepSound
<1>5. CASE BatchStep
  BY <1>1, <1>5, BatchStepSound
<1>6. ASSUME NEW u \in Users, ReadHumanQueue(u) \/ FindNothing(u) PROVE SoundStep
  <2>1. /\ UNCHANGED <<batch, task, now, listed>> /\ refused' = "none"
        /\ InWindow \/ reading' \subseteq reading
    BY <1>6 DEF ReadHumanQueue, FindNothing
  <2>2. /\ listed' => batch.status \notin Unstarted
        /\ reading' # {} => InWindow'
        /\ now \in Nat
    BY <2>1 DEF ProtocolInv, InWindow, TypeOK
  <2> QED
    BY <1>1, <2>1, <2>2, NothingCommitted
<1>7. CASE Tick
  <2>1. /\ UNCHANGED <<batch, task, listed>> /\ reading' = {} /\ refused' = "none"
        /\ now \in Nat /\ now' = now + 1
    BY <1>7 DEF Tick, ProtocolInv, TypeOK
  <2>2. listed' => batch.status \notin Unstarted
    BY <2>1 DEF ProtocolInv
  <2>3. now' >= now
    BY <2>1
  <2> QED
    BY <1>1, <2>1, <2>2, <2>3, NothingCommitted
<1> QED
  BY <1>2, <1>3, <1>4, <1>5, <1>6, <1>7 DEF Next

LEMMA ProtocolInvInductive ==
  ASSUME ProtocolInv, [Next]_vars
  PROVE  ProtocolInv'
<1>1. CASE Next
  BY <1>1, NextSound DEF SoundStep
<1>2. CASE UNCHANGED vars
  <2>1. ASSUME NEW t \in Tasks PROVE RowSound(task'[t], batch', now')
    BY <1>2, SoundTask DEF vars
  <2>2. BatchSound(batch', task') /\ (reading' # {} => InWindow')
    BY <1>2 DEF ProtocolInv, InWindow, vars
  <2>3. TypeOK' /\ ProtocolNeverRefused' /\ (listed' => batch'.status \notin Unstarted)
    BY <1>2 DEF ProtocolInv, TypeOK, ProtocolNeverRefused, vars
  <2> QED
    BY <2>1, <2>2, <2>3 DEF ProtocolInv
<1> QED
  BY <1>1, <1>2

LEMMA InitSound ==
  ASSUME Init
  PROVE  ProtocolInv
<1>1. TypeOK
  BY InitTyped
<1>2. ASSUME NEW t \in Tasks
      PROVE  RowSound(task[t], batch, now) /\ task[t].status \notin TerminalStatuses
  <2>1. /\ batch.status = "draft" /\ batch.mode \in {"browser_runner", "manual"}
        /\ task[t].status = "planned"
        /\ task[t].auto = IF batch.mode = "manual" THEN "null" ELSE "queued"
        /\ task[t].attempts = 0 /\ task[t].lease = NoTime
        /\ task[t].session = NoSession /\ ~task[t].intent /\ ~task[t].confirmed
        /\ ~task[t].observed /\ task[t].needsHuman = NoCode
    BY ModesAssumption DEF Init
  <2>2. Consistent(task[t], batch.mode)
    BY <2>1 DEF Consistent, AutomationStateConsistent, RunnerSessionConsistent,
                LeaseStateConsistent, TerminalStateConsistent
  <2>3. Honest(task[t].intent, task[t].needsHuman)
    BY <2>1 DEF Honest, NoCode
  <2> QED
    BY <2>1, <2>2, <2>3
       DEF RowSound, Unstarted, MaxPreSubmitAttempts, TerminalStatuses
<1>3. BatchSound(batch, task)
  <2>1. /\ batch.status = "draft"
        /\ batch.startedAt = NoTime /\ batch.settledAt = NoTime
        /\ batch.automation = IF batch.mode = "manual" THEN "null" ELSE "not_started"
    BY DEF Init
  <2>2. \E t \in Tasks : task[t].status \notin TerminalStatuses
    BY <1>2, TasksAssumption
  <2> QED
    BY <2>1, <2>2 DEF BatchSound, Unstarted, Closed
<1>4. ProtocolNeverRefused /\ ~listed /\ reading = {}
  BY DEF Init, ProtocolNeverRefused
<1> QED
  BY <1>1, <1>2, <1>3, <1>4 DEF ProtocolInv

\* The invariant, of every behaviour of the protocol.
THEOREM ProtocolSound == Spec => []ProtocolInv
<1>1. Init => ProtocolInv
  BY InitSound
<1>2. ProtocolInv /\ [Next]_vars => ProtocolInv'
  BY ProtocolInvInductive
<1> QED
  BY <1>1, <1>2, PTL DEF Spec

\* Whatever devices, portal users, operators and the clock do, the database
\* accepts what the protocol writes: only the four batch-level transactions that
\* close tasks without a claim, or a batch that is already closed, roll back.
THEOREM NeverRefused == Spec => []ProtocolNeverRefused
<1>1. ProtocolInv => ProtocolNeverRefused
  BY DEF ProtocolInv
<1> QED
  BY <1>1, ProtocolSound, PTL

\* A batch is closed exactly when no task of it is open: no last completion is
\* lost between two transactions.
THEOREM ClosedWithLastTask == Spec => []CompletedWithLastTask
<1>1. ASSUME ProtocolInv PROVE CompletedWithLastTask
  <2>1. Unresolved(task) = {} <=> \A t \in Tasks : task[t].status \in TerminalStatuses
    BY <1>1, SoundTask DEF Unresolved, TaskRow, UnresolvedStatuses, TerminalStatuses
  <2> QED
    BY <1>1, <2>1 DEF ProtocolInv, BatchSound, CompletedWithLastTask, Closed
<1> QED
  BY <1>1, ProtocolSound, PTL

\* A queued task of a batch in progress is one the next poll can claim: the
\* batch's status is never stale about it, and it has attempts left.
THEOREM QueuedCanBeClaimed == Spec => []QueuedIsClaimable
<1>1. ASSUME ProtocolInv PROVE QueuedIsClaimable
  <2>1. ASSUME batch.status = "in_progress", NEW t \in Queued
        PROVE  batch.automation = "running" /\ t \notin Exhausted
    <3>1. t \in Tasks /\ task[t].auto = "queued"
      BY <2>1 DEF Queued
    <3>2. RowSound(task[t], batch, now) /\ task[t] \in TaskRow
      BY <1>1, <3>1, SoundTask
    <3>3. task[t].attempts < MaxPreSubmitAttempts /\ task[t].attempts \in Nat
      BY <3>1, <3>2 DEF RowSound, TaskRow
    <3>4. t \notin Exhausted
      BY <3>3 DEF Exhausted, MaxPreSubmitAttempts
    <3> QED
      BY <1>1, <2>1, <3>1, <3>4 DEF ProtocolInv, BatchSound
  <2> QED
    BY <2>1 DEF QueuedIsClaimable
<1> QED
  BY <1>1, ProtocolSound, PTL

\* What may have been sent is never reported as not executed, and what was never
\* sent is never reported as unknown, by whichever transaction failed the task.
THEOREM FailuresHonest == Spec => []HonestFailureCode
<1>1. ASSUME ProtocolInv PROVE HonestFailureCode
  BY <1>1, SoundTask DEF HonestFailureCode, RowSound, Honest, UnsentCodes
<1> QED
  BY <1>1, ProtocolSound, PTL

\* Submissions, confirmations and successes lie inside the frozen window of a
\* batch in progress: every lease ends with the window, and the work needs a lease.
THEOREM WorkInsideWindow == Spec => WorkOnlyInsideWindow
<1>1. ProtocolInv /\ [Next]_vars =>
        [\A t \in Tasks :
           \/ ~task[t].intent /\ task'[t].intent
           \/ ~task[t].confirmed /\ task'[t].confirmed
           \/ ~task[t].observed /\ task'[t].observed
           => InWindow /\ batch.status = "in_progress"]_vars
  BY NextSound DEF SoundStep, Evolves
<1> QED
  BY <1>1, ProtocolSound, PTL DEF Spec, WorkOnlyInsideWindow

\* In a Browser Runner batch neither a batch-level transaction nor another claim
\* touches a task whose lease is live.
THEOREM LeasesShielded == Spec => LiveLeaseShield
<1>1. ProtocolInv /\ [Next]_vars =>
        [RunnerBatch /\ (BatchStep \/ \E r \in Runners : ClaimTask(r)) =>
           \A t \in Tasks : task[t].status = "claimed" /\ LiveLease(task[t], now)
                              => task'[t] = task[t]]_vars
  <2>1. ASSUME ProtocolInv, [Next]_vars, RunnerBatch,
               BatchStep \/ \E r \in Runners : ClaimTask(r)
        PROVE  Shielded
    <3>1. TypeOK'
      BY <2>1, TypeOKInductive DEF ProtocolInv
    <3> QED
      BY <2>1, <3>1, BatchStepSound, ClaimTaskSound
  <2> QED
    BY <2>1 DEF Shielded, Held
<1> QED
  BY <1>1, ProtocolSound, PTL DEF Spec, LiveLeaseShield

\* The settlement, the confirmation of a failure and the finalization roll back
\* only over a parked task nobody holds, the reconciler only in a closed batch.
THEOREM RollbacksExplained == Spec => RefusalsExplained
<1>1. ProtocolInv /\ [Next]_vars =>
        [/\ refused' \in {"daily_settlement", "confirm_terminal_failure"} =>
              \E t \in Tasks : task[t].status = "available"
         /\ refused' = "finalize" =>
              \E t \in Tasks :
                task[t].status = "available" /\ task[t].claimedBy = Nobody
         /\ refused' = "reconcile_expired" =>
              batch.status \in {"completed", "cancelled"}]_vars
  BY NextSound DEF SoundStep, Explained, Closed
<1> QED
  BY <1>1, ProtocolSound, PTL DEF Spec, RefusalsExplained

-----------------------------------------------------------------------------
(* A row from one step to the next, for the modules built on the protocol *)

\* A claim has a generation within the bound, a task that is observed is over,
\* and one that succeeded is observed.
RowFacts ==
  \A t \in Tasks :
    /\ task[t].status = "claimed" => task[t].generation \in 1..MaxGeneration
    /\ task[t].observed => task[t].status \in TerminalStatuses
    /\ task[t].status = "succeeded" => task[t].observed

RowsInv == CustodyInv /\ RowFacts

\* The claim goes on: only its holder adds to it, a device the submission, and
\* only a live lease is extended.
SameClaim(old, new) ==
  /\ new.generation = old.generation
  /\ new.claimedBy = old.claimedBy
  /\ old.intent => new.intent
  /\ old.confirmed => new.confirmed
  /\ new.claimedBy \in Users => new.intent = old.intent
  /\ new.lease = old.lease \/ LiveLease(old, now)

\* What a transaction writes, whether or not the database accepts it.
Written(old, new) ==
  /\ new.generation \in Nat /\ new.generation >= old.generation
  /\ new.status = "claimed" =>
       \/ new.generation > old.generation /\ new.generation <= MaxGeneration
       \/ SameClaim(old, new)

Continues(old, new) ==
  /\ old.status \in TerminalStatuses => new = old
  /\ new.generation >= old.generation
  /\ new.status = "claimed" =>
       \/ new.generation > old.generation
       \/ old.status = "claimed" /\ SameClaim(old, new)

RowsStep ==
  /\ RowFacts'
  /\ \A t \in Tasks : Continues(task[t], task'[t])

LEMMA RowTyped ==
  ASSUME RowsInv, NEW t \in Tasks
  PROVE  task[t] \in TaskRow /\ task[t].generation \in Nat
BY DEF RowsInv, CustodyInv, TypeOK, TaskRow

LEMMA UnchangedContinues ==
  ASSUME RowsInv, UNCHANGED task
  PROVE  RowsStep
BY RowTyped DEF RowsStep, RowsInv, RowFacts, Continues, SameClaim

\* The database makes a written row a continued one: it keeps terminal rows, and
\* lets a claim begin only with a new generation.
LEMMA CommitContinues ==
  ASSUME RowsInv, NEW op, NEW from, NEW b, NEW rows,
         CommitFrom(op, from, b, rows),
         \A t \in Tasks : Written(task[t], rows[t]),
         \A t \in Tasks :
           \/ from[t] = task[t]
           \/ task[t].status = "available" /\ rows[t].status # "claimed"
  PROVE  RowsStep
<1>1. CASE UNCHANGED task
  BY <1>1, UnchangedContinues
<1>2. CASE task' = rows /\ \A t \in Tasks : RowAccepted(from[t], rows[t])
  <2> SUFFICES ASSUME NEW t \in Tasks
               PROVE  /\ Continues(task[t], rows[t])
                      /\ rows[t].status = "claimed" =>
                           rows[t].generation \in 1..MaxGeneration
                      /\ rows[t].observed => rows[t].status \in TerminalStatuses
                      /\ rows[t].status = "succeeded" => rows[t].observed
    BY <1>2 DEF RowsStep, RowFacts
  <2>1. RowAccepted(from[t], rows[t]) /\ Written(task[t], rows[t])
    BY <1>2
  <2>2. task[t].generation \in Nat
    BY RowTyped
  <2>3. /\ rows[t].observed => rows[t].status \in TerminalStatuses
        /\ rows[t].status = "succeeded" => rows[t].observed
    BY <2>1 DEF RowAccepted, RowConsistent, TerminalStateConsistent,
                TerminalStatuses
  <2>4. CASE from[t] = task[t]
    <3>1. /\ task[t].status \in TerminalStatuses => rows[t] = task[t]
          /\ rows[t].status = "claimed" =>
               task[t].status = "claimed" \/ rows[t].generation > task[t].generation
      BY <2>1, <2>4 DEF RowAccepted
    <3>2. task[t].status = "claimed" => task[t].generation \in 1..MaxGeneration
      BY DEF RowsInv, RowFacts
    <3>3. Continues(task[t], rows[t])
      BY <2>1, <2>2, <3>1 DEF Written, Continues, SameClaim
    <3>4. rows[t].status = "claimed" => rows[t].generation \in 1..MaxGeneration
      BY <2>1, <2>2, <3>1, <3>2, TimeAssumption DEF Written, SameClaim
    <3> QED
      BY <2>3, <3>3, <3>4
  <2>5. CASE task[t].status = "available" /\ rows[t].status # "claimed"
    BY <2>1, <2>3, <2>5 DEF Written, Continues, TerminalStatuses
  <2> QED
    BY <2>3, <2>4, <2>5
<1> QED
  BY <1>1, <1>2 DEF CommitFrom

LEMMA UpdateContinues ==
  ASSUME RowsInv, NEW op, NEW t \in Tasks, NEW row, Written(task[t], row),
         \/ UpdateAndRefresh(op, t, row)
         \/ UpdateAndSettle(op, t, row)
         \/ UpdateOnly(op, t, row)
  PROVE  RowsStep
<1> DEFINE rows == [task EXCEPT ![t] = row]
<1>1. \A u \in Tasks : Written(task[u], rows[u])
  <2>1. \A u \in Tasks : Written(task[u], task[u])
    BY RowTyped DEF Written, SameClaim
  <2>2. task \in [Tasks -> TaskRow]
    BY DEF RowsInv, CustodyInv, TypeOK
  <2> QED
    BY <2>1, <2>2
<1>2. \E b : CommitFrom(op, task, b, rows)
  BY DEF UpdateAndRefresh, UpdateAndSettle, UpdateOnly, Commit
<1> HIDE DEF rows
<1> QED
  BY <1>1, <1>2, CommitContinues

\* Parking, failing, requeueing and completing end a claim; leasing begins one.
LEMMA HelpersWrite ==
  ASSUME RowsInv, NEW t \in Tasks, NEW code, NEW c
  PROVE  /\ Written(task[t], task[t])
         /\ Written(task[t], Parked(task[t], code))
         /\ Written(task[t], Failed(task[t], code))
         /\ Written(task[t], Requeued(task[t]))
         /\ Written(task[t], Succeeded(task[t]))
         /\ task[t].generation < MaxGeneration =>
              Written(task[t], Leased(task[t], c))
<1>1. task[t] \in TaskRow /\ task[t].generation \in Nat
  BY RowTyped
<1>2. Written(task[t], task[t])
  BY <1>1 DEF Written, SameClaim
<1>3. Written(task[t], Parked(task[t], code))
  BY <1>1 DEF Written, Parked, TaskRow
<1>4. Written(task[t], Failed(task[t], code))
  BY <1>1 DEF Written, Failed, TaskRow
<1>5. Written(task[t], Requeued(task[t]))
  BY <1>1 DEF Written, Requeued, TaskRow
<1>6. Written(task[t], Succeeded(task[t]))
  BY <1>1 DEF Written, Succeeded, TaskRow
<1>7. task[t].generation < MaxGeneration => Written(task[t], Leased(task[t], c))
  BY <1>1, TimeAssumption DEF Written, Leased, TaskRow
<1> QED
  BY <1>2, <1>3, <1>4, <1>5, <1>6, <1>7

LEMMA ClaimTaskContinues ==
  ASSUME RowsInv, NEW r \in Runners, ClaimTask(r)
  PROVE  RowsStep
<1>1. PICK parked : (\E t \in Tasks : Claim(r, t, parked)) \/ ClaimNothing(parked)
  BY DEF ClaimTask
<1> DEFINE rows == ParkedCandidates(parked)
<1>2. \A t \in Tasks : Written(task[t], rows[t])
  BY HelpersWrite DEF ParkedCandidates
<1>3. CASE \E t \in Tasks : Claim(r, t, parked)
  <2>1. PICK t \in Tasks : Claim(r, t, parked)
    BY <1>3
  <2> DEFINE row == [Leased(rows[t], r) EXCEPT !.attempts = @ + 1]
  <2>2. rows[t] = task[t] \/ \E code : rows[t] = Parked(task[t], code)
    BY DEF ParkedCandidates
  <2>3. rows[t].generation = task[t].generation
    BY <2>2, RowTyped DEF Parked, TaskRow
  <2>4. row.generation = rows[t].generation + 1
    BY <2>2, RowTyped DEF Leased, Parked, TaskRow
  <2>5. Written(task[t], row)
    BY <2>1, <2>3, <2>4, RowTyped, TimeAssumption DEF Claim, Written
  <2>6. \A u \in Tasks : Written(task[u], [rows EXCEPT ![t] = row][u])
    BY <1>2, <2>5 DEF ParkedCandidates
  <2>7. \E b : CommitFrom("claim", task, b, [rows EXCEPT ![t] = row])
    BY <2>1 DEF Claim, Commit
  <2> HIDE DEF rows, row
  <2> QED
    BY <2>6, <2>7, CommitContinues
<1>4. CASE ClaimNothing(parked)
  <2>1. CommitFrom("claim", task, Refreshed(batch, rows), rows)
    BY <1>4 DEF ClaimNothing, Commit
  <2> HIDE DEF rows
  <2> QED
    BY <1>2, <2>1, CommitContinues
<1> QED
  BY <1>1, <1>3, <1>4

LEMMA HolderContinues ==
  ASSUME RowsInv, NEW t \in Tasks, NEW c, NEW g,
         Heartbeat(t, c, g) \/ Complete(t, c, g)
  PROVE  RowsStep
<1>1. CASE Heartbeat(t, c, g)
  <2>1. Written(task[t], [task[t] EXCEPT !.lease = LeaseUntil])
    BY <1>1, RowTyped DEF Heartbeat, ActiveLease, Written, SameClaim, TaskRow
  <2> QED
    BY <1>1, <2>1, UpdateContinues DEF Heartbeat
<1>2. CASE Complete(t, c, g)
  BY <1>2, HelpersWrite, UpdateContinues DEF Complete
<1> QED
  BY <1>1, <1>2

LEMMA RunnerStepContinues ==
  ASSUME RowsInv, NEW r \in Runners, NEW t \in Tasks, RunnerStep(r, t)
  PROVE  RowsStep
<1>1. task[t] \in TaskRow /\ task \in [Tasks -> TaskRow]
  BY DEF RowsInv, CustodyInv, TypeOK
<1>2. CASE Resume(r, t)
  <2> DEFINE row == [Leased(task[t], r) EXCEPT
                       !.needsHuman = IF task[t].intent THEN @ ELSE NoCode]
             rows == [task EXCEPT ![t] = row]
  <2>1. row.generation = task[t].generation + 1
    BY <1>1 DEF Leased, TaskRow
  <2>2. Written(task[t], row)
    BY <1>2, <2>1, RowTyped, TimeAssumption DEF Resume, Written
  <2> HIDE DEF row
  <2>3. \A u \in Tasks : Written(task[u], rows[u])
    BY <1>1, <2>2, HelpersWrite
  <2>4. CommitFrom("resume", task, [batch EXCEPT !.automation = "running"], rows)
    BY <1>2 DEF Resume, Commit, row
  <2> HIDE DEF rows
  <2> QED
    BY <2>3, <2>4, CommitContinues
<1>3. CASE ReconcileTask(r, t)
  BY <1>3, HelpersWrite, UpdateContinues DEF ReconcileTask
<1>4. ASSUME NEW g \in 1..MaxGeneration, NEW s \in Sessions,
             RecordSubmitIntent(t, r, g, s) \/ ConfirmSubmitted(t, r, g, s)
      PROVE  RowsStep
  <2>1. task[t].claimedBy \notin Users
    BY <1>4, ClientsAssumption
       DEF RecordSubmitIntent, ConfirmSubmitted, ActiveRunnerLease, ActiveLease
  <2>2. Written(task[t], [task[t] EXCEPT !.session = s, !.intent = TRUE])
    <3> DEFINE row == [task[t] EXCEPT !.session = s, !.intent = TRUE]
    <3>1. /\ row.intent
          /\ row.generation = task[t].generation /\ row.lease = task[t].lease
          /\ row.claimedBy = task[t].claimedBy
      BY RowTyped DEF TaskRow
    <3>2. task[t].confirmed => row.confirmed
      BY RowTyped DEF TaskRow
    <3> HIDE DEF row
    <3>3. SameClaim(task[t], row)
      BY <2>1, <3>1, <3>2, Zenon DEF SameClaim
    <3>4. Written(task[t], row)
      BY <3>1, <3>3, RowTyped DEF Written
    <3> QED
      BY <3>4 DEF row
  <2>3. Written(task[t], [task[t] EXCEPT !.confirmed = TRUE])
    BY <2>1, RowTyped DEF Written, SameClaim, TaskRow
  <2> QED
    BY <1>4, <2>2, <2>3, UpdateContinues DEF RecordSubmitIntent, ConfirmSubmitted
<1>5. ASSUME NEW g \in 1..MaxGeneration, NEW stage, NEW code \in FailureCodes,
             RecordFailure(t, r, g, stage, code)
      PROVE  RowsStep
  <2> DEFINE requeued == [task[t] EXCEPT !.status = "available", !.auto = "queued",
                                         !.lease = NoTime, !.lastError = code]
  <2>1. Written(task[t], requeued)
    BY RowTyped DEF Written, TaskRow
  <2>2. \/ UpdateAndRefresh("failure", t, requeued)
        \/ UpdateAndRefresh("failure", t, Parked(task[t], code))
    BY <1>5 DEF RecordFailure
  <2> HIDE DEF requeued
  <2> QED
    BY <2>1, <2>2, HelpersWrite, UpdateContinues
<1>6. ASSUME NEW g \in 1..MaxGeneration, Heartbeat(t, r, g) \/ Complete(t, r, g)
      PROVE  RowsStep
  BY <1>6, HolderContinues
<1> QED
  BY <1>2, <1>3, <1>4, <1>5, <1>6 DEF RunnerStep

LEMMA PortalStepContinues ==
  ASSUME RowsInv, NEW u \in Users, NEW t \in Tasks, PortalStep(u, t)
  PROVE  RowsStep
<1>1. task[t] \in TaskRow /\ task \in [Tasks -> TaskRow]
  BY DEF RowsInv, CustodyInv, TypeOK
<1>2. CASE ClaimAvailable(u, t) \/ ClaimNeedsHuman(u, t)
  <2> DEFINE rows == [task EXCEPT ![t] = Leased(task[t], u)]
  <2>1. PortalClaim(u, t)
    BY <1>2 DEF ClaimAvailable, ClaimNeedsHuman
  <2>2. \A v \in Tasks : Written(task[v], rows[v])
    BY <1>1, <2>1, HelpersWrite DEF PortalClaim
  <2>3. \E b : CommitFrom("portal_claim", task, b, rows)
    BY <2>1 DEF PortalClaim, Commit
  <2> HIDE DEF rows
  <2> QED
    BY <2>2, <2>3, CommitContinues
<1>3. ASSUME NEW g \in 1..MaxGeneration, Heartbeat(t, u, g) \/ Complete(t, u, g)
      PROVE  RowsStep
  BY <1>3, HolderContinues
<1>4. ASSUME NEW g \in 1..MaxGeneration, Release(t, u, g)
      PROVE  RowsStep
  <2> DEFINE row == [task[t] EXCEPT !.status = "available",
                                    !.auto = AutoTo(task[t], "needs_human"),
                                    !.lease = NoTime]
  <2>1. Written(task[t], row)
    BY RowTyped DEF Written, TaskRow
  <2>2. UpdateOnly("release", t, row)
    BY <1>4 DEF Release
  <2> HIDE DEF row
  <2> QED
    BY <2>1, <2>2, UpdateContinues
<1>5. ASSUME NEW g \in 1..MaxGeneration, NEW code \in FailureCodes \cup {NoCode},
             PortalFail(t, u, g, code)
      PROVE  RowsStep
  BY <1>5, HelpersWrite, UpdateContinues DEF PortalFail
<1> QED
  BY <1>2, <1>3, <1>4, <1>5 DEF PortalStep

LEMMA BatchStepContinues ==
  ASSUME RowsInv, BatchStep
  PROVE  RowsStep
<1>1. CASE Freeze
  <2> DEFINE rows == [t \in Tasks |-> [task[t] EXCEPT !.status = "available"]]
  <2>1. \A t \in Tasks : Written(task[t], rows[t])
    BY RowTyped DEF Written, TaskRow
  <2>2. \E b : CommitFrom("freeze", task, b, rows)
    BY <1>1 DEF Freeze, Commit
  <2> HIDE DEF rows
  <2> QED
    BY <2>1, <2>2, CommitContinues
<1>2. CASE StartAutomation
  <2>1. \E b : CommitFrom("start", task, b, task)
    BY <1>2 DEF StartAutomation, Commit
  <2> QED
    BY <2>1, HelpersWrite, CommitContinues
<1>3. CASE Cancel
  <2> DEFINE rows == [t \in Tasks |->
                        IF task[t].status \in UnresolvedStatuses
                        THEN [task[t] EXCEPT !.status = "cancelled",
                                             !.auto = AutoTo(task[t], "completed"),
                                             !.lease = NoTime]
                        ELSE task[t]]
  <2>1. ASSUME NEW t \in Tasks
        PROVE  Written(task[t], rows[t])
    <3>1. Written(task[t], [task[t] EXCEPT !.status = "cancelled",
                                           !.auto = AutoTo(task[t], "completed"),
                                           !.lease = NoTime])
      BY RowTyped DEF Written, TaskRow
    <3> QED
      BY <3>1, HelpersWrite
  <2>2. \E b : CommitFrom("cancel", task, b, rows)
    BY <1>3 DEF Cancel, Commit
  <2> HIDE DEF rows
  <2> QED
    BY <2>1, <2>2, CommitContinues
<1>4. CASE \E t \in Tasks : ConfirmTerminalFailure(t)
  BY <1>4, HelpersWrite, UpdateContinues DEF ConfirmTerminalFailure
<1>5. CASE FinalizeNeedsHuman
  <2> DEFINE open == {t \in Tasks : task[t].status \in {"available", "claimed"}}
             claimed == [t \in Tasks |->
                           IF task[t].status # "available" THEN task[t]
                           ELSE [task[t] EXCEPT !.status = "claimed",
                                                !.auto = "running",
                                                !.generation = @ + 1,
                                                !.lease = now]]
             rows == [t \in Tasks |->
                        IF t \in open THEN Failed(claimed[t], claimed[t].needsHuman)
                        ELSE task[t]]
  <2>1. ASSUME NEW t \in Tasks
        PROVE  /\ Written(task[t], rows[t])
               /\ \/ claimed[t] = task[t]
                  \/ task[t].status = "available" /\ rows[t].status # "claimed"
    <3> DEFINE held == [task[t] EXCEPT !.status = "claimed", !.auto = "running",
                                       !.generation = @ + 1, !.lease = now]
    <3>1. /\ Written(task[t], Failed(held, held.needsHuman))
          /\ Failed(held, held.needsHuman).status # "claimed"
      BY RowTyped DEF Written, Failed, TaskRow
    <3>2. CASE task[t].status # "available"
      BY <3>2, HelpersWrite
    <3>3. CASE task[t].status = "available"
      <4>1. claimed[t] = held /\ t \in open
        BY <3>3
      <4>2. rows[t] = Failed(held, held.needsHuman)
        BY <4>1
      <4> HIDE DEF claimed, held, rows
      <4> QED
        BY <3>1, <3>3, <4>2
    <3> QED
      BY <3>2, <3>3
  <2>2. \/ UNCHANGED task
        \/ CommitFrom("finalize", claimed, SettledBatch(batch, rows), rows)
    BY <1>5 DEF FinalizeNeedsHuman
  <2> HIDE DEF claimed, rows
  <2> QED
    BY <2>1, <2>2, CommitContinues, UnchangedContinues
<1>6. CASE RequeueTransportFailures \/ RequeueProfileBusyTasks
  <2>1. PICK cohort : RequeueTasks(cohort)
    BY <1>6 DEF RequeueTransportFailures, RequeueProfileBusyTasks
  <2> DEFINE rows == [t \in Tasks |->
                        IF t \in cohort THEN Requeued(task[t]) ELSE task[t]]
  <2>2. \A t \in Tasks : Written(task[t], rows[t])
    BY HelpersWrite
  <2>3. \E b : CommitFrom("requeue", task, b, rows)
    BY <2>1 DEF RequeueTasks, Commit
  <2> HIDE DEF rows
  <2> QED
    BY <2>2, <2>3, CommitContinues
<1>7. CASE ListExpired
  BY <1>7, UnchangedContinues DEF ListExpired
<1>8. CASE ReconcileExpired
  <2>1. PICK b, rows : /\ CommitFrom("reconcile_expired", task, b, rows)
                       /\ \A t \in Tasks :
                            \/ rows[t] = task[t]
                            \/ \E code : rows[t] = Parked(task[t], code)
    BY <1>8 DEF ReconcileExpired, Commit
  <2>2. \A t \in Tasks : Written(task[t], rows[t])
    BY <2>1, HelpersWrite
  <2> QED
    BY <2>1, <2>2, CommitContinues
<1>9. CASE DailySettlement
  <2> DEFINE open == {t \in Tasks : task[t].status \in {"available", "claimed"}}
             rows == [t \in Tasks |->
                        IF t \in open THEN Failed(task[t], SettlementCode(task[t]))
                        ELSE task[t]]
  <2>1. \A t \in Tasks : Written(task[t], rows[t])
    BY HelpersWrite
  <2>2. \E b : CommitFrom("daily_settlement", task, b, rows)
    BY <1>9 DEF DailySettlement, Commit
  <2> HIDE DEF rows
  <2> QED
    BY <2>1, <2>2, CommitContinues
<1> QED
  BY <1>1, <1>2, <1>3, <1>4, <1>5, <1>6, <1>7, <1>8, <1>9 DEF BatchStep

LEMMA NextContinues ==
  ASSUME RowsInv, [Next]_vars
  PROVE  RowsStep
<1>1. ASSUME NEW r \in Runners, ClaimTask(r) PROVE RowsStep
  BY <1>1, ClaimTaskContinues
<1>2. ASSUME NEW r \in Runners, NEW t \in Tasks, RunnerStep(r, t) PROVE RowsStep
  BY <1>2, RunnerStepContinues
<1>3. ASSUME NEW u \in Users, NEW t \in Tasks, PortalStep(u, t) PROVE RowsStep
  BY <1>3, PortalStepContinues
<1>4. ASSUME NEW u \in Users, ReadHumanQueue(u) \/ FindNothing(u) PROVE RowsStep
  BY <1>4, UnchangedContinues DEF ReadHumanQueue, FindNothing
<1>5. CASE BatchStep
  BY <1>5, BatchStepContinues
<1>6. CASE Tick \/ UNCHANGED vars
  BY <1>6, UnchangedContinues DEF Tick, vars
<1> QED
  BY <1>1, <1>2, <1>3, <1>4, <1>5, <1>6 DEF Next

\* The rows stay what they are, and only Tick moves the clock, forward.
LEMMA NextRows ==
  ASSUME RowsInv, [Next]_vars
  PROVE  RowsInv' /\ RowsStep
<1>1. TypeOK' /\ CustodyStep /\ RowsStep
  BY TypeOKInductive, NextKeeps, NextContinues DEF RowsInv, CustodyInv
<1> QED
  BY <1>1 DEF RowsInv, CustodyInv, CustodyStep, RowsStep

\* Only Tick moves the clock, forward.
LEMMA ClockMoves ==
  ASSUME now \in Nat, [Next]_vars
  PROVE  now' \in Nat /\ now' >= now
<1>1. ASSUME NEW r \in Runners, ClaimTask(r) PROVE now' = now
  BY <1>1 DEF ClaimTask, Claim, ClaimNothing
<1>2. ASSUME NEW c, NEW t, NEW g, Heartbeat(t, c, g) \/ Complete(t, c, g)
      PROVE  now' = now
  BY <1>2 DEF Heartbeat, Complete, UpdateOnly, UpdateAndSettle
<1>3. ASSUME NEW r \in Runners, NEW t \in Tasks, RunnerStep(r, t) PROVE now' = now
  <2>1. CASE Resume(r, t) \/ ReconcileTask(r, t)
    BY <2>1 DEF Resume, ReconcileTask, UpdateAndRefresh
  <2>2. ASSUME NEW g, NEW s,
               RecordSubmitIntent(t, r, g, s) \/ ConfirmSubmitted(t, r, g, s)
        PROVE  now' = now
    BY <2>2 DEF RecordSubmitIntent, ConfirmSubmitted, UpdateOnly
  <2>3. ASSUME NEW g, NEW stage, NEW code, RecordFailure(t, r, g, stage, code)
        PROVE  now' = now
    BY <2>3 DEF RecordFailure, UpdateAndRefresh
  <2> QED
    BY <1>2, <1>3, <2>1, <2>2, <2>3 DEF RunnerStep
<1>4. ASSUME NEW u \in Users, NEW t \in Tasks, PortalStep(u, t) PROVE now' = now
  <2>1. CASE ClaimAvailable(u, t) \/ ClaimNeedsHuman(u, t)
    BY <2>1 DEF ClaimAvailable, ClaimNeedsHuman, PortalClaim
  <2>2. ASSUME NEW g, NEW code, Release(t, u, g) \/ PortalFail(t, u, g, code)
        PROVE  now' = now
    BY <2>2 DEF Release, PortalFail, UpdateOnly, UpdateAndSettle
  <2> QED
    BY <1>2, <1>4, <2>1, <2>2 DEF PortalStep
<1>5. ASSUME NEW u, ReadHumanQueue(u) \/ FindNothing(u) PROVE now' = now
  BY <1>5 DEF ReadHumanQueue, FindNothing
<1>6. ASSUME BatchStep PROVE now' = now
  <2>1. CASE Freeze \/ StartAutomation \/ Cancel
    BY <2>1 DEF Freeze, StartAutomation, Cancel
  <2>2. CASE \E t \in Tasks : ConfirmTerminalFailure(t)
    BY <2>2 DEF ConfirmTerminalFailure, UpdateAndSettle
  <2>3. CASE RequeueTransportFailures \/ RequeueProfileBusyTasks
    BY <2>3 DEF RequeueTransportFailures, RequeueProfileBusyTasks, RequeueTasks
  <2>4. CASE FinalizeNeedsHuman
    BY <2>4 DEF FinalizeNeedsHuman
  <2>5. CASE ListExpired
    BY <2>5 DEF ListExpired
  <2>6. CASE ReconcileExpired
    BY <2>6 DEF ReconcileExpired
  <2>7. CASE DailySettlement
    BY <2>7 DEF DailySettlement
  <2> QED
    BY <1>6, <2>1, <2>2, <2>3, <2>4, <2>5, <2>6, <2>7 DEF BatchStep
<1>7. CASE Tick \/ UNCHANGED vars
  BY <1>7 DEF Tick, vars
<1> QED
  BY <1>1, <1>3, <1>4, <1>5, <1>6, <1>7 DEF Next

\* What every step of the protocol does to the rows.
ProtocolStep ==
  RowsInv' /\ RowsStep /\ now' \in Nat /\ now' >= now

LEMMA NextMoves ==
  ASSUME RowsInv, [Next]_vars
  PROVE  ProtocolStep
BY NextRows, ClockMoves DEF ProtocolStep, RowsInv, CustodyInv, TypeOK

\* The submission is where it was.
SameSubmission(old, new) ==
  new.intent = old.intent /\ new.confirmed = old.confirmed

Quiet == \A t \in Tasks : SameSubmission(task[t], task'[t])

LEMMA CommitQuiet ==
  ASSUME NEW op, NEW from, NEW b, NEW rows, CommitFrom(op, from, b, rows),
         \A t \in Tasks : SameSubmission(task[t], rows[t])
  PROVE  Quiet
BY DEF Quiet, SameSubmission, CommitFrom

LEMMA UpdateQuiet ==
  ASSUME TypeOK, NEW op, NEW t \in Tasks, NEW row, SameSubmission(task[t], row),
         \/ UpdateAndRefresh(op, t, row)
         \/ UpdateAndSettle(op, t, row)
         \/ UpdateOnly(op, t, row)
  PROVE  Quiet
<1> DEFINE rows == [task EXCEPT ![t] = row]
<1>1. \A u \in Tasks : SameSubmission(task[u], rows[u])
  BY DEF TypeOK, SameSubmission
<1> HIDE DEF rows
<1>2. \E b : CommitFrom(op, task, b, rows)
  BY DEF UpdateAndRefresh, UpdateAndSettle, UpdateOnly, Commit, rows
<1> QED
  BY <1>1, <1>2, CommitQuiet

LEMMA HelpersQuiet ==
  ASSUME TypeOK, NEW t \in Tasks, NEW code, NEW c
  PROVE  /\ SameSubmission(task[t], task[t])
         /\ SameSubmission(task[t], Parked(task[t], code))
         /\ SameSubmission(task[t], Failed(task[t], code))
         /\ SameSubmission(task[t], Requeued(task[t]))
         /\ SameSubmission(task[t], Succeeded(task[t]))
         /\ SameSubmission(task[t], Leased(task[t], c))
<1>1. task[t] \in TaskRow
  BY DEF TypeOK
<1> QED
  BY <1>1 DEF SameSubmission, Parked, Failed, Requeued, Succeeded, Leased, TaskRow

LEMMA ClaimTaskQuiet ==
  ASSUME TypeOK, NEW r \in Runners, ClaimTask(r)
  PROVE  Quiet
<1>1. PICK parked : (\E t \in Tasks : Claim(r, t, parked)) \/ ClaimNothing(parked)
  BY DEF ClaimTask
<1> DEFINE rows == ParkedCandidates(parked)
<1>2. \A t \in Tasks : SameSubmission(task[t], rows[t])
  BY HelpersQuiet DEF ParkedCandidates
<1>3. CASE \E t \in Tasks : Claim(r, t, parked)
  <2>1. PICK t \in Tasks : Claim(r, t, parked)
    BY <1>3
  <2> DEFINE lease == Leased(rows[t], r)
             new == [lease EXCEPT !.attempts = @ + 1]
  <2>2. rows[t] = task[t] \/ \E code : rows[t] = Parked(task[t], code)
    BY DEF ParkedCandidates
  <2>3. lease.intent = rows[t].intent /\ lease.confirmed = rows[t].confirmed
          /\ new.intent = lease.intent /\ new.confirmed = lease.confirmed
    <3>1. task[t] \in TaskRow
      BY DEF TypeOK
    <3> HIDE DEF rows
    <3> QED
      BY <2>2, <3>1 DEF Leased, Parked, TaskRow
  <2>4. \E b : CommitFrom("claim", task, b, [rows EXCEPT ![t] = new])
    BY <2>1 DEF Claim, Commit
  <2>5. DOMAIN rows = Tasks
    BY DEF ParkedCandidates
  <2> HIDE DEF rows, lease, new
  <2>6. \A u \in Tasks : SameSubmission(task[u], [rows EXCEPT ![t] = new][u])
    BY <1>2, <2>3, <2>5 DEF SameSubmission
  <2> QED
    BY <2>4, <2>6, CommitQuiet
<1>4. CASE ClaimNothing(parked)
  <2>1. \E b : CommitFrom("claim", task, b, rows)
    BY <1>4 DEF ClaimNothing, Commit
  <2> QED
    BY <1>2, <2>1, CommitQuiet
<1> QED
  BY <1>1, <1>3, <1>4

\* The calls of a device that are not about the submission.
OtherCall(r, t) ==
  \/ Resume(r, t) \/ ReconcileTask(r, t)
  \/ \E g : Heartbeat(t, r, g) \/ Complete(t, r, g)
  \/ \E g, stage, code : RecordFailure(t, r, g, stage, code)

LEMMA OtherCallQuiet ==
  ASSUME TypeOK, NEW r \in Runners, NEW t \in Tasks, OtherCall(r, t)
  PROVE  Quiet
<1>1. task[t] \in TaskRow /\ task \in [Tasks -> TaskRow]
  BY DEF TypeOK
<1>2. CASE Resume(r, t)
  <2> DEFINE new == [Leased(task[t], r) EXCEPT
                       !.needsHuman = IF task[t].intent THEN @ ELSE NoCode]
             rows == [task EXCEPT ![t] = new]
  <2>1. SameSubmission(task[t], new)
    BY <1>1 DEF SameSubmission, Leased, TaskRow
  <2> HIDE DEF new
  <2>2. \A u \in Tasks : SameSubmission(task[u], rows[u])
    BY <1>1, <2>1, HelpersQuiet
  <2>3. CommitFrom("resume", task, [batch EXCEPT !.automation = "running"], rows)
    BY <1>2 DEF Resume, Commit, new
  <2> QED
    BY <2>2, <2>3, CommitQuiet
<1>3. CASE ReconcileTask(r, t)
  BY <1>3, HelpersQuiet, UpdateQuiet DEF ReconcileTask
<1>4. ASSUME NEW g, Heartbeat(t, r, g) PROVE Quiet
  <2>1. SameSubmission(task[t], [task[t] EXCEPT !.lease = LeaseUntil])
    BY <1>1 DEF SameSubmission, TaskRow
  <2> QED
    BY <1>4, <2>1, UpdateQuiet DEF Heartbeat
<1>5. ASSUME NEW g, NEW stage, NEW code, RecordFailure(t, r, g, stage, code)
      PROVE  Quiet
  <2>1. SameSubmission(task[t],
          [task[t] EXCEPT !.status = "available", !.auto = "queued",
                          !.lease = NoTime, !.lastError = code])
    BY <1>1 DEF SameSubmission, TaskRow
  <2> QED
    BY <1>5, <2>1, HelpersQuiet, UpdateQuiet DEF RecordFailure
<1>6. ASSUME NEW g, Complete(t, r, g) PROVE Quiet
  BY <1>6, HelpersQuiet, UpdateQuiet DEF Complete
<1> QED
  BY <1>2, <1>3, <1>4, <1>5, <1>6 DEF OtherCall

LEMMA RunnerStepQuiet ==
  ASSUME TypeOK, NEW r \in Runners, NEW t \in Tasks, RunnerStep(r, t)
  PROVE  \/ Quiet
         \/ \E g \in 1..MaxGeneration, s \in Sessions :
              RecordSubmitIntent(t, r, g, s) \/ ConfirmSubmitted(t, r, g, s)
<1>1. OtherCall(r, t) => Quiet
  BY OtherCallQuiet
<1> QED
  BY <1>1 DEF RunnerStep, OtherCall

LEMMA PortalStepQuiet ==
  ASSUME TypeOK, NEW u \in Users, NEW t \in Tasks, PortalStep(u, t)
  PROVE  Quiet
<1>1. task[t] \in TaskRow /\ task \in [Tasks -> TaskRow]
  BY DEF TypeOK
<1>2. CASE ClaimAvailable(u, t) \/ ClaimNeedsHuman(u, t)
  <2> DEFINE rows == [task EXCEPT ![t] = Leased(task[t], u)]
  <2>1. \E b : CommitFrom("portal_claim", task, b, rows)
    BY <1>2 DEF ClaimAvailable, ClaimNeedsHuman, PortalClaim, Commit
  <2>2. \A v \in Tasks : SameSubmission(task[v], rows[v])
    BY <1>1, HelpersQuiet
  <2> QED
    BY <2>1, <2>2, CommitQuiet
<1>3. ASSUME NEW g, Heartbeat(t, u, g) \/ Release(t, u, g) PROVE Quiet
  <2>1. SameSubmission(task[t], [task[t] EXCEPT !.lease = LeaseUntil])
    BY <1>1 DEF SameSubmission, TaskRow
  <2>2. SameSubmission(task[t],
          [task[t] EXCEPT !.status = "available",
                          !.auto = AutoTo(task[t], "needs_human"), !.lease = NoTime])
    BY <1>1 DEF SameSubmission, TaskRow
  <2> QED
    BY <1>3, <2>1, <2>2, UpdateQuiet DEF Heartbeat, Release
<1>4. ASSUME NEW g, NEW code, Complete(t, u, g) \/ PortalFail(t, u, g, code)
      PROVE  Quiet
  BY <1>4, HelpersQuiet, UpdateQuiet DEF Complete, PortalFail
<1> QED
  BY <1>2, <1>3, <1>4 DEF PortalStep

LEMMA BatchStepQuiet ==
  ASSUME TypeOK, BatchStep
  PROVE  Quiet
<1>1. task \in [Tasks -> TaskRow]
  BY DEF TypeOK
<1>2. ASSUME NEW op, NEW from, NEW b, NEW rows, CommitFrom(op, from, b, rows),
             \A t \in Tasks : SameSubmission(task[t], rows[t])
      PROVE  Quiet
  BY <1>2, CommitQuiet
<1>3. CASE Freeze
  <2> DEFINE rows == [t \in Tasks |-> [task[t] EXCEPT !.status = "available"]]
  <2>1. \A t \in Tasks : SameSubmission(task[t], rows[t])
    BY <1>1 DEF SameSubmission, TaskRow
  <2>2. \E b : CommitFrom("freeze", task, b, rows)
    BY <1>3 DEF Freeze, Commit
  <2> QED
    BY <1>2, <2>1, <2>2
<1>4. CASE StartAutomation
  <2>1. \E b : CommitFrom("start", task, b, task)
    BY <1>4 DEF StartAutomation, Commit
  <2> QED
    BY <1>2, <2>1, HelpersQuiet
<1>5. CASE Cancel
  <2> DEFINE rows == [t \in Tasks |->
                        IF task[t].status \in UnresolvedStatuses
                        THEN [task[t] EXCEPT !.status = "cancelled",
                                             !.auto = AutoTo(task[t], "completed"),
                                             !.lease = NoTime]
                        ELSE task[t]]
  <2>1. \A t \in Tasks : SameSubmission(task[t], rows[t])
    BY <1>1 DEF SameSubmission, TaskRow
  <2>2. \E b : CommitFrom("cancel", task, b, rows)
    BY <1>5 DEF Cancel, Commit
  <2> QED
    BY <1>2, <2>1, <2>2
<1>6. CASE \E t \in Tasks : ConfirmTerminalFailure(t)
  BY <1>6, HelpersQuiet, UpdateQuiet DEF ConfirmTerminalFailure
<1>7. CASE FinalizeNeedsHuman
  <2> DEFINE open == {t \in Tasks : task[t].status \in {"available", "claimed"}}
             claimed == [t \in Tasks |->
                           IF task[t].status # "available" THEN task[t]
                           ELSE [task[t] EXCEPT !.status = "claimed",
                                                !.auto = "running",
                                                !.generation = @ + 1,
                                                !.lease = now]]
             rows == [t \in Tasks |->
                        IF t \in open THEN Failed(claimed[t], claimed[t].needsHuman)
                        ELSE task[t]]
  <2>1. \A t \in Tasks : SameSubmission(task[t], rows[t])
    <3> TAKE t \in Tasks
    <3>1. claimed[t].intent = task[t].intent /\ claimed[t].confirmed = task[t].confirmed
      BY <1>1 DEF TaskRow
    <3> DEFINE row == claimed[t]
               new == Failed(row, row.needsHuman)
    <3>2. rows[t] = IF t \in open THEN new ELSE task[t]
      OBVIOUS
    <3> HIDE DEF open, claimed, rows
    <3>3. new.intent = row.intent /\ new.confirmed = row.confirmed
      BY DEF Failed
    <3> QED
      BY <3>1, <3>2, <3>3 DEF SameSubmission
  <2>2. \/ \E b : CommitFrom("finalize", claimed, b, rows)
        \/ UNCHANGED task
    BY <1>7 DEF FinalizeNeedsHuman
  <2> HIDE DEF rows, claimed
  <2> QED
    BY <1>2, <2>1, <2>2 DEF Quiet, SameSubmission
<1>8. ASSUME NEW cohort, RequeueTasks(cohort) PROVE Quiet
  <2> DEFINE rows == [t \in Tasks |-> IF t \in cohort THEN Requeued(task[t])
                                      ELSE task[t]]
  <2>1. \A t \in Tasks : SameSubmission(task[t], rows[t])
    BY HelpersQuiet
  <2>2. \E b : CommitFrom("requeue", task, b, rows)
    BY <1>8 DEF RequeueTasks, Commit
  <2> QED
    BY <1>2, <2>1, <2>2
<1>9. CASE RequeueTransportFailures \/ RequeueProfileBusyTasks
  BY <1>8, <1>9 DEF RequeueTransportFailures, RequeueProfileBusyTasks
<1>10. CASE ListExpired
  BY <1>10 DEF ListExpired, Quiet, SameSubmission
<1>11. CASE ReconcileExpired
  <2> DEFINE overdue == {t \in Tasks :
                           /\ task[t].status \in {"available", "claimed"}
                           /\ task[t].auto \in {"queued", "running"}
                           /\ ~(task[t].status = "claimed" /\ LiveLease(task[t], now))}
             rows == [t \in Tasks |->
                        IF t \notin overdue THEN task[t]
                        ELSE Parked(task[t],
                                    ParkCode(task[t], "window_expired_unexecuted"))]
  <2>1. \A t \in Tasks : /\ SameSubmission(task[t], task[t])
                         /\ SameSubmission(task[t], rows[t])
    BY HelpersQuiet
  <2>2. \/ \E b : CommitFrom("reconcile_expired", task, b, rows)
        \/ \E b : CommitFrom("reconcile_expired", task, b, task)
    BY <1>11 DEF ReconcileExpired, Commit
  <2> HIDE DEF rows
  <2> QED
    BY <1>2, <2>1, <2>2
<1>12. CASE DailySettlement
  <2> DEFINE open == {t \in Tasks : task[t].status \in {"available", "claimed"}}
             rows == [t \in Tasks |->
                        IF t \in open THEN Failed(task[t], SettlementCode(task[t]))
                        ELSE task[t]]
  <2>1. \A t \in Tasks : SameSubmission(task[t], rows[t])
    BY HelpersQuiet
  <2>2. \E b : CommitFrom("daily_settlement", task, b, rows)
    BY <1>12 DEF DailySettlement, Commit
  <2> QED
    BY <1>2, <2>1, <2>2
<1> QED
  BY <1>3, <1>4, <1>5, <1>6, <1>7, <1>9, <1>10, <1>11, <1>12 DEF BatchStep

\* Only the two calls of a device that are about the submission change it.
LEMMA NextQuiet ==
  ASSUME TypeOK, [Next]_vars
  PROVE  \/ Quiet
         \/ \E r \in Runners, t \in Tasks, g \in 1..MaxGeneration, s \in Sessions :
              RecordSubmitIntent(t, r, g, s) \/ ConfirmSubmitted(t, r, g, s)
<1>1. ASSUME UNCHANGED task PROVE Quiet
  BY <1>1 DEF Quiet, SameSubmission
<1>2. ASSUME NEW u, ReadHumanQueue(u) \/ FindNothing(u) PROVE Quiet
  BY <1>1, <1>2 DEF ReadHumanQueue, FindNothing
<1>3. CASE Tick \/ UNCHANGED vars
  BY <1>1, <1>3 DEF Tick, vars
<1>4. ASSUME NEW r \in Runners, ClaimTask(r) \/ \E t \in Tasks : RunnerStep(r, t)
      PROVE  \/ Quiet
             \/ \E t \in Tasks, g \in 1..MaxGeneration, s \in Sessions :
                  RecordSubmitIntent(t, r, g, s) \/ ConfirmSubmitted(t, r, g, s)
  BY <1>4, ClaimTaskQuiet, RunnerStepQuiet
<1> QED
  BY <1>2, <1>3, <1>4, PortalStepQuiet, BatchStepQuiet DEF Next

-----------------------------------------------------------------------------
(* Tasks that are not in the queue *)

\* A task that is not queued stays so, and no other device takes it over.
Withheld(old, new) ==
  old.auto # "queued" =>
    new.auto # "queued" /\ (new.claimedBy = old.claimedBy \/ new.claimedBy \in Users)

NoneOffered == \A t \in Tasks : Withheld(task[t], task'[t])

LEMMA CommitWithholds ==
  ASSUME NEW op, NEW from, NEW b, NEW rows, CommitFrom(op, from, b, rows),
         \A t \in Tasks : Withheld(task[t], rows[t])
  PROVE  NoneOffered
BY DEF NoneOffered, Withheld, CommitFrom

LEMMA UpdateWithholds ==
  ASSUME TypeOK, NEW op, NEW t \in Tasks, NEW row, Withheld(task[t], row),
         \/ UpdateAndRefresh(op, t, row)
         \/ UpdateAndSettle(op, t, row)
         \/ UpdateOnly(op, t, row)
  PROVE  NoneOffered
<1> DEFINE rows == [task EXCEPT ![t] = row]
<1>1. \A u \in Tasks : Withheld(task[u], rows[u])
  BY DEF TypeOK, Withheld
<1> HIDE DEF rows
<1>2. \E b : CommitFrom(op, task, b, rows)
  BY DEF UpdateAndRefresh, UpdateAndSettle, UpdateOnly, Commit, rows
<1> QED
  BY <1>1, <1>2, CommitWithholds

LEMMA HelpersWithhold ==
  ASSUME TypeOK, NEW t \in Tasks, NEW code, NEW c
  PROVE  /\ Withheld(task[t], task[t])
         /\ Withheld(task[t], Parked(task[t], code))
         /\ Withheld(task[t], Failed(task[t], code))
         /\ Withheld(task[t], Succeeded(task[t]))
         /\ c \in Users \/ c = task[t].claimedBy => Withheld(task[t], Leased(task[t], c))
<1>1. task[t] \in TaskRow
  BY DEF TypeOK
<1> QED
  BY <1>1 DEF Withheld, Parked, Failed, Succeeded, Leased, TaskRow, AutoTo

\* A device claims what is queued.
LEMMA ClaimTaskWithholds ==
  ASSUME TypeOK, NEW r \in Runners, ClaimTask(r)
  PROVE  NoneOffered
<1>1. PICK parked : (\E t \in Tasks : Claim(r, t, parked)) \/ ClaimNothing(parked)
  BY DEF ClaimTask
<1> DEFINE rows == ParkedCandidates(parked)
<1>2. \A t \in Tasks : Withheld(task[t], rows[t])
  BY HelpersWithhold DEF ParkedCandidates
<1>3. CASE \E t \in Tasks : Claim(r, t, parked)
  <2>1. PICK t \in Tasks : Claim(r, t, parked)
    BY <1>3
  <2> DEFINE new == [Leased(rows[t], r) EXCEPT !.attempts = @ + 1]
  <2>2. Withheld(task[t], new)
    BY <2>1 DEF Claim, Queued, Withheld
  <2>3. \E b : CommitFrom("claim", task, b, [rows EXCEPT ![t] = new])
    BY <2>1 DEF Claim, Commit
  <2>4. DOMAIN rows = Tasks
    BY DEF ParkedCandidates
  <2> HIDE DEF rows, new
  <2>5. \A u \in Tasks : Withheld(task[u], [rows EXCEPT ![t] = new][u])
    BY <1>2, <2>2, <2>4
  <2> QED
    BY <2>3, <2>5, CommitWithholds
<1>4. CASE ClaimNothing(parked)
  <2>1. \E b : CommitFrom("claim", task, b, rows)
    BY <1>4 DEF ClaimNothing, Commit
  <2> QED
    BY <1>2, <2>1, CommitWithholds
<1> QED
  BY <1>1, <1>3, <1>4

\* Of the calls of a device only a failure that may be retried offers a task.
HoldingCall(r, t) ==
  \/ Resume(r, t) \/ ReconcileTask(r, t)
  \/ \E g : Heartbeat(t, r, g) \/ Complete(t, r, g)
  \/ \E g, s : RecordSubmitIntent(t, r, g, s) \/ ConfirmSubmitted(t, r, g, s)

LEMMA HoldingCallWithholds ==
  ASSUME TypeOK, NEW r \in Runners, NEW t \in Tasks, HoldingCall(r, t)
  PROVE  NoneOffered
<1>1. task[t] \in TaskRow /\ task \in [Tasks -> TaskRow]
  BY DEF TypeOK
<1>2. CASE Resume(r, t)
  <2> DEFINE lease == Leased(task[t], r)
             code == IF task[t].intent THEN lease.needsHuman ELSE NoCode
             new == [lease EXCEPT !.needsHuman = code]
             rows == [task EXCEPT ![t] = new]
  <2>1. Withheld(task[t], lease)
    BY <1>2, HelpersWithhold DEF Resume, ResumableBy
  <2>2. lease.auto = new.auto /\ lease.claimedBy = new.claimedBy
    <3> HIDE DEF code
    <3> QED
      BY <1>1 DEF Leased, TaskRow
  <2>3. CommitFrom("resume", task, [batch EXCEPT !.automation = "running"], rows)
    BY <1>2 DEF Resume, Commit
  <2> HIDE DEF lease, new
  <2>4. \A u \in Tasks : Withheld(task[u], rows[u])
    BY <1>1, <2>1, <2>2 DEF Withheld
  <2> QED
    BY <2>3, <2>4, CommitWithholds
<1>3. CASE ReconcileTask(r, t)
  BY <1>3, HelpersWithhold, UpdateWithholds DEF ReconcileTask
<1>4. ASSUME NEW g, Heartbeat(t, r, g) PROVE NoneOffered
  <2>1. Withheld(task[t], [task[t] EXCEPT !.lease = LeaseUntil])
    BY <1>1 DEF Withheld, TaskRow
  <2> QED
    BY <1>4, <2>1, UpdateWithholds DEF Heartbeat
<1>5. ASSUME NEW g, Complete(t, r, g) PROVE NoneOffered
  BY <1>5, HelpersWithhold, UpdateWithholds DEF Complete
<1>6. ASSUME NEW g, NEW s, RecordSubmitIntent(t, r, g, s) PROVE NoneOffered
  <2>1. Withheld(task[t], [task[t] EXCEPT !.session = s, !.intent = TRUE])
    BY <1>1 DEF Withheld, TaskRow
  <2> QED
    BY <1>6, <2>1, UpdateWithholds DEF RecordSubmitIntent
<1>7. ASSUME NEW g, NEW s, ConfirmSubmitted(t, r, g, s) PROVE NoneOffered
  <2>1. Withheld(task[t], [task[t] EXCEPT !.confirmed = TRUE])
    BY <1>1 DEF Withheld, TaskRow
  <2> QED
    BY <1>7, <2>1, UpdateWithholds DEF ConfirmSubmitted
<1> QED
  BY <1>2, <1>3, <1>4, <1>5, <1>6, <1>7 DEF HoldingCall

LEMMA FailureWithholds ==
  ASSUME TypeOK, NEW r \in Runners, NEW t \in Tasks, NEW g, NEW stage, NEW code,
         RecordFailure(t, r, g, stage, code),
         ~RetriesFailure(task[t], stage, code)
  PROVE  NoneOffered
BY HelpersWithhold, UpdateWithholds DEF RecordFailure

\* Nor does a failure change who had the task, or offer another.
LEMMA FailureKeepsOthers ==
  ASSUME TypeOK, NEW r \in Runners, NEW t \in Tasks, NEW g, NEW stage, NEW code,
         RecordFailure(t, r, g, stage, code), NEW u \in Tasks, u # t
  PROVE  Withheld(task[u], task'[u])
<1>1. \E b, row : CommitFrom("failure", task, b, [task EXCEPT ![t] = row])
  BY DEF RecordFailure, UpdateAndRefresh, Commit
<1> QED
  BY <1>1 DEF CommitFrom, TypeOK, Withheld

LEMMA PortalStepWithholds ==
  ASSUME TypeOK, NEW u \in Users, NEW t \in Tasks, PortalStep(u, t)
  PROVE  NoneOffered
<1>1. task[t] \in TaskRow /\ task \in [Tasks -> TaskRow]
  BY DEF TypeOK
<1>2. CASE ClaimAvailable(u, t) \/ ClaimNeedsHuman(u, t)
  <2> DEFINE rows == [task EXCEPT ![t] = Leased(task[t], u)]
  <2>1. \E b : CommitFrom("portal_claim", task, b, rows)
    BY <1>2 DEF ClaimAvailable, ClaimNeedsHuman, PortalClaim, Commit
  <2>2. \A v \in Tasks : Withheld(task[v], rows[v])
    BY <1>1, HelpersWithhold
  <2> QED
    BY <2>1, <2>2, CommitWithholds
<1>3. ASSUME NEW g, Heartbeat(t, u, g) \/ Release(t, u, g) PROVE NoneOffered
  <2>1. Withheld(task[t], [task[t] EXCEPT !.lease = LeaseUntil])
    BY <1>1 DEF Withheld, TaskRow
  <2>2. Withheld(task[t],
          [task[t] EXCEPT !.status = "available",
                          !.auto = AutoTo(task[t], "needs_human"), !.lease = NoTime])
    BY <1>1 DEF Withheld, TaskRow, AutoTo
  <2> QED
    BY <1>3, <2>1, <2>2, UpdateWithholds DEF Heartbeat, Release
<1>4. ASSUME NEW g, NEW code, Complete(t, u, g) \/ PortalFail(t, u, g, code)
      PROVE  NoneOffered
  BY <1>4, HelpersWithhold, UpdateWithholds DEF Complete, PortalFail
<1> QED
  BY <1>2, <1>3, <1>4 DEF PortalStep

\* Of what the portal does alone only the operator recoveries offer tasks.
LEMMA BatchStepWithholds ==
  ASSUME TypeOK, BatchStep, ~RequeueTransportFailures, ~RequeueProfileBusyTasks
  PROVE  NoneOffered
<1>1. task \in [Tasks -> TaskRow]
  BY DEF TypeOK
<1>2. ASSUME NEW op, NEW from, NEW b, NEW rows, CommitFrom(op, from, b, rows),
             \A t \in Tasks : Withheld(task[t], rows[t])
      PROVE  NoneOffered
  BY <1>2, CommitWithholds
<1>3. CASE Freeze
  <2> DEFINE rows == [t \in Tasks |-> [task[t] EXCEPT !.status = "available"]]
  <2>1. \A t \in Tasks : Withheld(task[t], rows[t])
    BY <1>1 DEF Withheld, TaskRow
  <2>2. \E b : CommitFrom("freeze", task, b, rows)
    BY <1>3 DEF Freeze, Commit
  <2> QED
    BY <1>2, <2>1, <2>2
<1>4. CASE StartAutomation
  <2>1. \E b : CommitFrom("start", task, b, task)
    BY <1>4 DEF StartAutomation, Commit
  <2> QED
    BY <1>2, <2>1, HelpersWithhold
<1>5. CASE Cancel
  <2> DEFINE rows == [t \in Tasks |->
                        IF task[t].status \in UnresolvedStatuses
                        THEN [task[t] EXCEPT !.status = "cancelled",
                                             !.auto = AutoTo(task[t], "completed"),
                                             !.lease = NoTime]
                        ELSE task[t]]
  <2>1. \A t \in Tasks : Withheld(task[t], rows[t])
    BY <1>1 DEF Withheld, TaskRow, AutoTo
  <2>2. \E b : CommitFrom("cancel", task, b, rows)
    BY <1>5 DEF Cancel, Commit
  <2> QED
    BY <1>2, <2>1, <2>2
<1>6. CASE \E t \in Tasks : ConfirmTerminalFailure(t)
  BY <1>6, HelpersWithhold, UpdateWithholds DEF ConfirmTerminalFailure
<1>7. CASE FinalizeNeedsHuman
  <2> DEFINE open == {t \in Tasks : task[t].status \in {"available", "claimed"}}
             claimed == [t \in Tasks |->
                           IF task[t].status # "available" THEN task[t]
                           ELSE [task[t] EXCEPT !.status = "claimed",
                                                !.auto = "running",
                                                !.generation = @ + 1,
                                                !.lease = now]]
             rows == [t \in Tasks |->
                        IF t \in open THEN Failed(claimed[t], claimed[t].needsHuman)
                        ELSE task[t]]
  <2>1. \A t \in Tasks : Withheld(task[t], rows[t])
    <3> TAKE t \in Tasks
    <3>1. Withheld(task[t], claimed[t]) /\ claimed[t] \in TaskRow \cup {claimed[t]}
      BY <1>1 DEF TaskRow, Withheld
    <3> DEFINE row == claimed[t]
               new == Failed(row, row.needsHuman)
    <3>2. rows[t] = IF t \in open THEN new ELSE task[t]
      OBVIOUS
    <3>3. DOMAIN row = DOMAIN task[t]
      OBVIOUS
    <3>4. {"auto", "claimedBy"} \subseteq DOMAIN task[t]
      BY <1>1 DEF TaskRow
    <3> HIDE DEF open, claimed, rows
    <3>5. new.auto = AutoTo(row, "completed") /\ new.claimedBy = row.claimedBy
      BY <3>3, <3>4 DEF Failed
    <3> QED
      BY <3>1, <3>2, <3>5 DEF Withheld, AutoTo
  <2>2. \/ \E b : CommitFrom("finalize", claimed, b, rows)
        \/ UNCHANGED task
    BY <1>7 DEF FinalizeNeedsHuman
  <2> HIDE DEF rows, claimed
  <2> QED
    BY <1>2, <2>1, <2>2 DEF NoneOffered, Withheld
<1>8. CASE ListExpired
  BY <1>8 DEF ListExpired, NoneOffered, Withheld
<1>9. CASE ReconcileExpired
  <2> DEFINE overdue == {t \in Tasks :
                           /\ task[t].status \in {"available", "claimed"}
                           /\ task[t].auto \in {"queued", "running"}
                           /\ ~(task[t].status = "claimed" /\ LiveLease(task[t], now))}
             rows == [t \in Tasks |->
                        IF t \notin overdue THEN task[t]
                        ELSE Parked(task[t],
                                    ParkCode(task[t], "window_expired_unexecuted"))]
  <2>1. \A t \in Tasks : /\ Withheld(task[t], task[t])
                         /\ Withheld(task[t], rows[t])
    BY HelpersWithhold
  <2>2. \/ \E b : CommitFrom("reconcile_expired", task, b, rows)
        \/ \E b : CommitFrom("reconcile_expired", task, b, task)
    BY <1>9 DEF ReconcileExpired, Commit
  <2> HIDE DEF rows
  <2> QED
    BY <1>2, <2>1, <2>2
<1>10. CASE DailySettlement
  <2> DEFINE open == {t \in Tasks : task[t].status \in {"available", "claimed"}}
             rows == [t \in Tasks |->
                        IF t \in open THEN Failed(task[t], SettlementCode(task[t]))
                        ELSE task[t]]
  <2>1. \A t \in Tasks : Withheld(task[t], rows[t])
    BY HelpersWithhold
  <2>2. \E b : CommitFrom("daily_settlement", task, b, rows)
    BY <1>10 DEF DailySettlement, Commit
  <2> QED
    BY <1>2, <2>1, <2>2
<1> QED
  BY <1>3, <1>4, <1>5, <1>6, <1>7, <1>8, <1>9, <1>10 DEF BatchStep

=============================================================================
