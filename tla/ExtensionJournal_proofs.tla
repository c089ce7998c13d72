----------------------- MODULE ExtensionJournal_proofs -----------------------
(***************************************************************************)
(* Theorems about the journal of the extension: that device and portal     *)
(* agree on the submission whatever is lost between them, and that a task  *)
(* polled from the queue never meets an entry that forbids to begin it.    *)
(* For any tasks, devices, users, codes and bounds.                        *)
(***************************************************************************)
EXTENDS ExtensionRunner_proofs

-----------------------------------------------------------------------------
(* The invariant *)

\* An open submitted task is with its device.
Owes(row, r) ==
  row.intent /\ row.claimedBy = r /\ row.status \in UnresolvedStatuses

\* The two brackets, for one entry and its row.
Agrees(r, e, row) ==
  /\ Owes(row, r) => e # NoEntry /\ PostSubmit(e.phase) /\ e.session = row.session
  /\ e # NoEntry /\ e.phase \in {"submitted", "collected"} => row.confirmed

\* An intent of r for t that is on its way, and whether it would be accepted.
OnItsWay(q, r, t) == q.op = "intent" /\ q.runner = r /\ q.task = t

Holds(q, row) ==
  row.status = "claimed" /\ row.claimedBy = q.runner /\ row.generation = q.generation

\* Should it arrive, the entry is ready for it.
Backed(q, e) == e # NoEntry /\ PostSubmit(e.phase) /\ e.session = q.session

Linked(r, t, e, row, requests) ==
  /\ Agrees(r, e, row)
  /\ \A q \in requests : OnItsWay(q, r, t) /\ Holds(q, row) => Backed(q, e)

\* What is on its way is of an older lease than the one that is being prepared.
Outdated(r, a, requests) ==
  \A q \in requests : OnItsWay(q, r, a.task) => q.generation < a.generation

WorkLinked(r, a, jr, rows, requests) ==
  /\ a.step \in {"prepare", "mark"} => ~Owes(rows[a.task], r)
  /\ a.step \in {"begin", "prepare", "mark", "intent"} => Outdated(r, a, requests)
  /\ a.step = "intent" => PostSubmit(jr[a.task].phase)
  /\ a.step \in WorkSteps /\ a.confirmed => rows[a.task].confirmed
  /\ a.step \in {"collect", "complete"} => rows[a.task].confirmed

BracketInv ==
  \A r \in Runners :
    /\ \A t \in Tasks : Linked(r, t, journal[r][t], task[t], inflight)
    /\ WorkLinked(r, activity[r], journal[r], task, inflight)

-----------------------------------------------------------------------------
(* What a step of the protocol does to a row *)

\* Intents, sessions, confirmations and ends stay; a lease is the old one or new.
RowMoves(old, new) ==
  /\ old.generation \in Nat /\ new.generation \in Nat
  /\ old.intent \in BOOLEAN /\ old.confirmed \in BOOLEAN
  /\ old.intent => /\ new.intent /\ new.session = old.session
                   /\ new.claimedBy = old.claimedBy
  /\ old.status \in TerminalStatuses => new = old
  /\ old.status \in TerminalStatuses \cup UnresolvedStatuses
  /\ old.confirmed => new.confirmed
  /\ new.generation >= old.generation
  /\ new.status = "claimed" =>
       \/ new.generation > old.generation
       \/ /\ old.status = "claimed" /\ new.generation = old.generation
          /\ new.claimedBy = old.claimedBy

AllMove == \A t \in Tasks : RowMoves(task[t], task'[t])

LEMMA NextRowsMove ==
  ASSUME WorkInv, [Next]_vars
  PROVE  AllMove /\ TypeOK /\ TypeOK' /\ RowsLater
<1>1. TypeOK /\ TypeOK' /\ RowsLater
  BY RowsMoveLater DEF WorkInv
<1>2. CustodyStep /\ RowsStep
  BY NextKeeps, NextRows DEF WorkInv, RowsInv
<1>3. \A t \in Tasks : Evolves(task[t], task'[t])
  <2>1. CASE Next
    BY <2>1, NextSound DEF WorkInv, SoundStep
  <2>2. CASE UNCHANGED vars
    BY <2>2 DEF vars, Evolves
  <2> QED
    BY <2>1, <2>2
<1>4. ASSUME NEW t \in Tasks PROVE RowMoves(task[t], task'[t])
  <2>1. task[t] \in TaskRow /\ task'[t] \in TaskRow
    BY <1>1 DEF TypeOK
  <2>2. Kept(task[t], task'[t]) /\ Continues(task[t], task'[t])
        /\ Evolves(task[t], task'[t])
    BY <1>2, <1>3 DEF CustodyStep, RowsStep
  <2> QED
    BY <2>1, <2>2 DEF RowMoves, Kept, Continues, SameClaim, Evolves, TaskRow
<1> QED
  BY <1>1, <1>4 DEF AllMove

\* Without a new intent nothing is owed that was not.
LEMMA DebtStays ==
  ASSUME NEW old, NEW new, NEW r, RowMoves(old, new), new.intent = old.intent,
         Owes(new, r)
  PROVE  Owes(old, r)
BY DEF RowMoves, Owes, TerminalStatuses, UnresolvedStatuses

LEMMA AgreesStays ==
  ASSUME NEW old, NEW new, NEW r, NEW e, RowMoves(old, new),
         new.intent = old.intent, Agrees(r, e, old)
  PROVE  Agrees(r, e, new)
<1>1. Owes(new, r) => Owes(old, r)
  BY DebtStays
<1> QED
  BY <1>1 DEF Agrees, RowMoves, Owes

\* A lease that is held was held, by a request of an earlier lease.
LEMMA HeldBefore ==
  ASSUME NEW old, NEW new, NEW q, RowMoves(old, new),
         q.generation \in Nat, q.generation <= old.generation, Holds(q, new)
  PROVE  Holds(q, old)
BY DEF RowMoves, Holds

\* What is done to an entry without a step of the submission.
SameSide(e, f) ==
  \/ f = e
  \/ /\ e # NoEntry /\ f # NoEntry
     /\ f.phase = e.phase /\ f.session = e.session

LEMMA LinkedStays ==
  ASSUME NEW r, NEW t, NEW e, NEW f, NEW old, NEW new, NEW requests, NEW later,
         Linked(r, t, e, old, requests), RowMoves(old, new), new.intent = old.intent,
         SameSide(e, f),
         \A q \in later : OnItsWay(q, r, t) =>
            \/ q \in requests /\ q.generation \in Nat /\ q.generation <= old.generation
            \/ Backed(q, e)
  PROVE  Linked(r, t, f, new, later)
<1>1. Agrees(r, e, new)
  BY AgreesStays DEF Linked
<1>2. ASSUME NEW q \in later, OnItsWay(q, r, t), Holds(q, new)
      PROVE  Backed(q, e)
  BY <1>2, HeldBefore DEF Linked
<1> QED
  BY <1>1, <1>2 DEF Linked, Agrees, Backed, SameSide

-----------------------------------------------------------------------------
(* Who records an intent *)

LEMMA ServeIntents ==
  ASSUME TypeOK, NEW q, RequestSound(q, task), Serve(q)
  PROVE  \/ IntentsStay
         \/ /\ q.op = "intent"
            /\ RecordSubmitIntent(q.task, q.runner, q.generation, q.session)
<1>1. q.runner \in Runners /\ q.op \in CallOps /\ (q.op # "claim" => q.task \in Tasks)
  BY DEF RequestSound, Requests
<1>2. Quiet => IntentsStay
  BY DEF Quiet, SameSubmission, IntentsStay
<1>3. CASE q.op = "claim" /\ ClaimTask(q.runner)
  BY <1>1, <1>2, <1>3, ClaimTaskQuiet
<1>4. CASE /\ q.op = "confirm"
           /\ ConfirmSubmitted(q.task, q.runner, q.generation, q.session)
  BY <1>1, <1>4, ConfirmKeepsIntents
<1>5. CASE q.op # "claim" /\ OtherCall(q.runner, q.task)
  BY <1>1, <1>2, <1>5, OtherCallQuiet
<1> QED
  BY <1>3, <1>4, <1>5 DEF Serve, OtherCall

-----------------------------------------------------------------------------
(* What a device does to the portal and leaves in flight *)

\* Calls that neither record an intent nor offer a task.
PlainCall(r, t) ==
  \/ Resume(r, t) \/ ReconcileTask(r, t)
  \/ \E g : Complete(t, r, g)
  \/ \E g, stage : RecordFailure(t, r, g, stage, UnknownCode)

LEMMA PlainCallIsQuiet ==
  ASSUME TypeOK, NEW r \in Runners, NEW t \in Tasks, PlainCall(r, t)
  PROVE  IntentsStay /\ NoneOffered
<1>1. OtherCall(r, t)
  BY DEF PlainCall, OtherCall
<1>2. IntentsStay
  BY <1>1, OtherCallQuiet DEF Quiet, SameSubmission, IntentsStay
<1>3. ASSUME NEW g, NEW stage, RecordFailure(t, r, g, stage, UnknownCode)
      PROVE  NoneOffered
  <2>1. ~RetriesFailure(task[t], stage, UnknownCode)
    BY DEF RetriesFailure, UnknownCode, RetryablePreSubmitCodes
  <2> QED
    BY <1>3, <2>1, FailureWithholds
<1>4. CASE Resume(r, t) \/ ReconcileTask(r, t) \/ \E g : Complete(t, r, g)
  <2>1. HoldingCall(r, t)
    BY <1>4 DEF HoldingCall
  <2> QED
    BY <1>2, <2>1, HoldingCallWithholds
<1> QED
  BY <1>2, <1>3, <1>4 DEF PlainCall

LEMMA DeviceServes ==
  ASSUME DeviceInv, NEW r \in Runners, DeviceAction(r)
  PROVE  \/ UNCHANGED vars
         \/ ClaimTask(r)
         \/ \E t \in Tasks : PlainCall(r, t)
         \/ RecordIntent(r) \/ Confirm(r) \/ Fail(r)
<1>1. ASSUME activity[r].step \in WorkSteps \cup {"resume"}
      PROVE  activity[r].task \in Tasks
  BY <1>1 DEF DeviceInv, ActivitySound
<1>2. CASE ClaimNext(r) \/ EndPoll(r)
  BY <1>2 DEF ClaimNext, EndPoll, ClaimTask, Unanswered
<1>3. CASE \E t \in Tasks : Reconcile(r, t) \/ ReconcileFails(r, t)
  BY <1>3 DEF Reconcile, ReconcileFails, ServeReconciliation, PlainCall
<1>4. CASE ResumeTask(r)
  BY <1>1, <1>4 DEF ResumeTask, At, Answered, Serve, Request, PlainCall
<1>5. CASE CompleteTask(r)
  BY <1>1, <1>5 DEF CompleteTask, At, Answered, Serve, Request, PlainCall, WorkSteps
<1>6. CASE GiveUp(r)
  <2> DEFINE p == Request("fail", r, activity[r])
             stage == FailureStage(activity[r].assist)
             q == [p EXCEPT !.stage = stage, !.code = UnknownCode]
  <2>1. activity[r].task \in Tasks
    BY <1>1, <1>6 DEF GiveUp, At, WorkSteps
  <2>2. UNCHANGED vars \/ Serve(q)
    BY <1>6 DEF GiveUp
  <2>3. /\ q.op = "fail" /\ q.runner = r /\ q.task = activity[r].task
        /\ q.code = UnknownCode
    <3> HIDE DEF stage, UnknownCode
    <3> QED
      BY DEF Request
  <2> HIDE DEF q
  <2>4. Serve(q) =>
          RecordFailure(activity[r].task, r, q.generation, q.stage, UnknownCode)
    BY <2>3 DEF Serve
  <2> QED
    BY <2>1, <2>2, <2>4 DEF PlainCall
<1>7. CASE ResumeFails(r) \/ CallFails(r) \/ FailFails(r)
  BY <1>7 DEF ResumeFails, CallFails, FailFails, Unanswered
<1>8. CASE PassEdge(r) \/ PageWork(r) \/ Begin(r)
           \/ \E t \in Tasks : Recover(r, t) \/ RecoverNeedsHuman(r, t)
  <2>1. CASE EndPoll(r)
    BY <1>2, <2>1
  <2>2. Crash(r) => UNCHANGED vars
    BY DEF Crash
  <2> QED
    BY <1>8, <2>1, <2>2
       DEF PassEdge, StartPoll, ListDue, StartPolling, Begin, PageWork, Prepare,
           MarkIntent, SubmitOnceInPage, SeePrompt, Reattach, Collect, Recover,
           RecoverNeedsHuman, Local
<1>9. CASE \E code \in FailureCodes : OpenFails(r, code) \/ PageFails(r, code)
  BY <1>9 DEF OpenFails, PageFails, Local
<1> QED
  BY <1>2, <1>3, <1>4, <1>5, <1>6, <1>7, <1>8, <1>9
     DEF DeviceAction, PassStep, TaskStep, PassEdge, PageWork

LEMMA DeviceIntents ==
  ASSUME TypeOK, DeviceInv, NEW r \in Runners, DeviceAction(r), ~RecordIntent(r)
  PROVE  IntentsStay
<1>1. CASE UNCHANGED vars
  BY <1>1 DEF vars, IntentsStay
<1>2. CASE ClaimTask(r)
  BY <1>2, ClaimTaskQuiet DEF Quiet, SameSubmission, IntentsStay
<1>3. ASSUME Confirm(r) \/ Fail(r)
      PROVE  \E t \in Tasks : \/ OtherCall(r, t)
                              \/ \E g, s : ConfirmSubmitted(t, r, g, s)
  <2>1. activity[r].task \in Tasks
    BY <1>3 DEF Confirm, Fail, At, DeviceInv, ActivitySound, WorkSteps
  <2> QED
    BY <1>3, <2>1 DEF Confirm, Fail, Answered, Serve, Request, OtherCall
<1>4. ASSUME NEW t \in Tasks,
             OtherCall(r, t) \/ \E g, s : ConfirmSubmitted(t, r, g, s)
      PROVE  IntentsStay
  <2>1. OtherCall(r, t) => IntentsStay
    BY OtherCallQuiet DEF Quiet, SameSubmission, IntentsStay
  <2> QED
    BY <1>4, <2>1, ConfirmKeepsIntents
<1> QED
  BY <1>1, <1>2, <1>3, <1>4, DeviceServes, PlainCallIsQuiet

\* Of the calls whose answer never came, what matters later: an intent is of
\* the work under way, and so is a failure with a code of its own.
LeftBehind(r, q) ==
  /\ q.runner = r
  /\ q.op = "intent" =>
       /\ activity[r].step = "intent" /\ q.task = activity[r].task
       /\ q.session = journal[r][q.task].session
  /\ q.op = "fail" /\ q.code # UnknownCode =>
       activity[r].step = "fail" /\ q.task = activity[r].task

RequestsGrow(r) == \A q \in inflight' : q \in inflight \/ LeftBehind(r, q)

LEMMA RequestLeftBehind ==
  ASSUME NEW r, NEW op, op \in {"intent", "fail"} => activity[r].step = op
  PROVE  LeftBehind(r, Request(op, r, activity[r]))
BY DEF LeftBehind, Request

LEMMA DeviceRequests ==
  ASSUME DeviceInv, NEW r \in Runners, DeviceAction(r)
  PROVE  RequestsGrow(r)
<1>1. CASE UNCHANGED inflight
  BY <1>1 DEF RequestsGrow
<1>2. ASSUME NEW op, Unanswered(op, r),
             op \in {"intent", "fail"} => activity[r].step = op
      PROVE  RequestsGrow(r)
  BY <1>2, RequestLeftBehind DEF Unanswered, RequestsGrow
<1>3. CASE EndPoll(r) \/ ResumeFails(r) \/ CallFails(r) \/ FailFails(r)
  BY <1>1, <1>2, <1>3 DEF EndPoll, ResumeFails, CallFails, FailFails, At
<1>4. ASSUME NEW t \in Tasks
      PROVE  LeftBehind(r, Request("reconcile", r, [activity[r] EXCEPT !.task = t]))
  BY DEF LeftBehind, Request
<1>5. ASSUME NEW t \in Tasks, ReconcileFails(r, t)
      PROVE  RequestsGrow(r)
  BY <1>4, <1>5 DEF ReconcileFails, RequestsGrow
<1>6. CASE GiveUp(r)
  <2> DEFINE p == Request("fail", r, activity[r])
             stage == FailureStage(activity[r].assist)
             q == [p EXCEPT !.stage = stage, !.code = UnknownCode]
  <2>1. q.op = "fail" /\ q.runner = r /\ q.code = UnknownCode
    <3> HIDE DEF stage, UnknownCode
    <3> QED
      BY DEF Request
  <2>2. inflight' = inflight \/ inflight' = inflight \cup {q}
    BY <1>6 DEF GiveUp
  <2> HIDE DEF q
  <2> QED
    BY <2>1, <2>2 DEF RequestsGrow, LeftBehind
<1>7. CASE Crash(r)
  <2>1. ASSUME NEW q \in Pending(r) PROVE LeftBehind(r, q)
    <3>1. activity[r].todo \subseteq Tasks
      BY DEF DeviceInv, DevicesTyped, Activity
    <3>2. \/ \E op : q = Request(op, r, activity[r]) /\ op = activity[r].step
          \/ \E t \in Tasks :
               q = Request("reconcile", r, [activity[r] EXCEPT !.task = t])
          \/ q = Request("heartbeat", r, activity[r])
      BY <2>1, <3>1 DEF Pending
    <3> QED
      BY <1>4, <3>2, RequestLeftBehind
  <2> QED
    BY <1>7, <2>1 DEF Crash, RequestsGrow
<1>8. CASE \/ StartPoll(r) \/ ListDue(r) \/ StartPolling(r) \/ Begin(r) \/ PageWork(r)
           \/ \E t \in Tasks : Recover(r, t) \/ RecoverNeedsHuman(r, t)
           \/ \E code \in FailureCodes : OpenFails(r, code) \/ PageFails(r, code)
  BY <1>1, <1>8
     DEF StartPoll, ListDue, StartPolling, Begin, PageWork, Prepare, MarkIntent,
         SubmitOnceInPage, SeePrompt, Reattach, Collect, Recover, RecoverNeedsHuman,
         OpenFails, PageFails, Local
<1>9. CASE \/ ResumeTask(r) \/ RecordIntent(r) \/ Confirm(r) \/ CompleteTask(r)
           \/ Fail(r) \/ ClaimNext(r) \/ \E t \in Tasks : Reconcile(r, t)
  BY <1>1, <1>9 DEF ResumeTask, RecordIntent, Confirm, CompleteTask, Fail, ClaimNext,
                    Reconcile, Answered
<1> QED
  BY <1>3, <1>5, <1>6, <1>7, <1>8, <1>9 DEF DeviceAction, PassStep, TaskStep, PageWork

LEMMA ElsewhereIntents ==
  ASSUME TypeOK, DeviceInv, Elsewhere
  PROVE  \/ IntentsStay
         \/ \E q \in inflight :
              /\ q.op = "intent" /\ RequestSound(q, task)
              /\ RecordSubmitIntent(q.task, q.runner, q.generation, q.session)
<1>1. ASSUME UNCHANGED vars \/ Quiet PROVE IntentsStay
  BY <1>1 DEF vars, IntentsStay, Quiet, SameSubmission
<1>2. ASSUME NEW r \in Runners, Beat(r) PROVE IntentsStay
  <2> DEFINE q == Request("heartbeat", r, activity[r])
  <2>1. CallOf(activity[r], "heartbeat") /\ Serve(q)
    BY <1>2 DEF Beat, Working, CallOf, WorkSteps
  <2>2. RequestSound(q, task) /\ q.op = "heartbeat"
    BY <2>1, CallSound DEF Request
  <2> HIDE DEF q
  <2> QED
    BY <2>1, <2>2, ServeIntents
<1>3. ASSUME NEW q \in inflight, Deliver(q) \/ Drop(q)
      PROVE  \/ IntentsStay
             \/ /\ q.op = "intent" /\ RequestSound(q, task)
                /\ RecordSubmitIntent(q.task, q.runner, q.generation, q.session)
  <2>1. RequestSound(q, task)
    BY DEF DeviceInv, InflightSound
  <2> QED
    BY <1>1, <1>3, <2>1, ServeIntents DEF Deliver, Drop
<1>4. CASE PortalAlone
  <2>1. ASSUME NEW u, ReadHumanQueue(u) \/ FindNothing(u) PROVE Quiet
    BY <2>1 DEF ReadHumanQueue, FindNothing, Quiet, SameSubmission
  <2>2. Tick => Quiet
    BY DEF Tick, Quiet, SameSubmission
  <2> QED
    BY <1>1, <1>4, <2>1, <2>2, PortalStepQuiet, BatchStepQuiet DEF PortalAlone
<1>5. CASE UNCHANGED extVars
  BY <1>1, <1>5 DEF extVars
<1> QED
  BY <1>2, <1>3, <1>4, <1>5 DEF Elsewhere

\* The database writes down an intent of the lease it was given for.
Intended(t, r, g, session) ==
  /\ \A u \in Tasks \ {t} : task'[u] = task[u]
  /\ task[t].status = "claimed" /\ task[t].claimedBy = r /\ task[t].generation = g
  /\ task'[t].status = "claimed" /\ task'[t].claimedBy = r
  /\ task'[t].generation = g /\ task'[t].confirmed = task[t].confirmed
  /\ task'[t].intent /\ task'[t].session = session

LEMMA IntentGives ==
  ASSUME TypeOK, NEW r, NEW t \in Tasks, NEW g, NEW session,
         RecordSubmitIntent(t, r, g, session)
  PROVE  UNCHANGED task \/ Intended(t, r, g, session)
<1> DEFINE row == [task[t] EXCEPT !.session = session, !.intent = TRUE]
<1>1. Commit("submit_intent", batch, [task EXCEPT ![t] = row])
  BY DEF RecordSubmitIntent, UpdateOnly
<1>2. task[t] \in TaskRow /\ task \in [Tasks -> TaskRow]
  BY DEF TypeOK
<1>3. task[t].status = "claimed" /\ task[t].claimedBy = r /\ task[t].generation = g
  BY DEF RecordSubmitIntent, ActiveRunnerLease, ActiveLease
<1>4. /\ row.intent /\ row.session = session /\ row.claimedBy = r
      /\ row.status = "claimed" /\ row.generation = g
      /\ row.confirmed = task[t].confirmed
  BY <1>2, <1>3 DEF TaskRow
<1> HIDE DEF row
<1>5. task' = [task EXCEPT ![t] = row] \/ UNCHANGED task
  BY <1>1 DEF Commit, CommitFrom
<1> QED
  BY <1>2, <1>3, <1>4, <1>5 DEF Intended

LEMMA LinkedIntended ==
  ASSUME NEW r, NEW t \in Tasks, NEW g, NEW session, Intended(t, r, g, session),
         AllMove, NEW s, NEW u \in Tasks, NEW e, NEW requests, NEW later,
         Linked(s, u, e, task[u], requests),
         \A q \in later : OnItsWay(q, s, u) =>
            \/ /\ q \in requests /\ q.generation \in Nat
               /\ q.generation <= task[u].generation
            \/ Backed(q, e),
         s = r /\ u = t => e # NoEntry /\ PostSubmit(e.phase) /\ e.session = session
  PROVE  Linked(s, u, e, task'[u], later)
<1>1. RowMoves(task[u], task'[u])
  BY DEF AllMove
<1>2. CASE u # t
  <2>1. task'[u].intent = task[u].intent /\ SameSide(e, e)
    BY <1>2 DEF Intended, SameSide
  <2> QED
    BY <1>1, <2>1, LinkedStays
<1>3. CASE u = t
  <2>1. Agrees(s, e, task'[u])
    BY <1>3 DEF Linked, Agrees, Intended, Owes
  <2>2. ASSUME NEW q \in later, OnItsWay(q, s, u), Holds(q, task'[u])
        PROVE  Backed(q, e)
    BY <1>1, <2>2, HeldBefore DEF Linked
  <2> QED
    BY <2>1, <2>2 DEF Linked
<1> QED
  BY <1>2, <1>3

\* A device that does nothing stays linked while the rows move.
LEMMA WorkLinkedStays ==
  ASSUME NEW r, NEW a, NEW jr, NEW requests, NEW later, AllMove,
         WorkLinked(r, a, jr, task, requests),
         a.step \in WorkSteps => a.task \in Tasks,
         \A q \in later : OnItsWay(q, r, a.task) => q \in requests,
         a.step \in {"prepare", "mark"} => ~Owes(task'[a.task], r)
  PROVE  WorkLinked(r, a, jr, task', later)
<1>1. Outdated(r, a, requests) => Outdated(r, a, later)
  BY DEF Outdated
<1>2. ASSUME a.step \in WorkSteps, task[a.task].confirmed
      PROVE  task'[a.task].confirmed
  BY <1>2 DEF AllMove, RowMoves
<1>3. {"collect", "complete"} \subseteq WorkSteps
  BY DEF WorkSteps
<1> QED
  BY <1>1, <1>2, <1>3 DEF WorkLinked

\* What a device has on its way is of a generation its task has had.
LEMMA OnItsWaySound ==
  ASSUME DeviceInv, AllMove, NEW r, NEW t \in Tasks, NEW q \in inflight,
         OnItsWay(q, r, t)
  PROVE  q.generation \in Nat /\ q.generation <= task[t].generation
<1>1. q.generation \in 1..task[t].generation /\ task[t].generation \in Nat
  BY DEF DeviceInv, InflightSound, RequestSound, OnItsWay, LeaseOps, AllMove, RowMoves
<1> QED
  BY <1>1

\* Another device, or the portal, moves.
LEMMA OtherLinked ==
  ASSUME WorkInv, BracketInv, AllMove, IntentsStay, NEW s \in Runners,
         activity'[s] = activity[s], journal'[s] = journal[s],
         \A q \in inflight' : q.runner = s => q \in inflight
  PROVE  /\ \A t \in Tasks : Linked(s, t, journal'[s][t], task'[t], inflight')
         /\ WorkLinked(s, activity'[s], journal'[s], task', inflight')
<1>1. ASSUME NEW t \in Tasks
      PROVE  Linked(s, t, journal'[s][t], task'[t], inflight')
  <2>1. \A q \in inflight' : OnItsWay(q, s, t) =>
          q \in inflight /\ q.generation \in Nat /\ q.generation <= task[t].generation
    BY OnItsWaySound DEF OnItsWay, WorkInv
  <2>2. /\ RowMoves(task[t], task'[t]) /\ task'[t].intent = task[t].intent
        /\ Linked(s, t, journal[s][t], task[t], inflight)
        /\ SameSide(journal[s][t], journal[s][t])
    BY DEF AllMove, IntentsStay, BracketInv, SameSide
  <2>3. Linked(s, t, journal[s][t], task'[t], inflight')
    BY <2>1, <2>2, LinkedStays
  <2> QED
    BY <2>3
<1> DEFINE a == activity[s]
<1>2. a.step \in WorkSteps => a.task \in Tasks
  BY DEF WorkInv, DeviceInv, ActivitySound
<1>3. a.step \in {"prepare", "mark"} => ~Owes(task'[a.task], s)
  <2>1. ASSUME a.step \in {"prepare", "mark"}, Owes(task'[a.task], s) PROVE FALSE
    <3>1. /\ RowMoves(task[a.task], task'[a.task])
          /\ task'[a.task].intent = task[a.task].intent
      BY <1>2, <2>1 DEF WorkSteps, AllMove, IntentsStay
    <3>2. Owes(task[a.task], s)
      BY <2>1, <3>1, DebtStays
    <3> QED
      BY <2>1, <3>2 DEF BracketInv, WorkLinked
  <2> QED
    BY <2>1
<1>4. \A q \in inflight' : OnItsWay(q, s, a.task) => q \in inflight
  BY DEF OnItsWay
<1>5. WorkLinked(s, a, journal[s], task, inflight)
  BY DEF BracketInv
<1> HIDE DEF a
<1>6. WorkLinked(s, a, journal[s], task', inflight')
  BY <1>2, <1>3, <1>4, <1>5, WorkLinkedStays
<1> QED
  BY <1>1, <1>6 DEF a

\* An intent arrives that its device no longer waits for.
LEMMA LateIntentLinked ==
  ASSUME WorkInv, BracketInv, AllMove, NEW p \in inflight, p.op = "intent",
         RequestSound(p, task),
         Intended(p.task, p.runner, p.generation, p.session),
         UNCHANGED <<activity, journal>>, inflight' \subseteq inflight
  PROVE  BracketInv'
<1>1. p.task \in Tasks /\ p.generation \in 1..task[p.task].generation
  BY DEF RequestSound, LeaseOps
<1>2. Holds(p, task[p.task]) /\ OnItsWay(p, p.runner, p.task)
  BY DEF Intended, Holds, OnItsWay
<1>3. ASSUME NEW s \in Runners, NEW t \in Tasks
      PROVE  Linked(s, t, journal[s][t], task'[t], inflight')
  <2>1. \A q \in inflight' : OnItsWay(q, s, t) =>
          q \in inflight /\ q.generation \in Nat /\ q.generation <= task[t].generation
    BY OnItsWaySound DEF OnItsWay, WorkInv
  <2>2. Linked(s, t, journal[s][t], task[t], inflight)
    BY DEF BracketInv
  <2> DEFINE e == journal[s][t]
  <2>3. s = p.runner /\ t = p.task =>
          e # NoEntry /\ PostSubmit(e.phase) /\ e.session = p.session
    BY <1>2, <2>2 DEF Linked, Backed
  <2> HIDE DEF e
  <2>4. Linked(s, t, e, task'[t], inflight')
    BY <1>1, <2>1, <2>2, <2>3, LinkedIntended DEF e
  <2> QED
    BY <2>4 DEF e
<1>4. ASSUME NEW s \in Runners
      PROVE  WorkLinked(s, activity[s], journal[s], task', inflight')
  <2> DEFINE a == activity[s]
  <2>1. a.step \in WorkSteps =>
          a.task \in Tasks /\ a.generation \in 1..task[a.task].generation
    BY DEF WorkInv, DeviceInv, ActivitySound
  <2>2. WorkLinked(s, a, journal[s], task, inflight)
    BY DEF BracketInv
  <2>3. ASSUME a.step \in {"prepare", "mark"}, Owes(task'[a.task], s) PROVE FALSE
    <3>1. a.task \in Tasks /\ a.generation \in 1..task[a.task].generation
      BY <2>1, <2>3 DEF WorkSteps
    <3>2. CASE a.task # p.task
      BY <2>2, <2>3, <3>1, <3>2 DEF Intended, WorkLinked
    <3>3. CASE a.task = p.task
      <4>1. s = p.runner /\ p.generation = task[a.task].generation
        BY <2>3, <3>3 DEF Intended, Owes
      <4>2. p.generation < a.generation
        BY <1>2, <2>2, <2>3, <3>3, <4>1 DEF WorkLinked, Outdated
      <4>3. task[a.task].generation \in Nat
        BY <3>1 DEF AllMove, RowMoves
      <4> QED
        BY <3>1, <4>1, <4>2, <4>3
    <3> QED
      BY <3>2, <3>3
  <2>4. \A q \in inflight' : OnItsWay(q, s, a.task) => q \in inflight
    OBVIOUS
  <2> HIDE DEF a
  <2>5. WorkLinked(s, a, journal[s], task', inflight')
    BY <2>1, <2>2, <2>3, <2>4, WorkLinkedStays
  <2> QED
    BY <2>5 DEF a
<1> QED
  BY <1>3, <1>4 DEF BracketInv

-----------------------------------------------------------------------------
(* What a device does to its entries *)

\* What is known of a step of device r.
Moving(r) ==
  /\ WorkInv /\ WorkInv' /\ AllMove
  /\ DeviceAction(r) /\ DeviceStep(r) /\ RequestsGrow(r)

LEMMA DeviceMoving ==
  ASSUME WorkInv, [ExtNext]_extVars, NEW r \in Runners, DeviceAction(r)
  PROVE  Moving(r)
<1>1. [Next]_vars /\ WorkInv'
  BY WorkInductive
<1>2. AllMove /\ TypeOK /\ TypeOK' /\ RowsLater
  BY <1>1, NextRowsMove
<1>3. DeviceStep(r)
  BY <1>2, DeviceActionStep DEF WorkInv
<1> QED
  BY <1>1, <1>2, <1>3, DeviceRequests DEF Moving, WorkInv

\* Unless it is told that its intent is recorded, no intent is.
LEMMA NoIntent ==
  ASSUME NEW r \in Runners, Moving(r), activity[r].step # "intent"
  PROVE  IntentsStay
BY DeviceIntents DEF Moving, WorkInv, ProtocolInv, RecordIntent, At

LEMMA DeviceLinked ==
  ASSUME NEW r \in Runners, Moving(r), BracketInv, IntentsStay,
         \A t \in Tasks : Linked(r, t, journal'[r][t], task'[t], inflight'),
         WorkLinked(r, activity'[r], journal'[r], task', inflight')
  PROVE  BracketInv'
<1>1. ASSUME NEW s \in Runners, s # r
      PROVE  /\ \A t \in Tasks : Linked(s, t, journal'[s][t], task'[t], inflight')
             /\ WorkLinked(s, activity'[s], journal'[s], task', inflight')
  <2>1. activity'[s] = activity[s] /\ journal'[s] = journal[s]
    BY <1>1, OthersStay DEF Moving, WorkInv
  <2>2. \A q \in inflight' : q.runner = s => q \in inflight
    BY <1>1 DEF Moving, RequestsGrow, LeftBehind
  <2> QED
    BY <2>1, <2>2, OtherLinked DEF Moving
<1> QED
  BY <1>1 DEF BracketInv

\* An entry that keeps its side keeps its link, whatever is left in flight.
LEMMA UneditedLinked ==
  ASSUME NEW r \in Runners, Moving(r), BracketInv, IntentsStay, NEW t \in Tasks,
         SameSide(journal[r][t], journal'[r][t])
  PROVE  Linked(r, t, journal'[r][t], task'[t], inflight')
<1> DEFINE e == journal[r][t]
<1>1. ASSUME NEW q \in inflight', OnItsWay(q, r, t)
      PROVE  \/ /\ q \in inflight /\ q.generation \in Nat
                /\ q.generation <= task[t].generation
             \/ Backed(q, e)
  <2>1. CASE q \in inflight
    BY <1>1, <2>1, OnItsWaySound DEF Moving, WorkInv
  <2>2. CASE LeftBehind(r, q)
    <3>1. /\ activity[r].step = "intent" /\ t = activity[r].task
          /\ q.session = e.session
      BY <1>1, <2>2 DEF LeftBehind, OnItsWay
    <3>2. PostSubmit(e.phase)
      BY <3>1 DEF BracketInv, WorkLinked
    <3>3. e # NoEntry
      BY <3>1 DEF Moving, WorkInv, DeviceInv, ActivitySound, EntrySteps
    <3> QED
      BY <3>1, <3>2, <3>3 DEF Backed
  <2> QED
    BY <2>1, <2>2 DEF Moving, RequestsGrow
<1>2. /\ RowMoves(task[t], task'[t]) /\ task'[t].intent = task[t].intent
      /\ Linked(r, t, e, task[t], inflight)
  BY DEF Moving, AllMove, IntentsStay, BracketInv
<1> DEFINE f == journal'[r][t]
<1>3. SameSide(e, f)
  OBVIOUS
<1> HIDE DEF e, f
<1>4. Linked(r, t, f, task'[t], inflight')
  BY <1>1, <1>2, <1>3, LinkedStays
<1> QED
  BY <1>4 DEF f

\* The entry moves on, on its side of the submission.
LEMMA AdvancedLinked ==
  ASSUME NEW r \in Runners, Moving(r), BracketInv, IntentsStay, NEW t \in Tasks,
         UNCHANGED inflight,
         journal[r][t] # NoEntry, journal'[r][t] # NoEntry,
         journal'[r][t].session = journal[r][t].session,
         PostSubmit(journal'[r][t].phase),
         journal'[r][t].phase \in {"submitted", "collected"} => task'[t].confirmed
  PROVE  Linked(r, t, journal'[r][t], task'[t], inflight')
<1> DEFINE e == journal[r][t]
           f == journal'[r][t]
<1>1. Linked(r, t, e, task'[t], inflight')
  <2>1. \A q \in inflight' : OnItsWay(q, r, t) =>
          q \in inflight /\ q.generation \in Nat /\ q.generation <= task[t].generation
    BY OnItsWaySound DEF Moving, WorkInv
  <2>2. /\ RowMoves(task[t], task'[t]) /\ task'[t].intent = task[t].intent
        /\ Linked(r, t, e, task[t], inflight) /\ SameSide(e, e)
    BY DEF Moving, AllMove, IntentsStay, BracketInv, SameSide
  <2> HIDE DEF e
  <2> QED
    BY <2>1, <2>2, LinkedStays
<1>2. /\ f # NoEntry /\ f.session = e.session /\ PostSubmit(f.phase)
      /\ f.phase \in {"submitted", "collected"} => task'[t].confirmed
  OBVIOUS
<1> HIDE DEF e, f
<1>3. Linked(r, t, f, task'[t], inflight')
  BY <1>1, <1>2 DEF Linked, Agrees, Backed
<1> QED
  BY <1>3 DEF f

\* No intent that is on its way can be accepted any more.
NoneHolds(r, t) == \A q \in inflight' : OnItsWay(q, r, t) => ~Holds(q, task'[t])

LEMMA RewrittenLinked ==
  ASSUME NEW r \in Runners, NEW t \in Tasks, NoneHolds(r, t),
         Agrees(r, journal'[r][t], task'[t])
  PROVE  Linked(r, t, journal'[r][t], task'[t], inflight')
BY DEF NoneHolds, Linked

\* Outside the work, and late in it, there is little to know.
LEMMA IdleLinked ==
  ASSUME NEW r, NEW a, NEW jr, NEW rows, NEW requests, a.step \notin WorkSteps
  PROVE  WorkLinked(r, a, jr, rows, requests)
BY DEF WorkLinked, WorkSteps

LEMMA LateLinked ==
  ASSUME NEW r \in Runners, Moving(r), BracketInv, activity[r].step \in WorkSteps,
         SameLease(activity[r], activity'[r]),
         activity'[r].step \in {"ask", "page", "reattach", "confirm", "fail"}
  PROVE  WorkLinked(r, activity'[r], journal'[r], task', inflight')
<1>1. activity[r].task \in Tasks
  BY DEF Moving, WorkInv, DeviceInv, ActivitySound
<1>2. activity'[r].task = activity[r].task
      /\ activity'[r].confirmed = activity[r].confirmed
  BY DEF SameLease, SameWork
<1>3. activity[r].confirmed => task'[activity[r].task].confirmed
  <2>1. activity[r].confirmed => task[activity[r].task].confirmed
    BY DEF BracketInv, WorkLinked
  <2> QED
    BY <1>1, <2>1 DEF Moving, AllMove, RowMoves
<1> QED
  BY <1>2, <1>3 DEF WorkLinked

Unedited(r) == \A t \in Tasks : SameSide(journal[r][t], journal'[r][t])

LEMMA PlainLinked ==
  ASSUME NEW r \in Runners, Moving(r), BracketInv, IntentsStay, Unedited(r),
         \/ activity'[r].step \notin WorkSteps
         \/ /\ activity[r].step \in WorkSteps
            /\ SameLease(activity[r], activity'[r])
            /\ activity'[r].step \in {"ask", "page", "reattach", "confirm", "fail"}
  PROVE  BracketInv'
<1>1. WorkLinked(r, activity'[r], journal'[r], task', inflight')
  <2>1. CASE activity'[r].step \notin WorkSteps
    <3> DEFINE a == activity'[r]
               jr == journal'[r]
               rows == task'
               requests == inflight'
    <3>1. a.step \notin WorkSteps
      BY <2>1
    <3> HIDE DEF a, jr, rows, requests
    <3>2. WorkLinked(r, a, jr, rows, requests)
      BY <3>1, IdleLinked
    <3> QED
      BY <3>2 DEF a, jr, rows, requests
  <2> QED
    BY <2>1, LateLinked
<1>2. \A t \in Tasks : Linked(r, t, journal'[r][t], task'[t], inflight')
  BY UneditedLinked DEF Unedited
<1> QED
  BY <1>1, <1>2, DeviceLinked

LEMMA UnchangedUnedited ==
  ASSUME UNCHANGED journal, NEW r
  PROVE  Unedited(r)
BY DEF Unedited, SameSide

\* One entry is rewritten.
LEMMA WriteUnedited ==
  ASSUME DeviceInv, NEW r \in Runners, NEW t \in Tasks, NEW f, Write(r, t, f),
         SameSide(journal[r][t], f)
  PROVE  Unedited(r)
<1>1. journal'[r][t] = f /\ \A u \in Tasks \ {t} : journal'[r][u] = journal[r][u]
  BY WriteGives
<1> QED
  BY <1>1 DEF Unedited, SameSide

LEMMA NeedsHumanSide ==
  ASSUME NEW e \in Entry, NEW code
  PROVE  SameSide(e, NeedsHuman(e, code))
<1> DEFINE f == NeedsHuman(e, code)
           blocking == code \in BlockingCodes
<1>1. f = [e EXCEPT !.waiting = TRUE, !.blocking = blocking]
  BY DEF NeedsHuman
<1>2. blocking \in BOOLEAN
  OBVIOUS
<1> HIDE DEF blocking, f
<1>3. f \in Entry /\ f.phase = e.phase /\ f.session = e.session
  BY <1>1, <1>2 DEF Entry
<1> QED
  BY <1>3, NoEntryAssumption DEF SameSide, f

LEMMA EntryOf ==
  ASSUME DeviceInv, NEW r \in Runners, NEW t \in Tasks, journal[r][t] # NoEntry
  PROVE  journal[r][t] \in Entry
BY DEF DeviceInv, DevicesTyped, Journal

LEMMA RememberUnedited ==
  ASSUME DeviceInv, NEW r \in Runners, NEW t \in Tasks, Remember(r, t)
  PROVE  Unedited(r)
<1>1. CASE UNCHANGED journal
  BY <1>1, UnchangedUnedited
<1>2. CASE /\ journal[r][t] # NoEntry
           /\ Write(r, t, NeedsHuman(journal[r][t], UnknownCode))
  BY <1>2, EntryOf, NeedsHumanSide, WriteUnedited
<1> QED
  BY <1>1, <1>2 DEF Remember

LEMMA BreakUnedited ==
  ASSUME DeviceInv, NEW r \in Runners, activity[r].task \in Tasks, NEW code,
         Break(r, code)
  PROVE  /\ Unedited(r) /\ activity'[r].step = "fail"
         /\ SameLease(activity[r], activity'[r])
<1> DEFINE t == activity[r].task
<1>1. CASE UNCHANGED journal
  BY <1>1, UnchangedUnedited, BrokenFields DEF Break
<1>2. CASE journal[r][t] # NoEntry /\ Write(r, t, NeedsHuman(journal[r][t], code))
  <2>1. Unedited(r)
    BY <1>2, EntryOf, NeedsHumanSide, WriteUnedited
  <2> QED
    BY <2>1, BrokenFields DEF Break
<1> QED
  BY <1>1, <1>2 DEF Break

-----------------------------------------------------------------------------
(* Steps that leave the submission alone *)

LEMMA CalmIntents ==
  ASSUME UNCHANGED vars
  PROVE  IntentsStay
BY DEF vars, IntentsStay

LEMMA DoneIdle ==
  ASSUME DeviceInv, NEW r \in Runners, NEW stop, After(r, stop)
  PROVE  activity'[r].step \notin WorkSteps
<1>1. activity[r].mode \in {"poll", "auto", "manual"}
  BY DEF DeviceInv, DevicesTyped, Activity
<1>2. activity'[r].step \in {"recover", "claim", "idle"}
  BY <1>1, DoneFields
<1> QED
  BY <1>2 DEF WorkSteps

LEMMA PassEdgeLinked ==
  ASSUME NEW r \in Runners, Moving(r), BracketInv, PassEdge(r)
  PROVE  BracketInv'
<1>0. DeviceInv
  BY DEF Moving, WorkInv
<1>1. UNCHANGED journal
  BY DEF PassEdge, StartPoll, ListDue, StartPolling, EndPoll, Crash
<1>2. activity'[r].step \in {"idle", "reconcile", "recover", "claim"}
  BY <1>0, StartPollFields, ListDueFields, StartPollingFields, StoppedFields
     DEF PassEdge
<1>3. IntentsStay
  <2>1. CASE Crash(r)
    BY <2>1, CalmIntents DEF Crash
  <2>2. CASE ~Crash(r)
    BY <2>2, NoIntent DEF PassEdge, StartPoll, ListDue, StartPolling, EndPoll, At
  <2> QED
    BY <2>1, <2>2
<1> QED
  BY <1>1, <1>2, <1>3, PlainLinked, UnchangedUnedited DEF WorkSteps

\* The work on a task ends, or has not begun, without news of the submission.
LEMMA EndingLinked ==
  ASSUME NEW r \in Runners, Moving(r), BracketInv,
         \/ ResumeFails(r) \/ GiveUp(r) \/ FailFails(r)
         \/ \E t \in Tasks : ReconcileFails(r, t) \/ RecoverNeedsHuman(r, t)
  PROVE  BracketInv'
<1>0. DeviceInv
  BY DEF Moving, WorkInv
<1>1. IntentsStay
  BY NoIntent DEF ResumeFails, GiveUp, FailFails, ReconcileFails, RecoverNeedsHuman, At
<1>2. CASE ResumeFails(r) \/ GiveUp(r)
  <2>1. activity[r].task \in Tasks
    BY <1>0, <1>2 DEF DeviceInv, ActivitySound, ResumeFails, GiveUp, At, WorkSteps
  <2>2. Remember(r, activity[r].task) /\ After(r, FALSE)
    BY <1>2 DEF ResumeFails, GiveUp
  <2> QED
    BY <1>0, <1>1, <2>1, <2>2, RememberUnedited, DoneIdle, PlainLinked
<1>3. CASE FailFails(r)
  <2>1. UNCHANGED journal /\ After(r, TRUE)
    BY <1>3 DEF FailFails
  <2> QED
    BY <1>0, <1>1, <2>1, UnchangedUnedited, DoneIdle, PlainLinked
<1>4. ASSUME NEW t \in Tasks, ReconcileFails(r, t) \/ RecoverNeedsHuman(r, t)
      PROVE  BracketInv'
  <2>1. UNCHANGED journal
    BY <1>4 DEF ReconcileFails, RecoverNeedsHuman
  <2>2. ReconcileFails(r, t) => activity'[r].step = "reconcile"
    BY <1>0, PassedFields DEF ReconcileFails, At
  <2>3. activity'[r].step \notin WorkSteps
    BY <1>0, <1>4, <2>2, RecoverNeedsHumanFields DEF WorkSteps
  <2> QED
    BY <1>1, <2>1, <2>3, UnchangedUnedited, PlainLinked
<1> QED
  BY <1>2, <1>3, <1>4

LEMMA RecoverLinked ==
  ASSUME NEW r \in Runners, Moving(r), BracketInv, NEW t \in Tasks, Recover(r, t)
  PROVE  BracketInv'
<1>0. DeviceInv
  BY DEF Moving, WorkInv
<1>1. activity[r].step = "recover" /\ t \in activity[r].todo
      /\ activity'[r].step = "resume"
  BY <1>0, RecoverFields
<1>2. journal[r][t] # NoEntry /\ journal[r][t].tries < 2
  BY <1>0, <1>1 DEF DeviceInv, ActivitySound
<1>3. journal[r][t] \in Entry
  BY <1>0, <1>2, EntryOf
<1> DEFINE e == journal[r][t]
           f == [e EXCEPT !.tries = e.tries + 1, !.contacts = e.contacts + 1]
<1>4. Write(r, t, f)
  BY DEF Recover
<1>5. SameSide(e, f)
  <2>1. e.tries + 1 \in 0..2 /\ e.contacts + 1 \in Nat
    BY <1>2, <1>3 DEF Entry
  <2>2. f \in Entry /\ f.phase = e.phase /\ f.session = e.session
    BY <1>3, <2>1 DEF Entry
  <2> QED
    BY <1>2, <2>2, NoEntryAssumption DEF SameSide
<1> HIDE DEF f
<1>6. Unedited(r)
  BY <1>0, <1>4, <1>5, WriteUnedited
<1> QED
  BY <1>1, <1>6, NoIntent, PlainLinked DEF WorkSteps

LEMMA BreakLinked ==
  ASSUME NEW r \in Runners, Moving(r), BracketInv, activity[r].step \in WorkSteps,
         UNCHANGED vars, NEW code, Break(r, code)
  PROVE  BracketInv'
<1>1. DeviceInv /\ activity[r].task \in Tasks
  BY DEF Moving, WorkInv, DeviceInv, ActivitySound
<1> QED
  BY <1>1, CalmIntents, BreakUnedited, PlainLinked

LEMMA BrokenLinked ==
  ASSUME NEW r \in Runners, Moving(r), BracketInv,
         CallFails(r) \/ \E code \in FailureCodes : PageFails(r, code)
  PROVE  BracketInv'
<1>1. activity[r].step \in WorkSteps /\ UNCHANGED vars
  BY DEF CallFails, PageFails, At, WorkSteps, Unanswered, Local
<1>2. PICK code : Break(r, code)
  BY DEF CallFails, PageFails
<1> QED
  BY <1>1, <1>2, BreakLinked

\* The page is asked, and the prompt is looked for.
LEMMA LookLinked ==
  ASSUME NEW r \in Runners, Moving(r), BracketInv,
         \/ SubmitOnceInPage(r) \/ SeePrompt(r)
         \/ Reattach(r) /\ ~activity[r].confirmed
  PROVE  BracketInv'
<1>1. /\ activity[r].step \in {"ask", "page", "reattach"}
      /\ UNCHANGED <<vars, journal>>
      /\ Go(r, "page") \/ Go(r, "confirm")
  BY DEF SubmitOnceInPage, SeePrompt, Reattach, At, Local
<1>2. /\ activity'[r].step \in {"page", "confirm"}
      /\ SameLease(activity[r], activity'[r])
  BY <1>1, GoFields DEF Moving, WorkInv
<1> QED
  BY <1>1, <1>2, CalmIntents, UnchangedUnedited, PlainLinked DEF WorkSteps

-----------------------------------------------------------------------------
(* Claims, resumes and the way to the intent *)

\* One entry is rewritten, the others keep their links.
LEMMA WrittenLinked ==
  ASSUME NEW r \in Runners, Moving(r), BracketInv, IntentsStay,
         NEW t \in Tasks, NEW f, Write(r, t, f),
         Linked(r, t, journal'[r][t], task'[t], inflight'),
         WorkLinked(r, activity'[r], journal'[r], task', inflight')
  PROVE  BracketInv'
<1>1. DeviceInv
  BY DEF Moving, WorkInv
<1>2. \A u \in Tasks \ {t} : journal'[r][u] = journal[r][u]
  BY <1>1, WriteGives
<1>3. ASSUME NEW u \in Tasks
      PROVE  Linked(r, u, journal'[r][u], task'[u], inflight')
  <2>1. CASE u = t
    BY <2>1
  <2>2. CASE u # t
    <3>1. SameSide(journal[r][u], journal'[r][u])
      BY <1>2, <2>2 DEF SameSide
    <3> QED
      BY <3>1, UneditedLinked
  <2> QED
    BY <2>1, <2>2
<1> QED
  BY <1>3, DeviceLinked

\* A new lease outdates what is on its way.
LEMMA NewLease ==
  ASSUME NEW r \in Runners, Moving(r), NEW t \in Tasks, Leases(r, t),
         UNCHANGED inflight
  PROVE  /\ NoneHolds(r, t)
         /\ \A q \in inflight' : OnItsWay(q, r, t) => q.generation < task'[t].generation
<1>1. task[t].generation \in Nat /\ task'[t].generation = task[t].generation + 1
  BY DEF Moving, AllMove, RowMoves, Leases
<1>2. ASSUME NEW q \in inflight', OnItsWay(q, r, t)
      PROVE  q.generation < task'[t].generation
  <2>1. q.generation \in Nat /\ q.generation <= task[t].generation
    BY <1>2, OnItsWaySound DEF Moving, WorkInv
  <2> QED
    BY <1>1, <2>1
<1>3. ASSUME NEW q \in inflight', OnItsWay(q, r, t)
      PROVE  ~Holds(q, task'[t])
  <2>1. q.generation \in Nat /\ q.generation < task'[t].generation
    BY <1>2, <1>3, OnItsWaySound DEF Moving, WorkInv
  <2> QED
    BY <1>1, <2>1 DEF Holds
<1> QED
  BY <1>2, <1>3 DEF NoneHolds

LEMMA ClaimLinked ==
  ASSUME NEW r \in Runners, Moving(r), BracketInv, ClaimNext(r)
  PROVE  BracketInv'
<1>0. DeviceInv /\ TypeOK
  BY DEF Moving, WorkInv, ProtocolInv
<1>1. PICK t \in Tasks, parked \in SUBSET (ExpiredRunnerClaims \cup Exhausted) :
        /\ Claim(r, t, parked)
        /\ refused' = "none"
        /\ WorkOn(r, t, "begin", FALSE, FALSE)
  BY DEF ClaimNext
<1>2. UNCHANGED <<journal, inflight>> /\ activity[r].step = "claim"
  BY DEF ClaimNext, At
<1>3. Leases(r, t)
  BY <1>0, <1>1, ClaimGives
<1>4. /\ activity'[r].step = "begin" /\ activity'[r].task = t
      /\ activity'[r].generation = task'[t].generation /\ ~activity'[r].confirmed
  <2>1. PICK no : no = FALSE /\ WorkOn(r, t, "begin", no, no)
    BY <1>1
  <2>2. activity'[r].confirmed = no
    BY <1>0, <2>1, WorkOnFields
  <2> QED
    BY <1>0, <2>1, <2>2, WorkOnFields
<1>5. WorkLinked(r, activity'[r], journal'[r], task', inflight')
  <2>1. \A q \in inflight' : OnItsWay(q, r, t) => q.generation < task'[t].generation
    BY <1>2, <1>3, NewLease
  <2> QED
    BY <1>4, <2>1 DEF WorkLinked, Outdated
<1>6. IntentsStay
  BY <1>2, NoIntent
<1>7. \A u \in Tasks : Linked(r, u, journal'[r][u], task'[u], inflight')
  BY <1>2, <1>6, UneditedLinked DEF SameSide
<1> QED
  BY <1>5, <1>6, <1>7, DeviceLinked

\* The entry of a resumed task agrees with the row it was resumed from.
LEMMA ResumedAgrees ==
  ASSUME NEW r \in Runners, NEW t \in Tasks, NEW e \in Entry, NEW new,
         task[t].intent \in BOOLEAN, new.intent = task[t].intent,
         new.confirmed = task[t].confirmed,
         new.intent => new.session = task[t].session,
         task[t].intent => task[t].session = e.session,
         Agrees(r, e, task[t])
  PROVE  Agrees(r, ResumedEntry(e, t), new)
<1>1. CASE ~task[t].intent
  <2> DEFINE f == [e EXCEPT !.phase = "claimed", !.waiting = FALSE]
  <2>1. ResumedEntry(e, t) = f /\ f.phase = "claimed"
    BY <1>1 DEF ResumedEntry, Entry
  <2> QED
    BY <1>1, <2>1 DEF Agrees, Owes
<1>2. CASE task[t].intent /\ PostSubmit(e.phase)
  <2>1. ResumedEntry(e, t) = e
    BY <1>2 DEF ResumedEntry
  <2> QED
    BY <1>2, <2>1, NoEntryAssumption DEF Agrees, Owes
<1>3. CASE task[t].intent /\ ~PostSubmit(e.phase)
  <2> DEFINE phase == IF task[t].confirmed THEN "submitted" ELSE "submit_intent"
             f == [e EXCEPT !.phase = phase]
  <2>1. ResumedEntry(e, t) = f
    BY <1>3 DEF ResumedEntry, Advanced
  <2>2. /\ phase \in EntryPhases /\ PostSubmit(phase)
        /\ phase \in {"submitted", "collected"} => task[t].confirmed
    BY DEF EntryPhases, PostSubmit
  <2> HIDE DEF phase
  <2>3. f \in Entry /\ f.phase = phase /\ f.session = e.session
    BY <2>2 DEF Entry
  <2> QED
    BY <1>3, <2>1, <2>2, <2>3, NoEntryAssumption DEF Agrees, Owes
<1> QED
  BY <1>1, <1>2, <1>3

LEMMA ResumeLinked ==
  ASSUME NEW r \in Runners, Moving(r), BracketInv, ResumeTask(r)
  PROVE  BracketInv'
<1> DEFINE t == activity[r].task
           e == journal[r][t]
<1>0. DeviceInv /\ TypeOK
  BY DEF Moving, WorkInv, ProtocolInv
<1>1. t \in Tasks /\ Leases(r, t) /\ task'[t].confirmed = task[t].confirmed
  BY <1>0, ResumeTaskGives
<1>2. UNCHANGED inflight /\ activity[r].step = "resume"
  BY DEF ResumeTask, Answered, At
<1>3. IntentsStay
  BY <1>2, NoIntent
<1>4. \A q \in inflight' : OnItsWay(q, r, t) => q.generation < task'[t].generation
  BY <1>1, <1>2, NewLease
<1>5. ASSUME NEW step \in {"begin", "give_up"},
             WorkOn(r, t, step, task[t].intent, task[t].confirmed)
      PROVE  WorkLinked(r, activity'[r], journal'[r], task', inflight')
  <2>1. /\ activity'[r].step = step /\ activity'[r].task = t
        /\ activity'[r].generation = task'[t].generation
        /\ activity'[r].confirmed = task[t].confirmed
    BY <1>0, <1>5, WorkOnFields
  <2> QED
    BY <1>1, <1>4, <2>1 DEF WorkLinked, Outdated
<1>6. CASE /\ UNCHANGED journal
           /\ WorkOn(r, t, "give_up", task[t].intent, task[t].confirmed)
  <2>1. \A u \in Tasks : Linked(r, u, journal'[r][u], task'[u], inflight')
    BY <1>3, <1>6, UneditedLinked DEF SameSide
  <2> QED
    BY <1>3, <1>5, <1>6, <2>1, DeviceLinked
<1>7. CASE /\ ResumeFits(r, t)
           /\ Write(r, t, ResumedEntry(e, t))
           /\ WorkOn(r, t, "begin", task[t].intent, task[t].confirmed)
  <2>1. e \in Entry
    <3>1. e # NoEntry
      BY <1>0, <1>2 DEF DeviceInv, ActivitySound, EntrySteps
    <3> QED
      BY <1>0, <1>1, <3>1, EntryOf
  <2>2. /\ task[t].intent \in BOOLEAN /\ task'[t].intent = task[t].intent
        /\ task'[t].intent => task'[t].session = task[t].session
    BY <1>1 DEF Moving, AllMove, RowMoves, Leases
  <2>3. Agrees(r, e, task[t]) /\ (task[t].intent => task[t].session = e.session)
    BY <1>1, <1>7 DEF BracketInv, Linked, ResumeFits
  <2> DEFINE f == ResumedEntry(e, t)
             new == task'[t]
  <2>4. /\ new.intent = task[t].intent /\ new.confirmed = task[t].confirmed
        /\ new.intent => new.session = task[t].session
    BY <1>1, <2>2
  <2>5. Write(r, t, f)
    BY <1>7
  <2> HIDE DEF e, new
  <2>6. Agrees(r, f, new)
    BY <1>1, <2>1, <2>2, <2>3, <2>4, ResumedAgrees
  <2> HIDE DEF f
  <2>7. journal'[r][t] = f
    BY <1>0, <1>1, <2>5, WriteGives
  <2>8. Linked(r, t, journal'[r][t], task'[t], inflight')
    BY <1>1, <1>2, <2>6, <2>7, NewLease, RewrittenLinked DEF new
  <2> QED
    BY <1>1, <1>3, <1>5, <1>7, <2>5, <2>8, WrittenLinked
<1> QED
  BY <1>6, <1>7 DEF ResumeTask


\* Before the intent nothing that is on its way can be accepted.
LEMMA EarlyNoneHolds ==
  ASSUME NEW r \in Runners, Moving(r), BracketInv, Local,
         activity[r].step \in {"begin", "prepare", "mark"}
  PROVE  NoneHolds(r, activity[r].task)
<1> DEFINE a == activity[r]
<1>1. /\ a.task \in Tasks /\ a.generation \in 1..task[a.task].generation
      /\ task[a.task].generation \in Nat /\ UNCHANGED task
  BY DEF Moving, WorkInv, DeviceInv, ActivitySound, WorkSteps, AllMove, RowMoves,
         Local, vars
<1>2. Outdated(r, a, inflight)
  BY DEF BracketInv, WorkLinked
<1>3. ASSUME NEW q \in inflight', OnItsWay(q, r, a.task)
      PROVE  ~Holds(q, task'[a.task])
  <2>1. q \in inflight
    BY DEF Local
  <2>2. q.generation \in Nat /\ q.generation < a.generation
    BY <1>1, <1>2, <1>3, <2>1, OnItsWaySound DEF Outdated, Moving, WorkInv
  <2> QED
    BY <1>1, <2>2 DEF Holds
<1> QED
  BY <1>3 DEF NoneHolds

LEMMA EarlyLinked ==
  ASSUME NEW r \in Runners, Moving(r), BracketInv, Local,
         activity[r].step \in {"begin", "prepare", "mark"},
         SameLease(activity[r], activity'[r]),
         activity'[r].step \in {"prepare", "mark", "intent"},
         ~Owes(task[activity[r].task], r),
         activity'[r].step = "intent" =>
           PostSubmit(journal'[r][activity[r].task].phase)
  PROVE  WorkLinked(r, activity'[r], journal'[r], task', inflight')
<1>1. /\ activity'[r].task = activity[r].task
      /\ activity'[r].generation = activity[r].generation
      /\ activity'[r].confirmed = activity[r].confirmed
      /\ UNCHANGED <<task, inflight>>
  BY DEF SameLease, SameWork, Local, vars
<1>2. Outdated(r, activity'[r], inflight')
  BY <1>1 DEF BracketInv, WorkLinked, Outdated
<1>3. activity'[r].confirmed => task'[activity'[r].task].confirmed
  BY <1>1 DEF BracketInv, WorkLinked, WorkSteps
<1> QED
  BY <1>1, <1>2, <1>3 DEF WorkLinked

LEMMA EarlyWritten ==
  ASSUME NEW r \in Runners, Moving(r), BracketInv, Local,
         activity[r].step \in {"begin", "prepare", "mark"},
         ~Owes(task[activity[r].task], r),
         NEW f \in Entry, Write(r, activity[r].task, f),
         f.phase \notin {"submitted", "collected"},
         WorkLinked(r, activity'[r], journal'[r], task', inflight')
  PROVE  BracketInv'
<1> DEFINE t == activity[r].task
<1>1. DeviceInv /\ t \in Tasks
  BY DEF Moving, WorkInv, DeviceInv, ActivitySound, WorkSteps
<1>2. IntentsStay /\ UNCHANGED task
  BY CalmIntents DEF Local, vars
<1>3. journal'[r][t] = f
  BY <1>1, WriteGives
<1>4. Agrees(r, journal'[r][t], task'[t])
  BY <1>1, <1>2, <1>3 DEF Agrees
<1>5. Linked(r, t, journal'[r][t], task'[t], inflight')
  BY <1>1, <1>4, EarlyNoneHolds, RewrittenLinked
<1> QED
  BY <1>1, <1>2, <1>5, WrittenLinked

\* The device's own entry says whether it owes the portal anything.
LEMMA NothingOwed ==
  ASSUME BracketInv, NEW r \in Runners, NEW t \in Tasks,
         journal[r][t] = NoEntry \/ ~PostSubmit(journal[r][t].phase)
  PROVE  ~Owes(task[t], r)
BY DEF BracketInv, Linked, Agrees

LEMMA FreshEntry ==
  ASSUME NEW r \in Runners, NEW g \in 1..MaxGeneration, NEW code
  PROVE  /\ NewEntry(SessionOf(r, g)) \in Entry
         /\ NewEntry(SessionOf(r, g)).phase = "claimed"
         /\ NeedsHuman(NewEntry(SessionOf(r, g)), code) \in Entry
         /\ NeedsHuman(NewEntry(SessionOf(r, g)), code).phase = "claimed"
<1> DEFINE e == NewEntry(SessionOf(r, g))
<1>1. e \in Entry /\ e.phase = "claimed"
  BY NewEntryTyped DEF NewEntry
<1> HIDE DEF e
<1>2. SameSide(e, NeedsHuman(e, code))
  BY <1>1, NeedsHumanSide
<1>3. SameTries(e, NeedsHuman(e, code))
  BY <1>1, EntriesKeepTries DEF EntryPhases
<1>4. NeedsHuman(e, code) \in Entry /\ NeedsHuman(e, code).phase = "claimed"
  BY <1>1, <1>2, <1>3 DEF SameSide, SameTries
<1> QED
  BY <1>1, <1>4 DEF e

\* What a device that begins knows of its task.
LEMMA AtBegin ==
  ASSUME NEW r \in Runners, Moving(r), activity[r].step = "begin"
  PROVE  /\ DeviceInv /\ activity[r].step \in WorkSteps /\ activity[r].task \in Tasks
         /\ activity[r].generation \in 1..MaxGeneration
<1> DEFINE a == activity[r]
           t == a.task
<1>1. DeviceInv /\ TypeOK /\ a.step \in WorkSteps
  BY DEF Moving, WorkInv, ProtocolInv, WorkSteps
<1>2. /\ a.generation \in 1..task[t].generation
      /\ a.generation \in 0..MaxGeneration /\ t \in Tasks
  BY <1>1 DEF DeviceInv, ActivitySound, DevicesTyped, Activity
<1>3. task[t].generation \in Nat
  BY <1>1, <1>2 DEF TypeOK, TaskRow
<1> QED
  BY <1>1, <1>2, <1>3, TimeAssumption

LEMMA BeginLinked ==
  ASSUME NEW r \in Runners, Moving(r), BracketInv, Begin(r)
  PROVE  BracketInv'
<1> DEFINE a == activity[r]
           t == a.task
           e == journal[r][t]
<1>0. /\ DeviceInv /\ a.step = "begin" /\ a.step \in WorkSteps /\ t \in Tasks
      /\ a.generation \in 1..MaxGeneration
  BY AtBegin DEF Begin, At
<1>1. Local
  BY DEF Begin
<1>2. IntentsStay /\ UNCHANGED <<vars, inflight>>
  BY <1>1, CalmIntents DEF Local
<1>3. ASSUME Go(r, "prepare")
      PROVE  activity'[r].step = "prepare" /\ SameLease(activity[r], activity'[r])
  BY <1>0, <1>3, GoFields
<1>4. CASE Break(r, UnknownCode)
  BY <1>0, <1>2, <1>4, BreakLinked
<1>5. CASE /\ e # NoEntry
           /\ Write(r, t, [e EXCEPT !.phase = "submit_intent", !.waiting = FALSE])
           /\ Go(r, "reattach")
  <2> DEFINE f == [e EXCEPT !.phase = "submit_intent", !.waiting = FALSE]
  <2>1. e \in Entry
    BY <1>0, <1>5, EntryOf
  <2>2. f \in Entry /\ f.phase = "submit_intent" /\ f.session = e.session
    <3> HIDE DEF e
    <3> QED
      BY <2>1 DEF Entry, EntryPhases
  <2>3. Write(r, t, f)
    BY <1>5
  <2> HIDE DEF f
  <2>4. journal'[r][t] = f
    BY <1>0, <2>3, WriteGives
  <2>5. PostSubmit(f.phase) /\ f.phase \notin {"submitted", "collected"}
    BY <2>2 DEF PostSubmit
  <2>6. Linked(r, t, journal'[r][t], task'[t], inflight')
    BY <1>0, <1>2, <1>5, <2>2, <2>4, <2>5, NoEntryAssumption, AdvancedLinked
  <2>7. activity'[r].step = "reattach" /\ SameLease(activity[r], activity'[r])
    BY <1>0, <1>5, GoFields
  <2> QED
    BY <1>0, <1>2, <2>3, <2>6, <2>7, LateLinked, WrittenLinked
<1>6. CASE /\ e = NoEntry
           /\ Write(r, t, NewEntry(SessionOf(r, a.generation)))
           /\ Go(r, "prepare")
  <2> DEFINE f == NewEntry(SessionOf(r, a.generation))
  <2>1. f \in Entry /\ f.phase = "claimed"
    BY <1>0, FreshEntry
  <2>2. Write(r, t, f)
    BY <1>6
  <2> HIDE DEF f
  <2>3. ~Owes(task[t], r)
    BY <1>0, <1>6, NothingOwed
  <2>4. WorkLinked(r, activity'[r], journal'[r], task', inflight')
    BY <1>0, <1>1, <1>3, <1>6, <2>3, EarlyLinked
  <2> QED
    BY <1>0, <1>1, <2>1, <2>2, <2>3, <2>4, EarlyWritten
<1>7. CASE /\ e # NoEntry /\ ~AtOrAfterIntent(e)
           /\ UNCHANGED journal /\ Go(r, "prepare")
  <2>1. ~Owes(task[t], r)
    BY <1>0, <1>7, NothingOwed DEF AtOrAfterIntent
  <2>2. WorkLinked(r, activity'[r], journal'[r], task', inflight')
    BY <1>0, <1>1, <1>3, <1>7, <2>1, EarlyLinked
  <2>3. \A u \in Tasks : Linked(r, u, journal'[r][u], task'[u], inflight')
    BY <1>2, <1>7, UneditedLinked DEF SameSide
  <2> QED
    BY <1>2, <2>2, <2>3, DeviceLinked
<1> QED
  BY <1>4, <1>5, <1>6, <1>7 DEF Begin

LEMMA OpenLinked ==
  ASSUME NEW r \in Runners, Moving(r), BracketInv, NEW code, OpenFails(r, code)
  PROVE  BracketInv'
<1> DEFINE a == activity[r]
           t == a.task
<1>0. /\ DeviceInv /\ a.step = "begin" /\ a.step \in WorkSteps /\ t \in Tasks
      /\ a.generation \in 1..MaxGeneration
  BY AtBegin DEF OpenFails, At
<1>1. Local /\ journal[r][t] = NoEntry
  BY DEF OpenFails
<1>2. IntentsStay
  BY <1>1, CalmIntents DEF Local
<1>3. activity'[r].step = "fail" /\ SameLease(activity[r], activity'[r])
  <2>1. PICK stage : activity' = [activity EXCEPT ![r] =
          [@ EXCEPT !.step = "fail", !.stage = stage, !.code = code]]
    BY DEF OpenFails
  <2> QED
    BY <1>0, <2>1, BrokenFields
<1>4. CASE UNCHANGED journal
  BY <1>0, <1>2, <1>3, <1>4, UnchangedUnedited, PlainLinked
<1>5. CASE Write(r, t, NeedsHuman(NewEntry(SessionOf(r, a.generation)), code))
  <2> DEFINE f == NeedsHuman(NewEntry(SessionOf(r, a.generation)), code)
  <2>1. f \in Entry /\ f.phase = "claimed"
    BY <1>0, FreshEntry
  <2>2. Write(r, t, f)
    BY <1>5
  <2> HIDE DEF f
  <2>3. ~Owes(task[t], r)
    BY <1>0, <1>1, NothingOwed
  <2>4. WorkLinked(r, activity'[r], journal'[r], task', inflight')
    BY <1>0, <1>3, LateLinked
  <2> QED
    BY <1>0, <1>1, <2>1, <2>2, <2>3, <2>4, EarlyWritten
<1> QED
  BY <1>4, <1>5 DEF OpenFails

LEMMA PhaseAdvances ==
  ASSUME NEW e \in Entry, NEW phase \in EntryPhases
  PROVE  /\ Advanced(e, phase) \in Entry
         /\ Advanced(e, phase).phase = phase
         /\ Advanced(e, phase).session = e.session
BY DEF Advanced, Entry

LEMMA PrepareLinked ==
  ASSUME NEW r \in Runners, Moving(r), BracketInv, Prepare(r) \/ MarkIntent(r)
  PROVE  BracketInv'
<1> DEFINE a == activity[r]
           t == a.task
           e == journal[r][t]
<1>0. DeviceInv /\ a.step \in {"prepare", "mark"} /\ Local
  BY DEF Moving, WorkInv, Prepare, MarkIntent, At
<1>1. t \in Tasks /\ e \in Entry
  <2>1. t \in Tasks /\ e # NoEntry
    BY <1>0 DEF DeviceInv, ActivitySound, WorkSteps, EntrySteps
  <2> QED
    BY <1>0, <2>1, EntryOf
<1>2. ~Owes(task[t], r)
  BY <1>0 DEF BracketInv, WorkLinked
<1>3. PICK phase \in {"prepared", "submit_intent"}, step \in {"mark", "intent"} :
        /\ Write(r, t, Advanced(e, phase)) /\ Go(r, step)
        /\ step = "intent" => phase = "submit_intent"
  BY DEF Prepare, MarkIntent
<1> DEFINE f == Advanced(e, phase)
<1>4. f \in Entry /\ f.phase = phase
  BY <1>1, PhaseAdvances DEF EntryPhases
<1>5. Write(r, t, f)
  BY <1>3
<1> HIDE DEF f
<1>6. journal'[r][t] = f
  BY <1>0, <1>1, <1>5, WriteGives
<1>7. activity'[r].step = step /\ SameLease(activity[r], activity'[r])
  BY <1>0, <1>3, GoFields
<1>8. WorkLinked(r, activity'[r], journal'[r], task', inflight')
  <2>1. activity'[r].step = "intent" => PostSubmit(journal'[r][t].phase)
    BY <1>3, <1>4, <1>6, <1>7 DEF PostSubmit
  <2> QED
    BY <1>0, <1>2, <1>7, <2>1, EarlyLinked
<1> QED
  BY <1>0, <1>2, <1>4, <1>5, <1>8, EarlyWritten

-----------------------------------------------------------------------------
(* From the confirmation to the end of a task *)

LEMMA DoneLinked ==
  ASSUME NEW r \in Runners, activity'[r].step \notin WorkSteps
  PROVE  WorkLinked(r, activity'[r], journal'[r], task', inflight')
<1> DEFINE a == activity'[r]
           jr == journal'[r]
           rows == task'
           requests == inflight'
<1>1. a.step \notin WorkSteps
  OBVIOUS
<1> HIDE DEF a, jr, rows, requests
<1>2. WorkLinked(r, a, jr, rows, requests)
  BY <1>1, IdleLinked
<1> QED
  BY <1>2 DEF a, jr, rows, requests

LEMMA ConfirmGives ==
  ASSUME TypeOK, NEW t \in Tasks, NEW r, NEW g, NEW session,
         ConfirmSubmitted(t, r, g, session), refused' = "none"
  PROVE  task'[t].confirmed
<1> DEFINE row == [task[t] EXCEPT !.confirmed = TRUE]
<1>1. task[t] \in TaskRow /\ task \in [Tasks -> TaskRow]
  BY DEF TypeOK
<1>2. Commit("submit_confirmed", batch, [task EXCEPT ![t] = row])
  BY DEF ConfirmSubmitted, UpdateOnly
<1>3. row.confirmed
  BY <1>1 DEF TaskRow
<1> HIDE DEF row
<1>4. task' = [task EXCEPT ![t] = row]
  BY <1>2 DEF Commit, CommitFrom
<1> QED
  BY <1>1, <1>3, <1>4

LEMMA AdvanceLinked ==
  ASSUME NEW r \in Runners, Moving(r), BracketInv, UNCHANGED inflight,
         activity[r].step \in {"reattach", "confirm", "collect"},
         task'[activity[r].task].confirmed,
         NEW phase \in {"submitted", "collected"},
         Write(r, activity[r].task, Advanced(journal[r][activity[r].task], phase)),
         NEW step \in {"collect", "complete"}, Go(r, step)
  PROVE  BracketInv'
<1> DEFINE t == activity[r].task
           e == journal[r][t]
           f == Advanced(e, phase)
<1>1. DeviceInv /\ IntentsStay
  BY NoIntent DEF Moving, WorkInv
<1>2. t \in Tasks /\ e # NoEntry
  BY <1>1 DEF DeviceInv, ActivitySound, WorkSteps, EntrySteps
<1>3. e \in Entry
  BY <1>1, <1>2, EntryOf
<1>4. f \in Entry /\ f.phase = phase /\ f.session = e.session
  <2> HIDE DEF e
  <2> QED
    BY <1>3, PhaseAdvances DEF EntryPhases
<1>5. Write(r, t, f)
  OBVIOUS
<1> HIDE DEF f
<1>6. journal'[r][t] = f
  BY <1>1, <1>2, <1>5, WriteGives
<1>7. f # NoEntry /\ PostSubmit(f.phase)
  BY <1>4, NoEntryAssumption DEF PostSubmit
<1>8. Linked(r, t, journal'[r][t], task'[t], inflight')
  BY <1>1, <1>2, <1>4, <1>6, <1>7, AdvancedLinked
<1>9. activity'[r].step = step /\ activity'[r].task = t
  BY <1>1, GoFields DEF SameLease, SameWork
<1>10. WorkLinked(r, activity'[r], journal'[r], task', inflight')
  BY <1>9 DEF WorkLinked
<1> QED
  BY <1>1, <1>2, <1>5, <1>8, <1>10, WrittenLinked

LEMMA ConfirmedLinked ==
  ASSUME NEW r \in Runners, Moving(r), BracketInv,
         \/ Reattach(r) /\ activity[r].confirmed
         \/ Confirm(r) \/ Collect(r)
  PROVE  BracketInv'
<1> DEFINE t == activity[r].task
<1>1. /\ DeviceInv /\ TypeOK /\ UNCHANGED inflight
      /\ activity[r].step \in {"reattach", "confirm", "collect"}
  BY DEF Moving, WorkInv, ProtocolInv, Reattach, Confirm, Collect, Local, Answered, At
<1>2. t \in Tasks
  BY <1>1 DEF DeviceInv, ActivitySound, WorkSteps
<1>3. task'[t].confirmed
  <2>1. CASE (Reattach(r) /\ activity[r].confirmed) \/ Collect(r)
    <3>1. UNCHANGED task /\ activity[r].step \in WorkSteps
      BY <2>1 DEF Reattach, Collect, Local, vars, At, WorkSteps
    <3>2. activity[r].confirmed \/ activity[r].step = "collect"
      BY <2>1 DEF Collect, At
    <3> QED
      BY <3>1, <3>2 DEF BracketInv, WorkLinked
  <2>2. CASE Confirm(r)
    <3>1. /\ refused' = "none"
          /\ \E g, s : ConfirmSubmitted(t, r, g, s)
      BY <2>2 DEF Confirm, Answered, Serve, Request
    <3> QED
      BY <1>1, <1>2, <3>1, ConfirmGives
  <2> QED
    BY <2>1, <2>2
<1>4. PICK phase \in {"submitted", "collected"}, step \in {"collect", "complete"} :
        Write(r, t, Advanced(journal[r][t], phase)) /\ Go(r, step)
  BY DEF Reattach, Confirm, Collect
<1> QED
  BY <1>1, <1>3, <1>4, AdvanceLinked

\* An entry is removed of a task that owes nothing and is nobody's claim.
LEMMA RemovedLinked ==
  ASSUME NEW r \in Runners, Moving(r), BracketInv, IntentsStay, NEW t \in Tasks,
         Remove(r, t), activity'[r].step \notin WorkSteps,
         task'[t].status # "claimed", ~Owes(task'[t], r)
  PROVE  BracketInv'
<1>1. Write(r, t, NoEntry)
  BY DEF Remove
<1>2. journal'[r][t] = NoEntry
  BY <1>1, WriteGives DEF Moving, WorkInv
<1>3. NoneHolds(r, t) /\ Agrees(r, journal'[r][t], task'[t])
  BY <1>2 DEF NoneHolds, Holds, Agrees
<1> QED
  BY <1>1, <1>3, RewrittenLinked, DoneLinked, WrittenLinked

LEMMA CompleteGives ==
  ASSUME TypeOK, NEW t \in Tasks, NEW r, NEW g, Complete(t, r, g), refused' = "none"
  PROVE  task'[t].status = "succeeded"
<1>1. task[t] \in TaskRow /\ task \in [Tasks -> TaskRow]
  BY DEF TypeOK
<1> DEFINE row == Succeeded(task[t])
           rows == [task EXCEPT ![t] = row]
           b == SettledBatch(batch, rows)
<1>2. Commit("complete", b, rows)
  BY DEF Complete, UpdateAndSettle
<1>3. row.status = "succeeded"
  BY <1>1 DEF Succeeded, TaskRow
<1> HIDE DEF b, row
<1>4. task' = rows
  BY <1>2 DEF Commit, CommitFrom
<1> QED
  BY <1>1, <1>3, <1>4

LEMMA CompleteLinked ==
  ASSUME NEW r \in Runners, Moving(r), BracketInv, CompleteTask(r)
  PROVE  BracketInv'
<1> DEFINE t == activity[r].task
<1>1. DeviceInv /\ TypeOK /\ activity[r].step = "complete"
  BY DEF Moving, WorkInv, ProtocolInv, CompleteTask, At
<1>2. t \in Tasks /\ IntentsStay
  BY <1>1, NoIntent DEF DeviceInv, ActivitySound, WorkSteps
<1>3. /\ refused' = "none" /\ Remove(r, t) /\ After(r, FALSE)
      /\ \E g : Complete(t, r, g)
  BY DEF CompleteTask, Answered, Serve, Request
<1>4. task'[t].status = "succeeded"
  BY <1>1, <1>2, <1>3, CompleteGives
<1> QED
  BY <1>1, <1>2, <1>3, <1>4, DoneIdle, RemovedLinked DEF Owes, UnresolvedStatuses

LEMMA FailLinked ==
  ASSUME NEW r \in Runners, Moving(r), BracketInv, Fail(r)
  PROVE  BracketInv'
<1> DEFINE t == activity[r].task
<1>1. DeviceInv /\ activity[r].step = "fail"
  BY DEF Moving, WorkInv, Fail, At
<1>2. t \in Tasks /\ IntentsStay
  BY <1>1, NoIntent DEF DeviceInv, ActivitySound, WorkSteps
<1>3. activity'[r].step \notin WorkSteps
  BY <1>1, DoneIdle DEF Fail
<1>4. CASE UNCHANGED journal
  BY <1>2, <1>3, <1>4, UnchangedUnedited, PlainLinked
<1>5. CASE task'[t].auto = "queued" /\ Remove(r, t)
  <2>1. AutomationStateConsistent(task'[t])
    BY <1>2 DEF Moving, WorkInv, RowsInv, CustodyInv, AutomationConsistent
  <2>2. ~task'[t].intent /\ task'[t].status # "claimed"
    BY <1>5, <2>1 DEF AutomationStateConsistent
  <2> QED
    BY <1>2, <1>3, <1>5, <2>2, RemovedLinked DEF Owes
<1> QED
  BY <1>4, <1>5 DEF Fail

-----------------------------------------------------------------------------
(* What the portal tells a device about its entry *)

\* A task that the server says may be resumed is the device's, and by now parked.
LEMMA ResumableRow ==
  ASSUME NEW r \in Runners, Moving(r), NEW t \in Tasks, Reconcile(r, t),
         ~Settles(r, t), Answer(r, t) \notin {"active", "blocked"}
  PROVE  /\ Answer(r, t) = IF task[t].intent THEN "resumable_post" ELSE "resumable_pre"
         /\ task'[t].status = "available"
<1>1. /\ TypeOK /\ task[t] \in TaskRow /\ task \in [Tasks -> TaskRow]
      /\ refused' # "reconcile"
  BY DEF Moving, WorkInv, ProtocolInv, TypeOK, ProtocolNeverRefused
<1>2. task[t].claimedBy = r /\ Answer(r, t) = ReconcileExactTask(task[t], r, now)
  BY DEF Reconcile, Answer
<1>3. /\ Answer(r, t) = IF task[t].intent THEN "resumable_post" ELSE "resumable_pre"
      /\ task[t].status \in {"available", "claimed"}
  BY <1>2 DEF Settles, ReconcileExactTask
<1>4. Answer(r, t) \in {"resumable_pre", "resumable_post"}
  BY <1>3
<1>5. ServeReconciliation(r, t)
  BY DEF Reconcile
<1>6. CASE task[t].status = "available"
  BY <1>3, <1>5, <1>6 DEF ServeReconciliation, ReconcileTask, vars
<1>7. CASE task[t].status = "claimed"
  <2> DEFINE row == Parked(task[t], ParkCode(task[t], "runner_lease_expired"))
             rows == [task EXCEPT ![t] = row]
             b == Refreshed(batch, rows)
  <2>1. ReconcileTask(r, t)
    BY <1>4, <1>5, <1>7 DEF ServeReconciliation
  <2>2. Commit("reconcile", b, rows)
    BY <2>1 DEF ReconcileTask, UpdateAndRefresh
  <2>3. row.status = "available"
    BY <1>1 DEF Parked, TaskRow
  <2> HIDE DEF b, row
  <2>4. task' = rows
    BY <1>1, <2>2 DEF Commit, CommitFrom
  <2> QED
    BY <1>1, <1>3, <2>3, <2>4
<1> QED
  BY <1>3, <1>6, <1>7

\* A task that is told to be over or free owes nothing and is nobody's claim.
LEMMA SettledRow ==
  ASSUME NEW r \in Runners, NEW t \in Tasks, Reconcile(r, t), Settles(r, t)
  PROVE  /\ UNCHANGED vars
         /\ task[t].status # "claimed" /\ ~Owes(task[t], r)
<1>1. Answer(r, t) = ReconcileExactTask(task[t], r, now)
  BY DEF Reconcile, Answer
<1>2. /\ \/ task[t].status \in TerminalStatuses
         \/ task[t].status = "available" /\ ~task[t].intent
      /\ ~ReconcileTask(r, t)
  <2>1. ReconcileExactTask(task[t], r, now) \in {"terminal", "released"}
    BY <1>1 DEF Settles
  <2>2. ~ReconcileTask(r, t)
    BY <2>1 DEF ReconcileTask
  <2>3. \/ task[t].status \in TerminalStatuses
        \/ task[t].status = "available" /\ ~task[t].intent
    BY <2>1 DEF ReconcileExactTask
  <2> QED
    BY <2>2, <2>3
<1>3. task[t].status # "claimed" /\ ~Owes(task[t], r)
  BY <1>2 DEF Owes, TerminalStatuses, UnresolvedStatuses
<1> QED
  BY <1>2, <1>3 DEF Reconcile, ServeReconciliation

LEMMA AlignedSide ==
  ASSUME NEW e \in Entry, NEW post \in BOOLEAN
  PROVE  /\ Aligned(e, post) \in Entry
         /\ Aligned(e, post).session = e.session
         /\ Aligned(e, post).waiting
         /\ PostSubmit(Aligned(e, post).phase) <=> post
         /\ Aligned(e, post).phase \in {"submitted", "collected"} =>
              Aligned(e, post).phase = e.phase
<1> DEFINE phase == IF post = PostSubmit(e.phase) THEN e.phase
                    ELSE IF post THEN "submit_intent" ELSE "claimed"
<1>1. /\ phase \in EntryPhases /\ (PostSubmit(phase) <=> post)
      /\ phase \in {"submitted", "collected"} => phase = e.phase
  BY DEF PostSubmit, EntryPhases, Entry
<1>2. Aligned(e, post) = [e EXCEPT !.waiting = TRUE, !.phase = phase]
  BY DEF Aligned, Entry
<1> HIDE DEF phase
<1> DEFINE f == Aligned(e, post)
<1>3. f \in Entry /\ f.session = e.session /\ f.waiting /\ f.phase = phase
  BY <1>1, <1>2 DEF Entry
<1> QED
  BY <1>1, <1>3

LEMMA ReconcileLinked ==
  ASSUME NEW r \in Runners, Moving(r), BracketInv, NEW t \in Tasks, Reconcile(r, t)
  PROVE  BracketInv'
<1> DEFINE e == journal[r][t]
<1>1. DeviceInv /\ activity[r].step = "reconcile" /\ t \in activity[r].todo
  BY DEF Moving, WorkInv, Reconcile, At
<1>2. IntentsStay /\ UNCHANGED inflight
  BY <1>1, NoIntent DEF Reconcile
<1>3. activity'[r].step \notin WorkSteps
  <2> DEFINE skip == Skips(r, t)
  <2>1. Reconciled(r, t, skip)
    BY DEF Reconcile
  <2> HIDE DEF skip
  <2>2. activity'[r].step = "reconcile"
    BY <1>1, <2>1, PassedFields
  <2> QED
    BY <2>2 DEF WorkSteps
<1>4. CASE Settles(r, t)
  <2>1. UNCHANGED task /\ task[t].status # "claimed" /\ ~Owes(task[t], r)
    BY <1>4, SettledRow DEF vars
  <2>2. Remove(r, t)
    BY <1>4 DEF Reconcile
  <2>3. task'[t].status # "claimed" /\ ~Owes(task'[t], r)
    BY <2>1
  <2> QED
    BY <1>2, <1>3, <2>2, <2>3, RemovedLinked
<1>5. CASE UNCHANGED journal
  BY <1>2, <1>3, <1>5, UnchangedUnedited, PlainLinked
<1>6. CASE ~Settles(r, t) /\ ~Skips(r, t)
  <2>1. e \in Entry
    BY <1>1, EntryOf DEF DeviceInv, ActivitySound
  <2> DEFINE post == Answer(r, t) = "resumable_post"
             f == Aligned(e, post)
  <2>2. /\ task'[t].status = "available" /\ post = task[t].intent
        /\ post => e.session = task[t].session
    <3>1. /\ Answer(r, t) = IF task[t].intent THEN "resumable_post" ELSE "resumable_pre"
          /\ task'[t].status = "available"
      BY <1>6, ResumableRow DEF Skips
    <3>2. task[t].intent \in BOOLEAN
      BY DEF Moving, AllMove, RowMoves
    <3> QED
      BY <1>6, <3>1, <3>2 DEF Skips
  <2>3. Write(r, t, f)
    BY <1>6 DEF Reconcile
  <2>4. post \in BOOLEAN
    OBVIOUS
  <2> HIDE DEF post
  <2>5. /\ f \in Entry /\ f.session = e.session /\ (PostSubmit(f.phase) <=> post)
        /\ f.phase \in {"submitted", "collected"} => f.phase = e.phase
    <3> HIDE DEF e
    <3> QED
      BY <2>1, <2>4, AlignedSide
  <2>6. Agrees(r, e, task[t]) /\ RowMoves(task[t], task'[t])
        /\ task'[t].intent = task[t].intent
    BY <1>2 DEF BracketInv, Linked, Moving, AllMove, IntentsStay
  <2> HIDE DEF f
  <2>7. Agrees(r, f, task'[t])
    <3>1. f # NoEntry /\ e # NoEntry
      BY <2>1, <2>5, NoEntryAssumption
    <3>2. Owes(task'[t], r) => PostSubmit(f.phase) /\ f.session = task'[t].session
      BY <2>2, <2>5, <2>6 DEF Owes, RowMoves
    <3>3. f.phase \in {"submitted", "collected"} => task'[t].confirmed
      BY <2>5, <2>6, <3>1 DEF Agrees, RowMoves
    <3> QED
      BY <3>1, <3>2, <3>3 DEF Agrees
  <2>8. journal'[r][t] = f
    BY <1>1, <2>3, WriteGives
  <2>9. NoneHolds(r, t)
    BY <2>2 DEF NoneHolds, Holds
  <2> QED
    BY <1>2, <1>3, <2>3, <2>7, <2>8, <2>9, RewrittenLinked, DoneLinked, WrittenLinked
<1> QED
  BY <1>4, <1>5, <1>6 DEF Reconcile

-----------------------------------------------------------------------------
(* The intent, and every step *)

LEMMA IntentLinked ==
  ASSUME NEW r \in Runners, Moving(r), BracketInv, RecordIntent(r)
  PROVE  BracketInv'
<1> DEFINE t == activity[r].task
           e == journal[r][t]
           g == activity[r].generation
<1>1. /\ DeviceInv /\ TypeOK /\ AllMove /\ activity[r].step = "intent"
      /\ activity[r].step \in WorkSteps /\ UNCHANGED <<journal, inflight>>
  BY DEF Moving, WorkInv, ProtocolInv, RecordIntent, Answered, At, WorkSteps
<1>2. t \in Tasks /\ e # NoEntry
  BY <1>1 DEF DeviceInv, ActivitySound, EntrySteps
<1>3. Intended(t, r, g, e.session)
  <2>1. RecordSubmitIntent(t, r, g, e.session)
    BY DEF RecordIntent, Answered, Serve, Request
  <2>2. ~task[t].intent /\ task'[t].intent
    BY <1>1, RecordIntentGives
  <2> HIDE DEF t, e, g
  <2> QED
    BY <1>1, <1>2, <2>1, <2>2, IntentGives
<1>4. PostSubmit(e.phase)
  BY <1>1 DEF BracketInv, WorkLinked
<1>5. ASSUME NEW s \in Runners, NEW u \in Tasks
      PROVE  Linked(s, u, journal[s][u], task'[u], inflight)
  <2>1. \A q \in inflight : OnItsWay(q, s, u) =>
          q \in inflight /\ q.generation \in Nat /\ q.generation <= task[u].generation
    BY <1>1, OnItsWaySound
  <2>2. Linked(s, u, journal[s][u], task[u], inflight)
    BY DEF BracketInv
  <2> DEFINE d == journal[s][u]
             session == e.session
  <2>3. s = r /\ u = t => d # NoEntry /\ PostSubmit(d.phase) /\ d.session = session
    BY <1>2, <1>4
  <2>4. Intended(t, r, g, session)
    BY <1>3
  <2> HIDE DEF d, t, e, g, session
  <2>5. Linked(s, u, d, task'[u], inflight)
    BY <1>1, <1>2, <2>1, <2>2, <2>3, <2>4, LinkedIntended DEF d
  <2> QED
    BY <2>5 DEF d
<1>6. ASSUME NEW s \in Runners, s # r
      PROVE  WorkLinked(s, activity'[s], journal[s], task', inflight)
  <2> DEFINE a == activity[s]
             jr == journal[s]
  <2>1. activity'[s] = a
    BY <1>1, <1>6, OthersStay DEF Moving
  <2>2. a.step \in WorkSteps => a.task \in Tasks
    BY <1>1 DEF DeviceInv, ActivitySound
  <2>3. WorkLinked(s, a, jr, task, inflight)
    BY DEF BracketInv
  <2>4. a.step \in {"prepare", "mark"} => ~Owes(task'[a.task], s)
    BY <1>3, <1>6, <2>2, <2>3 DEF Intended, WorkLinked, Owes, WorkSteps
  <2> HIDE DEF a, jr
  <2>5. WorkLinked(s, a, jr, task', inflight)
    BY <1>1, <2>2, <2>3, <2>4, WorkLinkedStays
  <2> QED
    BY <2>1, <2>5 DEF jr
<1>7. WorkLinked(r, activity'[r], journal'[r], task', inflight')
  <2>1. activity'[r].step = "ask" /\ SameLease(activity[r], activity'[r])
    BY <1>1, GoFields DEF RecordIntent
  <2> QED
    BY <1>1, <2>1, LateLinked
<1>8. ASSUME NEW s \in Runners
      PROVE  /\ \A u \in Tasks : Linked(s, u, journal'[s][u], task'[u], inflight')
             /\ WorkLinked(s, activity'[s], journal'[s], task', inflight')
  BY <1>1, <1>5, <1>6, <1>7, <1>8
<1> QED
  BY <1>8 DEF BracketInv

LEMMA DeviceBrackets ==
  ASSUME NEW r \in Runners, Moving(r), BracketInv, DeviceAction(r)
  PROVE  BracketInv'
<1>1. ASSUME PassEdge(r) PROVE BracketInv'
  BY <1>1, PassEdgeLinked
<1>2. ASSUME NEW t \in Tasks,
             \/ Reconcile(r, t) \/ ReconcileFails(r, t) \/ Recover(r, t)
             \/ RecoverNeedsHuman(r, t)
      PROVE  BracketInv'
  BY <1>2, ReconcileLinked, EndingLinked, RecoverLinked
<1>3. ASSUME ResumeTask(r) \/ ClaimNext(r) \/ Begin(r) PROVE BracketInv'
  BY <1>3, ResumeLinked, ClaimLinked, BeginLinked
<1>4. ASSUME ResumeFails(r) \/ GiveUp(r) \/ FailFails(r) PROVE BracketInv'
  BY <1>4, EndingLinked
<1>5. ASSUME Prepare(r) \/ MarkIntent(r) \/ RecordIntent(r) PROVE BracketInv'
  BY <1>5, PrepareLinked, IntentLinked
<1>6. ASSUME SubmitOnceInPage(r) \/ SeePrompt(r) \/ Reattach(r) PROVE BracketInv'
  BY <1>6, LookLinked, ConfirmedLinked
<1>7. ASSUME Confirm(r) \/ Collect(r) PROVE BracketInv'
  BY <1>7, ConfirmedLinked
<1>8. ASSUME CompleteTask(r) \/ Fail(r) PROVE BracketInv'
  BY <1>8, CompleteLinked, FailLinked
<1>9. ASSUME \/ CallFails(r)
             \/ \E code \in FailureCodes : OpenFails(r, code) \/ PageFails(r, code)
      PROVE  BracketInv'
  BY <1>9, BrokenLinked, OpenLinked
<1> QED
  BY <1>1, <1>2, <1>3, <1>4, <1>5, <1>6, <1>7, <1>8, <1>9
     DEF DeviceAction, PassStep, TaskStep, PassEdge

LEMMA ElsewhereBrackets ==
  ASSUME WorkInv, BracketInv, AllMove, Elsewhere
  PROVE  BracketInv'
<1>1. /\ UNCHANGED <<journal, activity>>
      /\ inflight' \subseteq inflight
  BY ElsewhereMoves DEF WorkInv
<1>2. ASSUME IntentsStay PROVE BracketInv'
  BY <1>1, <1>2, OtherLinked DEF BracketInv
<1>3. ASSUME NEW q \in inflight, q.op = "intent", RequestSound(q, task),
             RecordSubmitIntent(q.task, q.runner, q.generation, q.session)
      PROVE  BracketInv'
  <2>1. q.task \in Tasks /\ TypeOK
    BY <1>3 DEF RequestSound, WorkInv, ProtocolInv
  <2>2. UNCHANGED task \/ Intended(q.task, q.runner, q.generation, q.session)
    BY <1>3, <2>1, IntentGives
  <2>3. UNCHANGED task => IntentsStay
    BY DEF IntentsStay
  <2> QED
    BY <1>1, <1>2, <1>3, <2>2, <2>3, LateIntentLinked
<1> QED
  BY <1>2, <1>3, ElsewhereIntents DEF WorkInv, ProtocolInv

LEMMA BracketInductive ==
  ASSUME WorkInv, BracketInv, [ExtNext]_extVars
  PROVE  BracketInv'
<1>1. AllMove
  BY WorkInductive, NextRowsMove
<1>2. ASSUME NEW r \in Runners, DeviceAction(r) PROVE BracketInv'
  BY <1>2, DeviceMoving, DeviceBrackets
<1>3. ASSUME NEW r \in Runners, NEW t \in Tasks, PageSends(r, t) \/ PageRefuses(r, t)
      PROVE  BracketInv'
  <2>1. IntentsStay /\ UNCHANGED <<journal, activity, inflight>>
    BY <1>3, PageStepFramed, CalmIntents DEF WorkInv
  <2> QED
    BY <1>1, <2>1, OtherLinked DEF BracketInv
<1> QED
  BY <1>1, <1>2, <1>3, ExtNextCases, ElsewhereBrackets

LEMMA InitBrackets ==
  ASSUME ExtInit
  PROVE  BracketInv
<1>1. ASSUME NEW r \in Runners, NEW t \in Tasks
      PROVE  Linked(r, t, journal[r][t], task[t], inflight)
  <2>1. journal[r][t] = NoEntry /\ inflight = {} /\ ~task[t].intent
    BY DEF ExtInit, Init
  <2> QED
    BY <2>1 DEF Linked, Agrees, Owes
<1>2. ASSUME NEW r \in Runners
      PROVE  WorkLinked(r, activity[r], journal[r], task, inflight)
  <2>1. activity[r].step = "idle"
    BY DEF ExtInit, Idle
  <2> QED
    BY <2>1 DEF WorkLinked, WorkSteps
<1> QED
  BY <1>1, <1>2 DEF BracketInv

\* Device and portal agree on the submission in every state, whatever requests
\* are lost or late and whenever workers crash: an open submitted task still has
\* its device's entry, of its session and past the intent.
THEOREM BracketsHold == ExtSpec => []JournalBrackets
<1>1. BracketInv => JournalBrackets
  BY DEF BracketInv, Linked, Agrees, Owes, JournalBrackets
<1> QED
  BY <1>1, InitBrackets, BracketInductive, ExtensionWorks, PTL DEF ExtSpec

-----------------------------------------------------------------------------
(* What a device must know before it polls *)

Retryable(q) ==
  q.op = "fail" /\ q.stage = "pre_submit" /\ q.code \in RetryablePreSubmitCodes

\* An entry that forbids to begin its task anew.
Old(e) == e # NoEntry /\ AtOrAfterIntent(e)

\* A task in the queue, or one that a late failure may put back there.
Loose(t, row, requests) ==
  \/ row.auto = "queued"
  \/ ~row.intent /\ \E q \in requests : Retryable(q) /\ q.task = t /\ Holds(q, row)

\* A task with an old entry stays with its device, or with a human.
Settled(r, t, e, row, requests) ==
  Old(e) => row.claimedBy \in {r} \cup Users /\ ~Loose(t, row, requests)

\* The tasks of which a device at a relies on that they are settled.
Relied(a) ==
  {t \in Tasks :
     \/ a.step = "reconcile" /\ t \notin a.todo \cup a.skipped
     \/ (a.step = "recover" \/ a.mode = "auto") /\ a.skipped = {}
     \/ a.step = "claim"
     \/ a.mode = "poll" /\ a.step \in WorkSteps /\ t # a.task}

\* A pass settles every entry it does not skip, and polls if it skipped none;
\* what it resumes by itself was submitted.
PollSound(r, a, jr, rows, requests) ==
  /\ a.step = "begin" /\ ~a.assist => ~Old(jr[a.task])
  /\ a.step \in {"resume", "give_up"} => a.mode \in {"auto", "manual"}
  /\ a.mode = "auto" /\ a.step \notin {"resume", "give_up"} =>
       rows[a.task].intent /\ rows[a.task].claimedBy = r
  /\ \A t \in Relied(a) : Settled(r, t, jr[t], rows[t], requests)

PollInv ==
  \A r \in Runners : PollSound(r, activity[r], journal[r], task, inflight)

\* What is settled stays so while nobody offers the task, and the failures that
\* are left in flight are of other devices.
LEMMA SettledStays ==
  ASSUME NEW r \in Runners, NEW t, NEW e, NEW f, NEW old, NEW new,
         NEW requests, NEW later,
         Settled(r, t, e, old, requests), Old(f) => Old(e), RowMoves(old, new),
         ~Loose(t, old, requests) /\ old.claimedBy \in {r} \cup Users =>
           Withheld(old, new),
         \A q \in later : Retryable(q) /\ q.task = t =>
            \/ q \in requests /\ q.generation \in Nat /\ q.generation <= old.generation
            \/ q.runner \notin {r} \cup Users
  PROVE  Settled(r, t, f, new, later)
<1> SUFFICES ASSUME Old(f)
             PROVE  new.claimedBy \in {r} \cup Users /\ ~Loose(t, new, later)
  BY DEF Settled
<1>1. old.claimedBy \in {r} \cup Users /\ ~Loose(t, old, requests)
  BY DEF Settled
<1>2. new.claimedBy \in {r} \cup Users /\ new.auto # "queued"
  BY <1>1 DEF Withheld, Loose
<1>3. ASSUME NEW q \in later, Retryable(q), q.task = t, Holds(q, new), ~new.intent
      PROVE  FALSE
  <2>1. q.runner \in {r} \cup Users
    BY <1>2, <1>3 DEF Holds
  <2>2. q \in requests /\ Holds(q, old)
    BY <1>3, <2>1, HeldBefore
  <2>3. ~old.intent
    BY <1>3 DEF RowMoves
  <2> QED
    BY <1>1, <1>3, <2>2, <2>3 DEF Loose
<1> QED
  BY <1>2, <1>3 DEF Loose

\* A failure in flight is of a generation its task has had.
LEMMA RetryableSound ==
  ASSUME DeviceInv, AllMove, NEW t \in Tasks, NEW q \in inflight,
         Retryable(q), q.task = t
  PROVE  q.generation \in Nat /\ q.generation <= task[t].generation
<1>1. q.generation \in 1..task[t].generation /\ task[t].generation \in Nat
  BY DEF DeviceInv, InflightSound, RequestSound, Retryable, LeaseOps, AllMove, RowMoves
<1> QED
  BY <1>1

-----------------------------------------------------------------------------
(* Who offers a task *)

LEMMA QuietOffersNone ==
  ASSUME TypeOK, UNCHANGED task
  PROVE  NoneOffered
BY HelpersWithhold DEF NoneOffered

\* A device offers only the task whose failure it reports.
LEMMA DeviceWithholds ==
  ASSUME TypeOK, DeviceInv, NEW r \in Runners, DeviceAction(r), NEW t \in Tasks,
         activity[r].step = "fail" /\ t = activity[r].task => task[t].claimedBy # r
  PROVE  Withheld(task[t], task'[t])
<1>1. ASSUME NoneOffered PROVE Withheld(task[t], task'[t])
  BY <1>1 DEF NoneOffered
<1>2. CASE UNCHANGED vars
  BY <1>1, <1>2, QuietOffersNone DEF vars
<1>3. CASE ClaimTask(r)
  BY <1>1, <1>3, ClaimTaskWithholds
<1>4. ASSUME NEW u \in Tasks, PlainCall(r, u) PROVE Withheld(task[t], task'[t])
  BY <1>1, <1>4, PlainCallIsQuiet
<1>5. CASE RecordIntent(r) \/ Confirm(r)
  <2>1. activity[r].task \in Tasks
    BY <1>5 DEF RecordIntent, Confirm, At, DeviceInv, ActivitySound, WorkSteps
  <2>2. HoldingCall(r, activity[r].task)
    BY <1>5 DEF RecordIntent, Confirm, Answered, Serve, Request, HoldingCall
  <2> QED
    BY <1>1, <2>1, <2>2, HoldingCallWithholds
<1>6. CASE Fail(r)
  <2>1. activity[r].task \in Tasks /\ activity[r].step = "fail"
    BY <1>6 DEF Fail, At, DeviceInv, ActivitySound, WorkSteps
  <2>2. PICK g, stage, code : RecordFailure(activity[r].task, r, g, stage, code)
    BY <1>6 DEF Fail, Answered, Serve, Request
  <2>3. task[activity[r].task].claimedBy = r
    BY <2>2 DEF RecordFailure, ActiveRunnerLease, ActiveLease
  <2>4. t # activity[r].task
    BY <2>1, <2>3
  <2> QED
    BY <2>1, <2>2, <2>4, FailureKeepsOthers
<1> QED
  BY <1>2, <1>3, <1>4, <1>5, <1>6, DeviceServes

\* The recoveries of an operator never find a task that an extension failed.
LEMMA NothingToRequeue ==
  ASSUME TypeOK
  PROVE  ~RequeueTransportFailures /\ ~RequeueProfileBusyTasks
<1>1. ASSUME NEW t \in Tasks, NEW code \in {SafeTransportRecoveryCode,
                                            DedicatedProfileBusyCode}
      PROVE  ~UntouchedFailure(task[t], code)
  <2>1. task[t].needsHuman \in Codes
    BY DEF TypeOK, TaskRow
  <2>2. code \notin Codes
    BY ExtensionCodesAssumption
       DEF Codes, NoCode, SafeTransportRecoveryCode, DedicatedProfileBusyCode
  <2> QED
    BY <2>1, <2>2 DEF UntouchedFailure
<1>2. ~RequeueTransportFailures
  BY <1>1, TasksAssumption DEF RequeueTransportFailures, SafeTransportRecoveryCandidate
<1>3. ASSUME NEW holder \in Tasks, Cardinality(Tasks) >= 2
      PROVE  Tasks \ {holder} # {}
  <2>1. Tasks \ {holder} = {} => Tasks = {holder}
    BY <1>3
  <2>2. Cardinality({holder}) = 1
    BY FS_Singleton
  <2>3. Tasks = {holder} => Cardinality(Tasks) = 1
    BY <2>2
  <2> QED
    BY <1>3, <2>1, <2>3
<1>4. ~RequeueProfileBusyTasks
  BY <1>1, <1>3 DEF RequeueProfileBusyTasks, DedicatedProfileBusyCandidate
<1> QED
  BY <1>2, <1>4

\* A request offers a task only if it is the failure that makes it loose.
LEMMA ServeWithholds ==
  ASSUME TypeOK, NEW q, RequestSound(q, task), Serve(q), NEW t \in Tasks
  PROVE  \/ Withheld(task[t], task'[t])
         \/ Retryable(q) /\ q.task = t /\ Holds(q, task[t]) /\ ~task[t].intent
<1>1. q.runner \in Runners /\ (q.op # "claim" => q.task \in Tasks)
  BY DEF RequestSound, Requests
<1>2. ASSUME NoneOffered PROVE Withheld(task[t], task'[t])
  BY <1>2 DEF NoneOffered
<1>3. CASE ClaimTask(q.runner)
  BY <1>1, <1>2, <1>3, ClaimTaskWithholds
<1>4. CASE q.op # "claim" /\ HoldingCall(q.runner, q.task)
  BY <1>1, <1>2, <1>4, HoldingCallWithholds
<1>5. CASE /\ q.op = "fail"
           /\ RecordFailure(q.task, q.runner, q.generation, q.stage, q.code)
  <2>1. Holds(q, task[q.task])
    BY <1>5 DEF RecordFailure, ActiveRunnerLease, ActiveLease, Holds
  <2>2. CASE RetriesFailure(task[q.task], q.stage, q.code) /\ t = q.task
    BY <1>5, <2>1, <2>2 DEF RetriesFailure, Retryable
  <2>3. CASE ~RetriesFailure(task[q.task], q.stage, q.code)
    BY <1>1, <1>2, <1>5, <2>3, FailureWithholds
  <2>4. CASE t # q.task
    BY <1>1, <1>5, <2>4, FailureKeepsOthers
  <2> QED
    BY <2>2, <2>3, <2>4
<1> QED
  BY <1>3, <1>4, <1>5 DEF Serve, HoldingCall

LEMMA ElsewhereWithholds ==
  ASSUME TypeOK, DeviceInv, Elsewhere, NEW t \in Tasks, ~Loose(t, task[t], inflight)
  PROVE  Withheld(task[t], task'[t])
<1>1. ASSUME NoneOffered PROVE Withheld(task[t], task'[t])
  BY <1>1 DEF NoneOffered
<1>2. ASSUME NEW r \in Runners, Beat(r) PROVE Withheld(task[t], task'[t])
  <2> DEFINE q == Request("heartbeat", r, activity[r])
  <2>1. CallOf(activity[r], "heartbeat") /\ Serve(q)
    BY <1>2 DEF Beat, Working, CallOf, WorkSteps
  <2>2. RequestSound(q, task) /\ q.op = "heartbeat"
    BY <2>1, CallSound DEF Request
  <2> HIDE DEF q
  <2> QED
    BY <2>1, <2>2, ServeWithholds DEF Retryable
<1>3. ASSUME NEW q \in inflight, Deliver(q) \/ Drop(q)
      PROVE  Withheld(task[t], task'[t])
  <2>1. RequestSound(q, task)
    BY DEF DeviceInv, InflightSound
  <2>2. CASE Deliver(q)
    BY <2>1, <2>2, ServeWithholds DEF Deliver, Loose
  <2>3. CASE Drop(q)
    BY <1>1, <2>3, QuietOffersNone DEF Drop, vars
  <2> QED
    BY <1>3, <2>2, <2>3
<1>4. CASE PortalAlone
  <2>1. ASSUME NEW u, ReadHumanQueue(u) \/ FindNothing(u) \/ Tick PROVE NoneOffered
    BY <2>1, QuietOffersNone DEF ReadHumanQueue, FindNothing, Tick
  <2>2. BatchStep => NoneOffered
    BY NothingToRequeue, BatchStepWithholds
  <2> QED
    BY <1>1, <1>4, <2>1, <2>2, PortalStepWithholds DEF PortalAlone
<1>5. CASE UNCHANGED extVars
  BY <1>1, <1>5, QuietOffersNone DEF extVars, vars
<1> QED
  BY <1>2, <1>3, <1>4, <1>5 DEF Elsewhere

-----------------------------------------------------------------------------
(* What stays settled *)

\* A device that does not move keeps what it relies on.
LEMMA PollStays ==
  ASSUME WorkInv, PollInv, AllMove, NEW s \in Runners,
         activity'[s] = activity[s], journal'[s] = journal[s],
         \A t \in Tasks :
           ~Loose(t, task[t], inflight) /\ task[t].claimedBy \in {s} \cup Users =>
             Withheld(task[t], task'[t]),
         \A q \in inflight' : q \in inflight \/ q.runner \notin {s} \cup Users
  PROVE  PollSound(s, activity'[s], journal'[s], task', inflight')
<1> DEFINE a == activity[s]
           jr == journal[s]
<1>1. PollSound(s, a, jr, task, inflight) /\ DeviceInv
  BY DEF PollInv, WorkInv
<1>2. a.mode = "auto" => a.task \in Tasks
  BY <1>1 DEF DeviceInv, ActivitySound
<1>3. ASSUME NEW t \in Relied(a) PROVE Settled(s, t, jr[t], task'[t], inflight')
  <2>1. t \in Tasks /\ Settled(s, t, jr[t], task[t], inflight)
    BY <1>1, <1>3 DEF PollSound, Relied
  <2>2. /\ RowMoves(task[t], task'[t]) /\ (Old(jr[t]) => Old(jr[t]))
        /\ ~Loose(t, task[t], inflight) /\ task[t].claimedBy \in {s} \cup Users =>
             Withheld(task[t], task'[t])
    BY <2>1 DEF AllMove
  <2>3. \A q \in inflight' : Retryable(q) /\ q.task = t =>
          \/ /\ q \in inflight /\ q.generation \in Nat
             /\ q.generation <= task[t].generation
          \/ q.runner \notin {s} \cup Users
    BY <1>1, <2>1, RetryableSound
  <2> HIDE DEF a, jr
  <2> QED
    BY <2>1, <2>2, <2>3, SettledStays
<1>4. a.mode = "auto" /\ a.step \notin {"resume", "give_up"} =>
        task'[a.task].intent /\ task'[a.task].claimedBy = s
  <2>1. a.mode = "auto" => RowMoves(task[a.task], task'[a.task])
    BY <1>2 DEF AllMove
  <2> QED
    BY <1>1, <2>1 DEF PollSound, RowMoves
<1>5. PollSound(s, a, jr, task', inflight')
  <2> HIDE DEF a, jr
  <2> QED
    BY <1>1, <1>3, <1>4 DEF PollSound
<1> QED
  BY <1>5

\* What the others do never unsettles what a device relies on.
LEMMA OtherPolls ==
  ASSUME NEW r \in Runners, Moving(r), PollInv, NEW s \in Runners, s # r
  PROVE  PollSound(s, activity'[s], journal'[s], task', inflight')
<1>1. WorkInv /\ AllMove /\ TypeOK /\ DeviceInv /\ r \notin {s} \cup Users
  BY ClientsAssumption DEF Moving, WorkInv, ProtocolInv
<1>2. activity'[s] = activity[s] /\ journal'[s] = journal[s]
  BY <1>1, OthersStay DEF Moving
<1>3. ASSUME NEW t \in Tasks, task[t].claimedBy \in {s} \cup Users
      PROVE  Withheld(task[t], task'[t])
  BY <1>1, <1>3, DeviceWithholds DEF Moving
<1>4. \A q \in inflight' : q \in inflight \/ q.runner \notin {s} \cup Users
  BY <1>1 DEF Moving, RequestsGrow, LeftBehind
<1> QED
  BY <1>1, <1>2, <1>3, <1>4, PollStays

LEMMA ElsewherePolls ==
  ASSUME WorkInv, PollInv, AllMove, Elsewhere
  PROVE  PollInv'
<1>1. TypeOK /\ DeviceInv
  BY DEF WorkInv, ProtocolInv
<1>2. UNCHANGED <<activity, journal>> /\ inflight' \subseteq inflight
  BY <1>1, ElsewhereMoves
<1>3. \A t \in Tasks : ~Loose(t, task[t], inflight) => Withheld(task[t], task'[t])
  BY <1>1, ElsewhereWithholds
<1> QED
  BY <1>2, <1>3, PollStays DEF PollInv

\* The moving device itself unsettles only the task whose failure it reports.
LEMMA SettledKept ==
  ASSUME NEW r \in Runners, Moving(r), NEW t \in Tasks,
         activity[r].step # "fail" \/ t # activity[r].task,
         Settled(r, t, journal[r][t], task[t], inflight),
         Old(journal'[r][t]) => Old(journal[r][t])
  PROVE  Settled(r, t, journal'[r][t], task'[t], inflight')
<1> DEFINE e == journal[r][t]
           f == journal'[r][t]
           old == task[t]
           new == task'[t]
           later == inflight'
<1>1. TypeOK /\ DeviceInv /\ AllMove /\ DeviceAction(r) /\ RequestsGrow(r)
  BY DEF Moving, WorkInv, ProtocolInv
<1>2. Withheld(old, new)
  BY <1>1, DeviceWithholds
<1>3. \A q \in later : Retryable(q) /\ q.task = t =>
        q \in inflight /\ q.generation \in Nat /\ q.generation <= old.generation
  <2>1. ASSUME NEW q \in later, Retryable(q), q.task = t PROVE q \in inflight
    <3>1. q.op = "fail" /\ q.code # UnknownCode
      BY <2>1 DEF Retryable, RetryablePreSubmitCodes, UnknownCode
    <3> QED
      BY <1>1, <2>1, <3>1 DEF RequestsGrow, LeftBehind
  <2> QED
    BY <1>1, <2>1, RetryableSound
<1>4. RowMoves(old, new)
  BY <1>1 DEF AllMove
<1>5. Settled(r, t, e, old, inflight) /\ (Old(f) => Old(e))
  OBVIOUS
<1> HIDE DEF e, f, old, new, later
<1>6. Settled(r, t, f, new, later)
  BY <1>2, <1>3, <1>4, <1>5, SettledStays
<1> QED
  BY <1>6 DEF f, new, later

\* A submitted task, and one under a lease, are not loose.
LEMMA SubmittedSettled ==
  ASSUME NEW r \in Runners, Moving(r), NEW t \in Tasks,
         task'[t].intent, task'[t].claimedBy = r
  PROVE  Settled(r, t, journal'[r][t], task'[t], inflight')
<1>1. AutomationStateConsistent(task'[t])
  BY DEF Moving, WorkInv, RowsInv, CustodyInv, AutomationConsistent
<1>2. task'[t].auto # "queued"
  BY <1>1 DEF AutomationStateConsistent
<1> QED
  BY <1>2 DEF Settled, Loose

LEMMA LeasedSettled ==
  ASSUME NEW r \in Runners, Moving(r), NEW t \in Tasks, Leases(r, t),
         UNCHANGED inflight
  PROVE  Settled(r, t, journal'[r][t], task'[t], inflight')
<1>1. ASSUME NEW q \in inflight', Retryable(q), q.task = t, Holds(q, task'[t])
      PROVE  FALSE
  <2>1. q.generation \in Nat /\ q.generation <= task[t].generation
    BY <1>1, RetryableSound DEF Moving, WorkInv
  <2>2. task[t].generation \in Nat /\ task'[t].generation = task[t].generation + 1
    BY DEF Leases, Moving, AllMove, RowMoves
  <2> QED
    BY <1>1, <2>1, <2>2 DEF Holds
<1> QED
  BY <1>1 DEF Settled, Loose, Leases

LEMMA ParkedSettled ==
  ASSUME NEW r, NEW t, NEW e, NEW row, NEW requests,
         row.status = "available", row.auto # "queued", row.claimedBy = r
  PROVE  Settled(r, t, e, row, requests)
BY DEF Settled, Loose, Holds

\* The moving device and the others.
LEMMA DevicePollSound ==
  ASSUME NEW r \in Runners, Moving(r), PollInv,
         PollSound(r, activity'[r], journal'[r], task', inflight')
  PROVE  PollInv'
BY OtherPolls DEF PollInv

-----------------------------------------------------------------------------
(* A pass over the journal *)

\* The steps of a pass and the ends of the work turn to no task.
PassSteps == {"idle", "reconcile", "recover", "claim"}

LEMMA PassSound ==
  ASSUME NEW r, NEW a, NEW jr, NEW rows, NEW requests,
         a.step \in PassSteps, a.mode # "auto",
         \A t \in Relied(a) : Settled(r, t, jr[t], rows[t], requests)
  PROVE  PollSound(r, a, jr, rows, requests)
BY DEF PollSound, PassSteps

LEMMA PassRelies ==
  ASSUME NEW a, a.step \in PassSteps, a.mode # "auto", NEW t \in Relied(a)
  PROVE  /\ t \in Tasks
         /\ \/ a.step = "reconcile" /\ t \notin a.todo \cup a.skipped
            \/ a.step = "recover" /\ a.skipped = {}
            \/ a.step = "claim"
BY DEF Relied, PassSteps, WorkSteps

\* What was settled and keeps its entry.
LEMMA RestSettled ==
  ASSUME NEW r \in Runners, Moving(r), PollInv, NEW t \in Relied(activity[r]),
         activity[r].step # "fail" \/ t # activity[r].task,
         Old(journal'[r][t]) => Old(journal[r][t])
  PROVE  Settled(r, t, journal'[r][t], task'[t], inflight')
BY SettledKept DEF PollInv, PollSound, Relied

LEMMA StartPollPolls ==
  ASSUME NEW r \in Runners, Moving(r), PollInv, StartPoll(r)
  PROVE  PollInv'
<1>1. /\ activity'[r].step = "reconcile" /\ activity'[r].mode = "poll"
      /\ activity'[r].todo = Journaled(r)
  BY StartPollFields DEF Moving, WorkInv
<1>2. ASSUME NEW t \in Relied(activity'[r])
      PROVE  journal'[r][t] = NoEntry
  <2>1. t \in Tasks /\ t \notin Journaled(r)
    BY <1>1, PassRelies DEF PassSteps
  <2> QED
    BY <2>1 DEF StartPoll, Journaled
<1>3. \A t \in Relied(activity'[r]) :
        Settled(r, t, journal'[r][t], task'[t], inflight')
  BY <1>2 DEF Settled, Old
<1> QED
  BY <1>1, <1>3, PassSound, DevicePollSound DEF PassSteps

LEMMA ListDuePolls ==
  ASSUME NEW r \in Runners, Moving(r), PollInv, ListDue(r)
  PROVE  PollInv'
<1> DEFINE a == activity[r]
           b == activity'[r]
<1>1. DeviceInv /\ UNCHANGED journal
  BY DEF Moving, WorkInv, ListDue
<1>2. /\ a.step = "reconcile" /\ a.todo = {} /\ b.step = "recover"
      /\ b.mode = a.mode /\ b.skipped = a.skipped
  BY <1>1, ListDueFields
<1>3. b.mode # "auto"
  BY <1>1, <1>2 DEF DeviceInv, ActivitySound, WorkSteps
<1>4. \A t \in Relied(b) : t \in Relied(a)
  BY <1>2, <1>3, PassRelies DEF Relied, PassSteps
<1>5. \A t \in Relied(b) : Settled(r, t, journal'[r][t], task'[t], inflight')
  BY <1>1, <1>2, <1>4, RestSettled
<1> QED
  BY <1>2, <1>3, <1>5, PassSound, DevicePollSound DEF PassSteps

LEMMA StartPollingPolls ==
  ASSUME NEW r \in Runners, Moving(r), PollInv, StartPolling(r)
  PROVE  PollInv'
<1> DEFINE a == activity[r]
           b == activity'[r]
<1>1. DeviceInv /\ UNCHANGED journal
  BY DEF Moving, WorkInv, StartPolling
<1>2. /\ a.step = "recover" /\ b.mode = "poll"
      /\ b.step = IF a.skipped = {} THEN "claim" ELSE "idle"
  BY <1>1, StartPollingFields
<1>3. \A t \in Relied(b) : t \in Relied(a)
  BY <1>2, PassRelies DEF Relied, PassSteps
<1>4. \A t \in Relied(b) : Settled(r, t, journal'[r][t], task'[t], inflight')
  BY <1>1, <1>2, <1>3, RestSettled
<1> QED
  BY <1>2, <1>4, PassSound, DevicePollSound DEF PassSteps

LEMMA StopPolls ==
  ASSUME NEW r \in Runners, Moving(r), PollInv, EndPoll(r) \/ Crash(r)
  PROVE  PollInv'
<1>1. activity'[r].step = "idle" /\ activity'[r].mode = "poll"
  BY StoppedFields DEF Moving, WorkInv
<1>2. Relied(activity'[r]) = {}
  BY <1>1, PassRelies DEF PassSteps
<1> QED
  BY <1>1, <1>2, PassSound, DevicePollSound DEF PassSteps

\* An attempt changes neither the phase of its entry nor whether it waits.
LEMMA RecoverPolls ==
  ASSUME NEW r \in Runners, Moving(r), PollInv, NEW t \in Tasks, Recover(r, t)
  PROVE  PollInv'
<1> DEFINE a == activity[r]
           b == activity'[r]
           e == journal[r][t]
           f == [e EXCEPT !.tries = @ + 1, !.contacts = @ + 1]
<1>1. DeviceInv
  BY DEF Moving, WorkInv
<1>2. /\ a.step = "recover" /\ t \in a.todo
      /\ b.step = "resume" /\ b.mode = "auto" /\ b.skipped = a.skipped
  BY <1>1, RecoverFields
<1>3. e \in Entry
  BY <1>1, <1>2, EntryOf DEF DeviceInv, ActivitySound
<1>4. Old(f) => Old(e)
  <2> HIDE DEF e
  <2>1. f.phase = e.phase /\ f.waiting = e.waiting /\ e # NoEntry
    BY <1>3, NoEntryAssumption DEF Entry
  <2> QED
    BY <2>1 DEF Old, AtOrAfterIntent, PostSubmit
<1>5. Write(r, t, f)
  BY DEF Recover
<1> HIDE DEF f
<1>6. \A u \in Tasks : Old(journal'[r][u]) => Old(journal[r][u])
  BY <1>1, <1>4, <1>5, WriteGives
<1>7. Relied(b) \subseteq Relied(a)
  BY <1>2 DEF Relied, WorkSteps
<1>8. \A u \in Relied(b) : Settled(r, u, journal'[r][u], task'[u], inflight')
  BY <1>2, <1>6, <1>7, RestSettled DEF Relied
<1>9. PollSound(r, activity'[r], journal'[r], task', inflight')
  BY <1>2, <1>8 DEF PollSound
<1> QED
  BY <1>9, DevicePollSound

LEMMA RecoverNeedsHumanPolls ==
  ASSUME NEW r \in Runners, Moving(r), PollInv, NEW t \in Tasks,
         RecoverNeedsHuman(r, t)
  PROVE  PollInv'
<1>1. activity'[r].step = "resume" /\ activity'[r].mode = "manual"
  BY RecoverNeedsHumanFields DEF Moving, WorkInv
<1>2. Relied(activity'[r]) = {}
  BY <1>1 DEF Relied
<1>3. PollSound(r, activity'[r], journal'[r], task', inflight')
  BY <1>1, <1>2 DEF PollSound
<1> QED
  BY <1>3, DevicePollSound

\* A task that the server says may be resumed is parked with its device.
LEMMA ResumableSettled ==
  ASSUME NEW r \in Runners, Moving(r), NEW t \in Tasks, Reconcile(r, t),
         ~Settles(r, t), Answer(r, t) \notin {"active", "blocked"}
  PROVE  Settled(r, t, journal'[r][t], task'[t], inflight')
<1>1. /\ Answer(r, t) \in {"resumable_pre", "resumable_post"}
      /\ task'[t].status = "available"
  BY ResumableRow
<1>2. task[t].claimedBy = r /\ Answer(r, t) = ReconcileExactTask(task[t], r, now)
  BY DEF Reconcile, Answer
<1>3. ServeReconciliation(r, t) /\ TypeOK /\ refused' # "reconcile"
  BY DEF Reconcile, Moving, WorkInv, ProtocolInv, ProtocolNeverRefused
<1>4. task[t] \in TaskRow /\ task \in [Tasks -> TaskRow]
  BY <1>3 DEF TypeOK
<1>5. CASE UNCHANGED vars
  <2>1. task'[t] = task[t]
    BY <1>5 DEF vars
  <2>2. task[t].auto # "queued"
    BY <1>1, <1>2, <2>1 DEF ReconcileExactTask
  <2> QED
    BY <1>1, <1>2, <2>1, <2>2, ParkedSettled
<1>6. CASE ReconcileTask(r, t)
  <2> DEFINE row == Parked(task[t], ParkCode(task[t], "runner_lease_expired"))
             rows == [task EXCEPT ![t] = row]
             b == Refreshed(batch, rows)
  <2>1. Commit("reconcile", b, rows)
    BY <1>6 DEF ReconcileTask, UpdateAndRefresh
  <2>2. row.auto = "needs_human" /\ row.claimedBy = task[t].claimedBy
    BY <1>4 DEF Parked, TaskRow
  <2> HIDE DEF b, row
  <2>3. task' = rows
    BY <1>3, <2>1 DEF Commit, CommitFrom
  <2>4. task'[t] = row
    BY <1>4, <2>3
  <2> QED
    BY <1>1, <1>2, <2>2, <2>4, ParkedSettled
<1> QED
  BY <1>3, <1>5, <1>6 DEF ServeReconciliation

LEMMA ReconcilePolls ==
  ASSUME NEW r \in Runners, Moving(r), PollInv, NEW t \in Tasks, Reconcile(r, t)
  PROVE  PollInv'
<1> DEFINE a == activity[r]
           b == activity'[r]
           skip == Skips(r, t)
<1>1. DeviceInv /\ a.step = "reconcile" /\ t \in a.todo
  BY DEF Moving, WorkInv, Reconcile, At
<1>2. Reconciled(r, t, skip) /\ skip \in BOOLEAN
  BY DEF Reconcile, Skips
<1> HIDE DEF skip
<1>3. /\ b.step = "reconcile" /\ b.mode = a.mode /\ b.todo = a.todo \ {t}
      /\ b.skipped = IF skip THEN a.skipped \cup {t} ELSE a.skipped
  BY <1>1, <1>2, PassedFields
<1>4. b.mode # "auto"
  BY <1>1, <1>3 DEF DeviceInv, ActivitySound, WorkSteps
<1>5. \A u \in Relied(b) : u \in Tasks /\ u \notin b.todo \cup b.skipped
  BY <1>3, <1>4, PassRelies DEF PassSteps
<1>6. \A u \in Tasks \ {t} : journal'[r][u] = journal[r][u]
  <2>1. PICK e : UNCHANGED journal \/ Write(r, t, e)
    BY DEF Reconcile, Remove
  <2> QED
    BY <1>1, <2>1, WriteGives
<1>7. ASSUME NEW u \in Relied(b), u # t
      PROVE  Settled(r, u, journal'[r][u], task'[u], inflight')
  <2>1. u \in Relied(a) /\ journal'[r][u] = journal[r][u]
    BY <1>1, <1>3, <1>5, <1>6, <1>7 DEF Relied
  <2> QED
    BY <1>1, <2>1, RestSettled
<1>8. ASSUME t \in Relied(b)
      PROVE  Settled(r, t, journal'[r][t], task'[t], inflight')
  <2>1. ~Skips(r, t)
    BY <1>3, <1>5, <1>8 DEF skip
  <2>2. CASE Settles(r, t)
    <3>1. Write(r, t, NoEntry)
      BY <2>2 DEF Reconcile, Remove
    <3>2. journal'[r][t] = NoEntry
      BY <1>1, <3>1, WriteGives
    <3> QED
      BY <3>2 DEF Settled, Old
  <2>3. CASE ~Settles(r, t)
    BY <2>1, <2>3, ResumableSettled DEF Skips
  <2> QED
    BY <2>2, <2>3
<1>9. \A u \in Relied(b) : Settled(r, u, journal'[r][u], task'[u], inflight')
  BY <1>7, <1>8
<1> QED
  BY <1>3, <1>4, <1>9, PassSound, DevicePollSound DEF PassSteps

LEMMA ReconcileFailsPolls ==
  ASSUME NEW r \in Runners, Moving(r), PollInv, NEW t \in Tasks, ReconcileFails(r, t)
  PROVE  PollInv'
<1> DEFINE a == activity[r]
           b == activity'[r]
<1>1. DeviceInv /\ a.step = "reconcile" /\ UNCHANGED journal
  BY DEF Moving, WorkInv, ReconcileFails, At
<1>2. PICK skip : skip = TRUE /\ Reconciled(r, t, skip)
  BY DEF ReconcileFails
<1>3. /\ b.step = "reconcile" /\ b.mode = a.mode /\ b.todo = a.todo \ {t}
      /\ b.skipped = a.skipped \cup {t}
  BY <1>1, <1>2, PassedFields
<1>4. b.mode # "auto"
  BY <1>1, <1>3 DEF DeviceInv, ActivitySound, WorkSteps
<1>5. \A u \in Relied(b) : u \in Tasks /\ u \notin b.todo \cup b.skipped
  BY <1>3, <1>4, PassRelies DEF PassSteps
<1>6. \A u \in Relied(b) : u \in Relied(a)
  BY <1>1, <1>3, <1>5 DEF Relied
<1>7. \A u \in Relied(b) : Settled(r, u, journal'[r][u], task'[u], inflight')
  BY <1>1, <1>6, RestSettled
<1> QED
  BY <1>3, <1>4, <1>7, PassSound, DevicePollSound DEF PassSteps

-----------------------------------------------------------------------------
(* Claims and resumes *)

\* A queued task that the poll leases has no entry that forbids to begin it.
LEMMA ClaimPolls ==
  ASSUME NEW r \in Runners, Moving(r), PollInv, ClaimNext(r)
  PROVE  PollInv'
<1> DEFINE a == activity[r]
           b == activity'[r]
<1>1. DeviceInv /\ TypeOK
  BY DEF Moving, WorkInv, ProtocolInv
<1>2. UNCHANGED <<journal, inflight>> /\ a.step = "claim"
  BY DEF ClaimNext, At
<1>3. PICK t \in Tasks, parked \in SUBSET (ExpiredRunnerClaims \cup Exhausted) :
        /\ Claim(r, t, parked)
        /\ refused' = "none"
        /\ WorkOn(r, t, "begin", FALSE, FALSE)
  BY DEF ClaimNext
<1>4. task[t].auto = "queued"
  BY <1>1, <1>3, ClaimGives
<1>5. b.step = "begin" /\ b.task = t /\ b.mode = a.mode
  <2>1. PICK no : no = FALSE /\ WorkOn(r, t, "begin", no, no)
    BY <1>3
  <2> QED
    BY <1>1, <2>1, WorkOnFields
<1>6. \A u \in Tasks : u \in Relied(a)
  BY <1>2 DEF Relied
<1>7. ~Old(journal'[r][t])
  BY <1>2, <1>4, <1>6 DEF PollInv, PollSound, Settled, Loose
<1>8. b.mode # "auto"
  BY <1>1, <1>2, <1>5 DEF DeviceInv, ActivitySound, WorkSteps
<1>9. \A u \in Relied(b) : Settled(r, u, journal'[r][u], task'[u], inflight')
  <2>1. \A u \in Relied(b) : u \in Relied(a)
    BY <1>6 DEF Relied
  <2> QED
    BY <1>2, <2>1, RestSettled
<1>10. PollSound(r, activity'[r], journal'[r], task', inflight')
  BY <1>5, <1>7, <1>8, <1>9 DEF PollSound
<1> QED
  BY <1>10, DevicePollSound

\* A resumed lease that fits starts its entry over before the submission.
LEMMA ResumedIsFresh ==
  ASSUME NEW e \in Entry, NEW t, ~task[t].intent
  PROVE  ~Old(ResumedEntry(e, t))
<1>1. /\ ResumedEntry(e, t).phase = "claimed"
      /\ ResumedEntry(e, t).waiting = FALSE
  BY DEF ResumedEntry, Entry
<1> QED
  BY <1>1 DEF Old, AtOrAfterIntent, PostSubmit

LEMMA ResumePolls ==
  ASSUME NEW r \in Runners, Moving(r), PollInv, ResumeTask(r)
  PROVE  PollInv'
<1> DEFINE a == activity[r]
           b == activity'[r]
           t == a.task
           e == journal[r][t]
<1>1. DeviceInv /\ TypeOK
  BY DEF Moving, WorkInv, ProtocolInv
<1>2. t \in Tasks /\ Leases(r, t)
  BY <1>1, ResumeTaskGives
<1>3. UNCHANGED inflight /\ a.step = "resume"
  BY DEF ResumeTask, Answered, At
<1>4. e \in Entry
  BY <1>1, <1>2, <1>3, EntryOf DEF DeviceInv, ActivitySound, EntrySteps
<1>5. PICK step, f :
        /\ WorkOn(r, t, step, task[t].intent, task[t].confirmed)
        /\ \/ step = "begin" /\ ResumeFits(r, t) /\ f = ResumedEntry(e, t)
           \/ step = "give_up"
        /\ UNCHANGED journal \/ Write(r, t, f)
        /\ step = "begin" => Write(r, t, f)
  <2>1. CASE /\ ResumeFits(r, t)
             /\ Write(r, t, ResumedEntry(e, t))
             /\ WorkOn(r, t, "begin", task[t].intent, task[t].confirmed)
    BY <2>1
  <2>2. CASE /\ UNCHANGED journal
             /\ WorkOn(r, t, "give_up", task[t].intent, task[t].confirmed)
    BY <2>2
  <2> QED
    BY <2>1, <2>2 DEF ResumeTask
<1>6. /\ b.step = step /\ b.task = t /\ b.mode = a.mode /\ b.skipped = a.skipped
      /\ b.assist = task[t].intent
  BY <1>1, <1>5, WorkOnFields
<1>7. a.mode \in {"auto", "manual"}
  BY <1>3 DEF PollInv, PollSound
<1>8. \A u \in Tasks \ {t} : journal'[r][u] = journal[r][u]
  BY <1>1, <1>2, <1>5, WriteGives
<1>9. b.step = "begin" /\ ~b.assist => ~Old(journal'[r][t])
  BY <1>1, <1>2, <1>4, <1>5, <1>6, WriteGives, ResumedIsFresh
<1>10. b.mode = "auto" /\ b.step # "give_up" => task'[t].intent
  <2>1. b.mode = "auto" /\ b.step # "give_up" => task[t].intent
    BY <1>5, <1>6 DEF ResumeFits
  <2> QED
    BY <1>2, <2>1 DEF Leases
<1>11. ASSUME NEW u \in Relied(b)
       PROVE  Settled(r, u, journal'[r][u], task'[u], inflight')
  <2>1. u \in Tasks /\ u \in Relied(a)
    BY <1>5, <1>6, <1>7, <1>11 DEF Relied
  <2>2. CASE u = t
    BY <1>2, <1>3, <2>2, LeasedSettled
  <2>3. CASE u # t
    BY <1>3, <1>8, <2>1, <2>3, RestSettled
  <2> QED
    BY <2>2, <2>3
<1>12. task'[t].claimedBy = r
  BY <1>2 DEF Leases
<1>13. PollSound(r, activity'[r], journal'[r], task', inflight')
  BY <1>6, <1>7, <1>9, <1>10, <1>11, <1>12 DEF PollSound
<1> QED
  BY <1>13, DevicePollSound

-----------------------------------------------------------------------------
(* The work on a task, and its ends *)

OnlyWrites(r, t) == \A u \in Tasks \ {t} : journal'[r][u] = journal[r][u]

LEMMA WritesOne ==
  ASSUME DeviceInv, NEW r \in Runners, NEW t \in Tasks, NEW e,
         UNCHANGED journal \/ Write(r, t, e)
  PROVE  OnlyWrites(r, t)
BY WriteGives DEF OnlyWrites

\* Work that goes on under its lease.
GoesOn(r) ==
  /\ activity[r].step \in WorkSteps \ {"fail", "give_up"}
  /\ activity'[r].step \in WorkSteps \ {"begin", "give_up"}
  /\ SameLease(activity[r], activity'[r])
  /\ OnlyWrites(r, activity[r].task)

\* What automatic recovery works on was submitted.
LEMMA AutoSubmitted ==
  ASSUME NEW r \in Runners, Moving(r), PollInv, activity[r].mode = "auto",
         activity[r].step \in WorkSteps \ {"give_up"}
  PROVE  /\ activity[r].task \in Tasks
         /\ task'[activity[r].task].intent /\ task'[activity[r].task].claimedBy = r
<1>1. activity[r].task \in Tasks
  BY DEF Moving, WorkInv, DeviceInv, ActivitySound
<1>2. task[activity[r].task].intent /\ task[activity[r].task].claimedBy = r
  BY DEF PollInv, PollSound, WorkSteps
<1>3. RowMoves(task[activity[r].task], task'[activity[r].task])
  BY <1>1 DEF Moving, AllMove
<1> QED
  BY <1>1, <1>2, <1>3 DEF RowMoves

LEMMA WorkPolls ==
  ASSUME NEW r \in Runners, Moving(r), PollInv, GoesOn(r)
  PROVE  PollInv'
<1> DEFINE a == activity[r]
           b == activity'[r]
<1>1. /\ a.step \in WorkSteps \ {"fail", "give_up"}
      /\ b.step \in WorkSteps \ {"begin", "give_up"}
      /\ b.mode = a.mode /\ b.task = a.task /\ b.skipped = a.skipped
  BY DEF GoesOn, SameLease, SameWork
<1>2. b.mode = "auto" => task'[b.task].intent /\ task'[b.task].claimedBy = r
  BY <1>1, AutoSubmitted
<1>3. ASSUME NEW u \in Relied(b)
      PROVE  Settled(r, u, journal'[r][u], task'[u], inflight')
  <2>1. u \in Tasks /\ u \in Relied(a)
    BY <1>1, <1>3 DEF Relied, WorkSteps
  <2>2. CASE u # a.task
    <3>1. journal'[r][u] = journal[r][u]
      BY <2>1, <2>2 DEF GoesOn, OnlyWrites
    <3> QED
      BY <1>1, <2>1, <3>1, RestSettled
  <2>3. CASE u = a.task
    <3>1. a.mode = "auto"
      BY <1>1, <1>3, <2>3 DEF Relied, WorkSteps
    <3> QED
      BY <1>1, <1>2, <2>1, <2>3, <3>1, SubmittedSettled
  <2> QED
    BY <2>2, <2>3
<1>4. PollSound(r, activity'[r], journal'[r], task', inflight')
  BY <1>1, <1>2, <1>3 DEF PollSound, WorkSteps
<1> QED
  BY <1>4, DevicePollSound

LEMMA BreakGoesOn ==
  ASSUME DeviceInv, NEW r \in Runners,
         activity[r].step \in WorkSteps \ {"fail", "give_up"},
         NEW code, Break(r, code)
  PROVE  GoesOn(r)
<1>1. activity[r].task \in Tasks
  BY DEF DeviceInv, ActivitySound
<1>2. activity'[r].step = "fail" /\ SameLease(activity[r], activity'[r])
  BY <1>1, BreakUnedited
<1>3. OnlyWrites(r, activity[r].task)
  <2>1. PICK e : UNCHANGED journal \/ Write(r, activity[r].task, e)
    BY DEF Break
  <2> QED
    BY <1>1, <2>1, WritesOne
<1> QED
  BY <1>2, <1>3 DEF GoesOn, WorkSteps

LEMMA TurnGoesOn ==
  ASSUME DeviceInv, NEW r \in Runners,
         activity[r].step \in WorkSteps \ {"fail", "give_up"},
         NEW step \in WorkSteps \ {"begin", "give_up"}, Go(r, step),
         NEW e, UNCHANGED journal \/ Write(r, activity[r].task, e)
  PROVE  GoesOn(r)
<1>1. activity[r].task \in Tasks
  BY DEF DeviceInv, ActivitySound
<1> QED
  BY <1>1, GoFields, WritesOne DEF GoesOn

LEMMA PageWorkGoesOn ==
  ASSUME DeviceInv, NEW r \in Runners,
         PageWork(r) \/ RecordIntent(r) \/ Confirm(r)
  PROVE  GoesOn(r)
<1>1. activity[r].step \in WorkSteps \ {"fail", "give_up"}
  BY DEF PageWork, RecordIntent, Confirm, Prepare, MarkIntent, SubmitOnceInPage,
         SeePrompt, Reattach, Collect, At, WorkSteps
<1>2. PICK step \in WorkSteps \ {"begin", "give_up"} : Go(r, step)
  BY DEF PageWork, RecordIntent, Confirm, Prepare, MarkIntent, SubmitOnceInPage,
         SeePrompt, Reattach, Collect, WorkSteps
<1>3. PICK e : UNCHANGED journal \/ Write(r, activity[r].task, e)
  BY DEF PageWork, RecordIntent, Confirm, Prepare, MarkIntent, SubmitOnceInPage,
         SeePrompt, Reattach, Collect
<1> QED
  BY <1>1, <1>2, <1>3, TurnGoesOn

LEMMA BeginGoesOn ==
  ASSUME DeviceInv, NEW r \in Runners, Begin(r)
  PROVE  GoesOn(r)
<1>1. activity[r].step \in WorkSteps \ {"fail", "give_up"}
  BY DEF Begin, At, WorkSteps
<1>2. CASE Break(r, UnknownCode)
  BY <1>1, <1>2, BreakGoesOn
<1>3. ASSUME NEW step \in {"reattach", "prepare"}, Go(r, step),
             NEW e, UNCHANGED journal \/ Write(r, activity[r].task, e)
      PROVE  GoesOn(r)
  BY <1>1, <1>3, TurnGoesOn DEF WorkSteps
<1>4. PICK step \in {"reattach", "prepare"} :
        \/ Break(r, UnknownCode)
        \/ Go(r, step) /\ \E e : UNCHANGED journal \/ Write(r, activity[r].task, e)
  BY DEF Begin
<1> QED
  BY <1>2, <1>3, <1>4

LEMMA FailsGoesOn ==
  ASSUME DeviceInv, NEW r \in Runners,
         CallFails(r) \/ \E code \in FailureCodes : PageFails(r, code)
  PROVE  GoesOn(r)
<1>1. activity[r].step \in WorkSteps \ {"fail", "give_up"}
  BY DEF CallFails, PageFails, At, WorkSteps
<1>2. PICK code : Break(r, code)
  BY DEF CallFails, PageFails
<1> QED
  BY <1>1, <1>2, BreakGoesOn

LEMMA OpenFailsGoesOn ==
  ASSUME DeviceInv, NEW r \in Runners, NEW code, OpenFails(r, code)
  PROVE  GoesOn(r)
<1>1. activity[r].step \in WorkSteps \ {"fail", "give_up"} /\ activity[r].task \in Tasks
  BY DEF OpenFails, At, WorkSteps, DeviceInv, ActivitySound
<1>2. PICK stage : activity' = [activity EXCEPT ![r] =
                     [@ EXCEPT !.step = "fail", !.stage = stage, !.code = code]]
  BY DEF OpenFails
<1>3. activity'[r].step = "fail" /\ SameLease(activity[r], activity'[r])
  BY <1>2, BrokenFields
<1>4. PICK e : UNCHANGED journal \/ Write(r, activity[r].task, e)
  BY DEF OpenFails
<1> QED
  BY <1>1, <1>3, <1>4, WritesOne DEF GoesOn, WorkSteps

\* The work ends: what it leaves of its task is settled if the device polls next
\* or goes on recovering with nothing skipped.
LEMMA DonePolls ==
  ASSUME NEW r \in Runners, Moving(r), PollInv, NEW stop, After(r, stop),
         activity[r].step \in WorkSteps \/ activity[r].step = "resume",
         OnlyWrites(r, activity[r].task),
         \/ Settled(r, activity[r].task, journal'[r][activity[r].task],
                    task'[activity[r].task], inflight')
         \/ activity[r].mode = "poll" /\ activity'[r].step # "claim"
         \/ activity[r].mode = "manual"
         \/ activity[r].mode = "auto" /\ activity[r].skipped # {}
  PROVE  PollInv'
<1> DEFINE a == activity[r]
           b == activity'[r]
<1>1. DeviceInv /\ a.mode \in {"poll", "auto", "manual"}
  BY DEF Moving, WorkInv, DeviceInv, DevicesTyped, Activity
<1>2. /\ b.mode = "poll"
      /\ a.mode = "auto" => b.step = "recover" /\ b.skipped = a.skipped
      /\ a.mode = "poll" => b.step \in {"claim", "idle"}
      /\ a.mode = "manual" => b.step = "idle"
  BY <1>1, DoneFields
<1>3. b.step \in PassSteps
  BY <1>1, <1>2 DEF PassSteps
<1>4. ASSUME NEW u \in Relied(b)
      PROVE  Settled(r, u, journal'[r][u], task'[u], inflight')
  <2>1. /\ u \in Tasks
        /\ \/ b.step = "recover" /\ b.skipped = {}
           \/ b.step = "claim"
    BY <1>1, <1>2, <1>3, <1>4, PassRelies
  <2>2. \/ a.mode = "auto" /\ a.skipped = {}
        \/ a.mode = "poll" /\ b.step = "claim"
    BY <1>1, <1>2, <2>1
  <2>3. CASE u = a.task
    BY <2>2, <2>3
  <2>4. CASE u # a.task
    <3>1. a.mode = "poll" => a.step \in WorkSteps
      BY DEF PollInv, PollSound
    <3>2. u \in Relied(a)
      BY <2>1, <2>2, <2>4, <3>1 DEF Relied
    <3>3. journal'[r][u] = journal[r][u]
      BY <2>1, <2>4 DEF OnlyWrites
    <3> QED
      BY <2>4, <3>2, <3>3, RestSettled
  <2> QED
    BY <2>3, <2>4
<1> QED
  BY <1>2, <1>3, <1>4, PassSound, DevicePollSound

\* Giving up a resumed lease, and a resume that fails, keep the entry as old as it was.
LEMMA RememberPolls ==
  ASSUME NEW r \in Runners, Moving(r), PollInv, ResumeFails(r) \/ GiveUp(r)
  PROVE  PollInv'
<1> DEFINE a == activity[r]
           t == a.task
           e == journal[r][t]
<1>1. a.step \in {"resume", "give_up"} /\ Remember(r, t) /\ After(r, FALSE)
  BY DEF ResumeFails, GiveUp, At
<1>2. DeviceInv /\ t \in Tasks /\ a.mode \in {"auto", "manual"}
  BY <1>1 DEF Moving, WorkInv, DeviceInv, ActivitySound, WorkSteps, PollInv, PollSound
<1>3. OnlyWrites(r, t)
  BY <1>1, <1>2, WritesOne DEF Remember
<1>4. Old(journal'[r][t]) => Old(e)
  <2>1. CASE UNCHANGED journal
    BY <2>1
  <2>2. CASE e # NoEntry /\ e.waiting
    BY <2>2 DEF Old, AtOrAfterIntent
  <2> QED
    BY <1>1, <2>1, <2>2 DEF Remember
<1>5. a.mode = "auto" /\ a.skipped = {} => t \in Relied(a)
  BY <1>2 DEF Relied
<1>6. a.mode = "auto" /\ a.skipped = {} =>
        Settled(r, t, journal'[r][t], task'[t], inflight')
  BY <1>1, <1>4, <1>5, RestSettled
<1>7. PICK no : no = FALSE /\ After(r, no)
  BY <1>1
<1> QED
  BY <1>1, <1>2, <1>3, <1>6, <1>7, DonePolls DEF WorkSteps

LEMMA CompletePolls ==
  ASSUME NEW r \in Runners, Moving(r), PollInv, CompleteTask(r)
  PROVE  PollInv'
<1> DEFINE t == activity[r].task
<1>1. activity[r].step = "complete" /\ Write(r, t, NoEntry)
  BY DEF CompleteTask, At, Remove
<1>2. DeviceInv /\ t \in Tasks
  BY <1>1 DEF Moving, WorkInv, DeviceInv, ActivitySound, WorkSteps
<1>3. OnlyWrites(r, t) /\ journal'[r][t] = NoEntry
  BY <1>1, <1>2, WriteGives, WritesOne
<1>4. Settled(r, t, journal'[r][t], task'[t], inflight')
  BY <1>3 DEF Settled, Old
<1>5. PICK no : no = FALSE /\ After(r, no)
  BY DEF CompleteTask
<1> QED
  BY <1>1, <1>3, <1>4, <1>5, DonePolls DEF WorkSteps

\* A failure that the server takes either requeues the task, whose entry goes, or
\* parks it with its device.
LEMMA FailedSettled ==
  ASSUME NEW r \in Runners, Moving(r), Fail(r)
  PROVE  Settled(r, activity[r].task, journal'[r][activity[r].task],
                 task'[activity[r].task], inflight')
<1> DEFINE t == activity[r].task
<1>1. DeviceInv /\ TypeOK /\ refused' = "none"
  BY DEF Moving, WorkInv, ProtocolInv, Fail, Answered
<1>2. t \in Tasks
  BY <1>1 DEF Fail, At, DeviceInv, ActivitySound, WorkSteps
<1>3. task[t] \in TaskRow /\ task \in [Tasks -> TaskRow]
  BY <1>1, <1>2 DEF TypeOK
<1>4. CASE task'[t].auto = "queued"
  <2>1. Write(r, t, NoEntry)
    BY <1>4 DEF Fail, Remove
  <2>2. journal'[r][t] = NoEntry
    BY <1>1, <1>2, <2>1, WriteGives
  <2> QED
    BY <2>2 DEF Settled, Old
<1>5. CASE task'[t].auto # "queued"
  <2>1. PICK g, stage, code : RecordFailure(t, r, g, stage, code)
    BY DEF Fail, Answered, Serve, Request
  <2>2. task[t].claimedBy = r
    BY <2>1 DEF RecordFailure, ActiveRunnerLease, ActiveLease
  <2> DEFINE row == IF RetriesFailure(task[t], stage, code)
                    THEN [task[t] EXCEPT !.status = "available", !.auto = "queued",
                                         !.lease = NoTime, !.lastError = code]
                    ELSE Parked(task[t], code)
             rows == [task EXCEPT ![t] = row]
             b == Refreshed(batch, rows)
  <2>3. Commit("failure", b, rows)
    BY <2>1 DEF RecordFailure, UpdateAndRefresh
  <2>4. row.status = "available" /\ row.claimedBy = r
    <3> DEFINE old == task[t]
    <3>1. old \in TaskRow /\ old.claimedBy = r
      BY <1>3, <2>2
    <3> HIDE DEF old
    <3>2. /\ Parked(old, code).status = "available"
          /\ Parked(old, code).claimedBy = old.claimedBy
      BY <3>1 DEF Parked, TaskRow
    <3> DEFINE again == [old EXCEPT !.status = "available", !.auto = "queued",
                                    !.lease = NoTime, !.lastError = code]
    <3>3. again.status = "available" /\ again.claimedBy = old.claimedBy
      BY <3>1 DEF TaskRow
    <3> HIDE DEF again
    <3>4. row = again \/ row = Parked(old, code)
      BY DEF again, old
    <3> HIDE DEF row
    <3> QED
      BY <3>1, <3>2, <3>3, <3>4
  <2> HIDE DEF b, row
  <2>5. task' = rows
    BY <1>1, <2>3 DEF Commit, CommitFrom
  <2>6. task'[t] = row
    BY <1>2, <1>3, <2>5
  <2> QED
    BY <1>5, <2>4, <2>6, ParkedSettled
<1> QED
  BY <1>4, <1>5

LEMMA FailPolls ==
  ASSUME NEW r \in Runners, Moving(r), PollInv, Fail(r)
  PROVE  PollInv'
<1> DEFINE t == activity[r].task
<1>1. activity[r].step = "fail" /\ DeviceInv /\ t \in Tasks
  BY DEF Fail, At, Moving, WorkInv, DeviceInv, ActivitySound, WorkSteps
<1>2. OnlyWrites(r, t)
  BY <1>1, WritesOne DEF Fail, Remove
<1>3. PICK stop : After(r, stop)
  BY DEF Fail
<1> QED
  BY <1>1, <1>2, <1>3, FailedSettled, DonePolls DEF WorkSteps

\* A failed report stops the poll.
LEMMA StopIsIdle ==
  ASSUME DeviceInv, NEW r \in Runners, After(r, TRUE), activity[r].mode # "auto"
  PROVE  activity'[r].step = "idle"
<1>1. activity \in [Runners -> Activity]
  BY DEF DeviceInv, DevicesTyped
<1>2. activity' = [activity EXCEPT ![r] = [Idle EXCEPT !.step = "idle"]]
  BY DEF After
<1>3. [Idle EXCEPT !.step = "idle"].step = "idle"
  BY DEF Idle
<1> QED
  BY <1>1, <1>2, <1>3

LEMMA FailFailsPolls ==
  ASSUME NEW r \in Runners, Moving(r), PollInv, FailFails(r)
  PROVE  PollInv'
<1> DEFINE t == activity[r].task
<1>1. activity[r].step = "fail" /\ DeviceInv /\ t \in Tasks
  BY DEF FailFails, At, Moving, WorkInv, DeviceInv, ActivitySound, WorkSteps
<1>2. OnlyWrites(r, t)
  BY DEF FailFails, OnlyWrites
<1>3. activity[r].mode = "auto" =>
        Settled(r, t, journal'[r][t], task'[t], inflight')
  BY <1>1, AutoSubmitted, SubmittedSettled DEF WorkSteps
<1>4. activity[r].mode # "auto" => activity'[r].step = "idle"
  BY <1>1, StopIsIdle DEF FailFails
<1>5. activity[r].mode \in {"poll", "auto", "manual"}
  BY <1>1 DEF DeviceInv, DevicesTyped, Activity
<1>6. PICK stop : After(r, stop)
  BY DEF FailFails
<1> QED
  BY <1>1, <1>2, <1>3, <1>4, <1>5, <1>6, DonePolls DEF WorkSteps

-----------------------------------------------------------------------------
(* Every step *)

LEMMA DevicePolls ==
  ASSUME NEW r \in Runners, Moving(r), PollInv, DeviceAction(r)
  PROVE  PollInv'
<1>0. DeviceInv
  BY DEF Moving, WorkInv
<1>1. CASE StartPoll(r) \/ ListDue(r) \/ StartPolling(r) \/ EndPoll(r) \/ Crash(r)
  BY <1>1, StartPollPolls, ListDuePolls, StartPollingPolls, StopPolls
<1>2. ASSUME NEW t \in Tasks,
             \/ Reconcile(r, t) \/ ReconcileFails(r, t) \/ Recover(r, t)
             \/ RecoverNeedsHuman(r, t)
      PROVE  PollInv'
  BY <1>2, ReconcilePolls, ReconcileFailsPolls, RecoverPolls, RecoverNeedsHumanPolls
<1>3. CASE ClaimNext(r) \/ ResumeTask(r) \/ ResumeFails(r) \/ GiveUp(r)
  BY <1>3, ClaimPolls, ResumePolls, RememberPolls
<1>4. CASE CompleteTask(r) \/ Fail(r) \/ FailFails(r)
  BY <1>4, CompletePolls, FailPolls, FailFailsPolls
<1>5. CASE \/ Begin(r) \/ PageWork(r) \/ RecordIntent(r) \/ Confirm(r)
           \/ CallFails(r)
           \/ \E code \in FailureCodes : OpenFails(r, code) \/ PageFails(r, code)
  <2>1. GoesOn(r)
    BY <1>0, <1>5, BeginGoesOn, PageWorkGoesOn, FailsGoesOn, OpenFailsGoesOn
  <2> QED
    BY <2>1, WorkPolls
<1> QED
  BY <1>1, <1>2, <1>3, <1>4, <1>5 DEF DeviceAction, PassStep, TaskStep, PageWork

LEMMA PollInductive ==
  ASSUME WorkInv, PollInv, [ExtNext]_extVars
  PROVE  PollInv'
<1>1. AllMove
  BY WorkInductive, NextRowsMove
<1>2. ASSUME NEW r \in Runners, DeviceAction(r) PROVE PollInv'
  BY <1>2, DeviceMoving, DevicePolls
<1>3. ASSUME NEW r \in Runners, NEW t \in Tasks, PageSends(r, t) \/ PageRefuses(r, t)
      PROVE  PollInv'
  <2>1. UNCHANGED <<vars, journal, activity, inflight>>
    BY <1>3, PageStepFramed DEF WorkInv
  <2>2. UNCHANGED <<task, journal, activity, inflight>>
    BY <2>1 DEF vars
  <2> QED
    BY <2>2 DEF PollInv
<1> QED
  BY <1>1, <1>2, <1>3, ExtNextCases, ElsewherePolls

LEMMA InitPolls ==
  ASSUME ExtInit
  PROVE  PollInv
<1>1. ASSUME NEW r \in Runners
      PROVE  PollSound(r, activity[r], journal[r], task, inflight)
  <2>1. activity[r].step = "idle" /\ activity[r].mode = "poll"
    BY DEF ExtInit, Idle
  <2>2. Relied(activity[r]) = {}
    BY <2>1 DEF Relied, WorkSteps
  <2> QED
    BY <2>1, <2>2 DEF PollSound
<1> QED
  BY <1>1 DEF PollInv

\* A task polled from the queue never meets an entry that forbids to begin it,
\* whatever requests of the device come late and whenever workers crash: a pass
\* settles the entries before it polls, and what is settled stays settled.
THEOREM PollsOnlyFresh == ExtSpec => []PollMeetsNoOldEntry
<1>1. PollInv => PollMeetsNoOldEntry
  BY DEF PollInv, PollSound, Old, PollMeetsNoOldEntry, At
<1> QED
  BY <1>1, InitPolls, PollInductive, ExtensionWorks, PTL DEF ExtSpec

=============================================================================
