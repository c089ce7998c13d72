----------------------- MODULE ExtensionRunner_proofs -----------------------
(***************************************************************************)
(* Theorems about ExtensionRunner: what every device knows of its own work *)
(* and of the requests it left in flight, that the extension runs nothing  *)
(* but the protocol of DeliveryRunner, and that a prompt is sent at most   *)
(* once.  For any tasks, devices, users, codes and bounds.                 *)
(***************************************************************************)
EXTENDS ExtensionRunner, DeliveryRows_proofs, FiniteSetTheorems

-----------------------------------------------------------------------------
(* What a device knows *)

WorkSteps ==
  {"begin", "prepare", "mark", "intent", "ask", "page", "reattach", "confirm",
   "collect", "complete", "fail", "give_up"}

\* The steps of a device that has an entry for its task.
EntrySteps ==
  {"resume", "give_up", "prepare", "mark", "intent", "ask", "page", "reattach",
   "confirm", "collect", "complete"}

LeaseOps == {"intent", "confirm", "complete", "fail", "heartbeat"}
CallOps == {"reconcile", "claim", "resume"} \cup LeaseOps
Stages == {"pre_submit", "post_submit"}

Activity ==
  [step : Steps, mode : {"poll", "auto", "manual"}, task : Tasks \cup {NoTask},
   generation : 0..MaxGeneration, assist : BOOLEAN, confirmed : BOOLEAN,
   todo : SUBSET Tasks, skipped : SUBSET Tasks, stage : Stages,
   code : FailureCodes \cup {NoCode}]

Journal == [Tasks -> Entry \cup {NoEntry}]

Requests ==
  [op : CallOps, runner : Runners, task : Tasks \cup {NoTask},
   generation : 0..MaxGeneration, session : Sessions \cup {NoSession},
   stage : Stages, code : FailureCodes \cup {NoCode}]

\* A device at work has a task, a generation the task has had, and an entry when
\* it needs one; what it is going to take up by itself has attempts left.
ActivitySound(a, jr, rows) ==
  /\ a.step \in WorkSteps \cup {"resume"} => a.task \in Tasks
  /\ a.step \in WorkSteps => a.generation \in 1..rows[a.task].generation
  /\ a.step \in EntrySteps => jr[a.task] # NoEntry
  /\ a.step = "fail" => a.code \in FailureCodes
  /\ \A t \in a.todo : jr[t] # NoEntry
  /\ a.step = "recover" \/ a.mode = "auto" => \A t \in a.todo : jr[t].tries < 2
  /\ a.mode = "auto" =>
       a.step \in WorkSteps \cup {"resume"} /\ a.task \notin a.todo

\* Automatic recovery counts its attempt before it makes the call.
JournalSound(jr) ==
  \A t \in Tasks : jr[t] # NoEntry => jr[t].contacts <= jr[t].tries

RequestSound(q, rows) ==
  /\ q \in Requests
  /\ q.op # "claim" => q.task \in Tasks
  /\ q.op \in LeaseOps => q.generation \in 1..rows[q.task].generation
  /\ q.op \in {"intent", "confirm"} => q.session \in Sessions
  /\ q.op = "fail" => q.code \in FailureCodes

InflightSound(requests, rows) ==
  /\ IsFiniteSet(requests)
  /\ Cardinality(requests) <= MaxInFlight
  /\ \A q \in requests : RequestSound(q, rows)

DevicesTyped == activity \in [Runners -> Activity] /\ journal \in [Runners -> Journal]

DeviceInv ==
  /\ DevicesTyped
  /\ \A r \in Runners : ActivitySound(activity[r], journal[r], task)
  /\ \A r \in Runners : JournalSound(journal[r])
  /\ InflightSound(inflight, task)
  /\ asked \subseteq Runners \X Tasks
  /\ sent \in [Tasks -> [Runners -> Nat]]
  /\ restarts \in 0..MaxRestarts

\* What the rows do to what a device knows of them.
Later(rows, next) == \A t \in Tasks : rows[t].generation <= next[t].generation

\* The generations of a row are numbers.
RowsTyped(rows) == \A t \in Tasks : rows[t].generation \in Nat

RowsLater == RowsTyped(task) /\ RowsTyped(task') /\ Later(task, task')

\* Device r turns to a, and its entries become jr.
Becomes(r, a, jr) ==
  /\ activity' = [activity EXCEPT ![r] = a]
  /\ journal' = [journal EXCEPT ![r] = jr]

DeviceStep(r) ==
  \E a \in Activity, jr \in Journal :
    Becomes(r, a, jr) /\ ActivitySound(a, jr, task') /\ JournalSound(jr)

PageTyped == asked' \subseteq Runners \X Tasks /\ sent' \in [Tasks -> [Runners -> Nat]]

-----------------------------------------------------------------------------
(* A step of one device, and of the requests in flight *)


LEMMA SoundLater ==
  ASSUME NEW a \in Activity, NEW jr, NEW rows, NEW next,
         RowsTyped(rows), RowsTyped(next), Later(rows, next),
         ActivitySound(a, jr, rows)
  PROVE  ActivitySound(a, jr, next)
<1>1. ASSUME a.step \in WorkSteps
      PROVE  a.generation \in 1..next[a.task].generation
  <2>1. a.task \in Tasks /\ a.generation \in 1..rows[a.task].generation
    BY <1>1 DEF ActivitySound
  <2>2. /\ rows[a.task].generation \in Nat /\ next[a.task].generation \in Nat
        /\ rows[a.task].generation <= next[a.task].generation
    BY <2>1 DEF RowsTyped, Later
  <2> QED
    BY <2>1, <2>2
<1> QED
  BY <1>1 DEF ActivitySound

LEMMA RequestLater ==
  ASSUME NEW q, NEW rows, NEW next, RowsTyped(rows), RowsTyped(next),
         Later(rows, next), RequestSound(q, rows)
  PROVE  RequestSound(q, next)
<1>1. ASSUME q.op \in LeaseOps
      PROVE  q.generation \in 1..next[q.task].generation
  <2>1. q.task \in Tasks /\ q.generation \in 1..rows[q.task].generation
    BY <1>1 DEF RequestSound, LeaseOps
  <2>2. /\ rows[q.task].generation \in Nat /\ next[q.task].generation \in Nat
        /\ rows[q.task].generation <= next[q.task].generation
    BY <2>1 DEF RowsTyped, Later
  <2> QED
    BY <2>1, <2>2
<1> QED
  BY <1>1 DEF RequestSound

\* Requests are left in flight one at a time, and only up to the bound.
LEMMA RequestsStay ==
  ASSUME InflightSound(inflight, task), RowsLater, inflight' \subseteq inflight
  PROVE  InflightSound(inflight', task')
<1>1. IsFiniteSet(inflight') /\ Cardinality(inflight') <= Cardinality(inflight)
  BY FS_Subset DEF InflightSound
<1>2. Cardinality(inflight) \in Nat /\ Cardinality(inflight') \in Nat
  BY <1>1, FS_CardinalityType DEF InflightSound
<1>3. Cardinality(inflight') <= MaxInFlight
  BY <1>1, <1>2, ExtensionBoundsAssumption DEF InflightSound
<1>4. \A q \in inflight' : RequestSound(q, task')
  BY RequestLater DEF InflightSound, RowsLater
<1> QED
  BY <1>1, <1>3, <1>4 DEF InflightSound

LEMMA RequestLeft ==
  ASSUME InflightSound(inflight, task), NEW q, RequestSound(q, task),
         RowsTyped(task), UNCHANGED task,
         Cardinality(inflight) < MaxInFlight,
         inflight' = inflight \cup {q}
  PROVE  InflightSound(inflight', task')
<1>1. IsFiniteSet(inflight') /\ Cardinality(inflight') <= Cardinality(inflight) + 1
  <2>1. CASE q \in inflight
    <3>1. inflight' = inflight
      BY <2>1
    <3>2. IsFiniteSet(inflight) /\ Cardinality(inflight) \in Nat
      BY FS_CardinalityType DEF InflightSound
    <3>3. Cardinality(inflight) <= Cardinality(inflight) + 1
      BY <3>2
    <3> QED
      BY <3>1, <3>2, <3>3, Zenon
  <2>2. CASE q \notin inflight
    <3>1. Cardinality(inflight') = Cardinality(inflight) + 1 /\ IsFiniteSet(inflight')
      BY <2>2, FS_AddElement DEF InflightSound
    <3>2. Cardinality(inflight) \in Nat
      BY FS_CardinalityType DEF InflightSound
    <3> QED
      BY <3>1, <3>2
  <2> QED
    BY <2>1, <2>2
<1>2. Cardinality(inflight) \in Nat /\ Cardinality(inflight') \in Nat
  BY <1>1, FS_CardinalityType DEF InflightSound
<1>3. Cardinality(inflight') <= MaxInFlight
  BY <1>1, <1>2, ExtensionBoundsAssumption
<1>4. \A p \in inflight' : RequestSound(p, task')
  BY DEF InflightSound
<1> QED
  BY <1>1, <1>3, <1>4 DEF InflightSound

\* A step of device r leaves the others what they were.
LEMMA DeviceMoves ==
  ASSUME DeviceInv, RowsLater,
         NEW r \in Runners, DeviceStep(r),
         InflightSound(inflight', task'), PageTyped, restarts' \in 0..MaxRestarts
  PROVE  DeviceInv'
<1>2. PICK a \in Activity, jr \in Journal :
        Becomes(r, a, jr) /\ ActivitySound(a, jr, task') /\ JournalSound(jr)
  BY DEF DeviceStep
<1>1. DevicesTyped'
  BY <1>2 DEF DeviceInv, DevicesTyped, Becomes
<1>3. ASSUME NEW s \in Runners
      PROVE  ActivitySound(activity'[s], journal'[s], task') /\ JournalSound(journal'[s])
  <2>1. CASE s = r
    <3>1. activity'[s] = a /\ journal'[s] = jr
      BY <1>2, <2>1 DEF DeviceInv, DevicesTyped, Becomes
    <3> QED
      BY <3>1, <1>2
  <2>2. CASE s # r
    <3>1. activity'[s] = activity[s] /\ journal'[s] = journal[s]
      BY <1>2, <2>2 DEF DeviceInv, DevicesTyped, Becomes
    <3>2. activity[s] \in Activity /\ ActivitySound(activity[s], journal[s], task)
          /\ JournalSound(journal[s])
      BY DEF DeviceInv, DevicesTyped
    <3> QED
      BY <3>1, <3>2, SoundLater DEF RowsLater
  <2> QED
    BY <2>1, <2>2
<1> QED
  BY <1>1, <1>3 DEF DeviceInv, PageTyped

LEMMA DevicesStay ==
  ASSUME DeviceInv, RowsLater,
         UNCHANGED <<activity, journal>>,
         InflightSound(inflight', task'), PageTyped, restarts' \in 0..MaxRestarts
  PROVE  DeviceInv'
<1>1. ASSUME NEW s \in Runners
      PROVE  ActivitySound(activity'[s], journal'[s], task') /\ JournalSound(journal'[s])
  <2>1. activity[s] \in Activity /\ ActivitySound(activity[s], journal[s], task)
        /\ JournalSound(journal[s])
    BY DEF DeviceInv, DevicesTyped
  <2> QED
    BY <2>1, SoundLater DEF RowsLater
<1> QED
  BY <1>1 DEF DeviceInv, DevicesTyped, PageTyped

-----------------------------------------------------------------------------
(* Calls *)

\* Where a call comes from: the step that makes it, or the heartbeat of the work.
CallOf(a, op) ==
  \/ op \in {"claim", "resume", "intent", "confirm", "complete", "fail"} /\ a.step = op
  \/ op = "heartbeat" /\ a.step \in WorkSteps

LEMMA CallSound ==
  ASSUME DeviceInv, NEW r \in Runners, NEW op, CallOf(activity[r], op)
  PROVE  RequestSound(Request(op, r, activity[r]), task)
<1> DEFINE a == activity[r]
           q == Request(op, r, a)
<1>1. a \in Activity /\ ActivitySound(a, journal[r], task) /\ journal[r] \in Journal
  BY DEF DeviceInv, DevicesTyped
<1>2. op \in CallOps /\ (op # "claim" => a.task \in Tasks)
  BY <1>1 DEF CallOf, CallOps, LeaseOps, WorkSteps, ActivitySound
<1>3. op \in {"intent", "confirm"} => journal[r][a.task].session \in Sessions
  <2> SUFFICES ASSUME op \in {"intent", "confirm"}
               PROVE  journal[r][a.task].session \in Sessions
    OBVIOUS
  <2>1. a.step \in EntrySteps /\ a.task \in Tasks
    BY <1>2 DEF CallOf, EntrySteps
  <2>2. journal[r][a.task] \in Entry
    BY <1>1, <2>1 DEF ActivitySound, Journal
  <2> QED
    BY <2>2 DEF Entry
<1>4. op \in LeaseOps => a.generation \in 1..task[a.task].generation
  BY <1>1 DEF CallOf, LeaseOps, WorkSteps, ActivitySound
<1>5. op = "fail" => a.code \in FailureCodes
  BY <1>1 DEF CallOf, ActivitySound
<1>6. /\ q.op = op /\ q.runner = r /\ q.task = a.task
      /\ q.generation = a.generation /\ q.stage = a.stage /\ q.code = a.code
      /\ q.session = IF op \in {"intent", "confirm"}
                     THEN journal[r][a.task].session ELSE NoSession
  BY DEF Request
<1>7. q \in Requests
  <2>1. /\ a.task \in Tasks \cup {NoTask} /\ a.generation \in 0..MaxGeneration
        /\ a.stage \in Stages /\ a.code \in FailureCodes \cup {NoCode}
    BY <1>1 DEF Activity
  <2>2. (IF op \in {"intent", "confirm"} THEN journal[r][a.task].session
         ELSE NoSession) \in Sessions \cup {NoSession}
    BY <1>3
  <2> QED
    BY <1>2, <2>1, <2>2 DEF Request, Requests
<1> HIDE DEF a, q
<1>8. RequestSound(q, task)
  BY <1>2, <1>3, <1>4, <1>5, <1>6, <1>7 DEF RequestSound
<1> QED
  BY <1>8 DEF a, q

LEMMA ReconcileSoundCall ==
  ASSUME DeviceInv, NEW r \in Runners, NEW t \in Tasks
  PROVE  RequestSound(Request("reconcile", r, [activity[r] EXCEPT !.task = t]), task)
<1>1. activity[r] \in Activity
  BY DEF DeviceInv, DevicesTyped
<1> QED
  BY <1>1 DEF Request, Requests, RequestSound, Activity, CallOps, LeaseOps

\* A request runs a transaction of the protocol.
LEMMA ServeIsNext ==
  ASSUME NEW q, RequestSound(q, task), Serve(q)
  PROVE  Next
<1>1. q \in Requests /\ q.runner \in Runners
  BY DEF RequestSound, Requests
<1>2. CASE q.op = "claim" /\ ClaimTask(q.runner)
  BY <1>1, <1>2 DEF Next
<1>3. ASSUME q.op # "claim", RunnerStep(q.runner, q.task)
      PROVE  Next
  <2>1. q.task \in Tasks
    BY <1>3 DEF RequestSound
  <2> QED
    BY <1>1, <1>3, <2>1 DEF Next
<1>4. CASE \/ q.op = "reconcile" /\ ReconcileTask(q.runner, q.task)
           \/ q.op = "resume" /\ Resume(q.runner, q.task)
  BY <1>3, <1>4 DEF RunnerStep
<1>5. q.op \in LeaseOps => q.generation \in 1..MaxGeneration
  <2> SUFFICES ASSUME q.op \in LeaseOps
               PROVE  q.generation \in 1..MaxGeneration
    OBVIOUS
  <2>1. q.generation \in 0..MaxGeneration /\ q.generation \in 1..task[q.task].generation
    BY <1>1 DEF RequestSound, Requests
  <2> QED
    BY <2>1, TimeAssumption
<1>6. CASE \/ /\ q.op = "intent"
              /\ RecordSubmitIntent(q.task, q.runner, q.generation, q.session)
           \/ /\ q.op = "confirm"
              /\ ConfirmSubmitted(q.task, q.runner, q.generation, q.session)
  <2>1. q.session \in Sessions /\ q.generation \in 1..MaxGeneration /\ q.op # "claim"
    BY <1>5, <1>6 DEF RequestSound, LeaseOps
  <2> QED
    BY <1>3, <1>6, <2>1 DEF RunnerStep
<1>7. CASE \/ q.op = "complete" /\ Complete(q.task, q.runner, q.generation)
           \/ q.op = "heartbeat" /\ Heartbeat(q.task, q.runner, q.generation)
  <2>1. q.generation \in 1..MaxGeneration /\ q.op # "claim"
    BY <1>5, <1>7 DEF LeaseOps
  <2> QED
    BY <1>3, <1>7, <2>1 DEF RunnerStep
<1>8. CASE /\ q.op = "fail"
           /\ RecordFailure(q.task, q.runner, q.generation, q.stage, q.code)
  <2>1. q.generation \in 1..MaxGeneration /\ q.op # "claim"
    BY <1>5, <1>8 DEF LeaseOps
  <2>2. q.stage \in {"pre_submit", "post_submit"} /\ q.code \in FailureCodes
    BY <1>1, <1>8 DEF RequestSound, Requests, Stages
  <2> QED
    BY <1>3, <1>8, <2>1, <2>2 DEF RunnerStep
<1> QED
  BY <1>2, <1>4, <1>6, <1>7, <1>8 DEF Serve

\* What device r calls and is answered is a step of the protocol.
LEMMA AnsweredIsNext ==
  ASSUME DeviceInv, NEW r \in Runners, NEW op, CallOf(activity[r], op),
         Answered(op, r)
  PROVE  Next /\ UNCHANGED <<inflight, restarts>>
BY CallSound, ServeIsNext DEF Answered

\* A call that fails leaves at most its request.
LEMMA UnansweredSound ==
  ASSUME DeviceInv, RowsTyped(task), NEW r \in Runners, NEW op,
         CallOf(activity[r], op), Unanswered(op, r)
  PROVE  /\ UNCHANGED <<vars, restarts>>
         /\ InflightSound(inflight', task')
<1>1. UNCHANGED <<vars, restarts>> /\ UNCHANGED task
  BY DEF Unanswered, vars
<1>2. InflightSound(inflight, task) /\ RequestSound(Request(op, r, activity[r]), task)
  BY CallSound DEF DeviceInv
<1>3. CASE inflight' = inflight
  BY <1>1, <1>2, <1>3
<1>4. CASE /\ Cardinality(inflight) < MaxInFlight
           /\ inflight' = inflight \cup {Request(op, r, activity[r])}
  BY <1>1, <1>2, <1>4, RequestLeft
<1> QED
  BY <1>1, <1>3, <1>4 DEF Unanswered

-----------------------------------------------------------------------------
(* Entries and activities *)

\* What is done to an entry leaves its attempts alone.
SameTries(old, new) ==
  new \in Entry /\ new.tries = old.tries /\ new.contacts = old.contacts

LEMMA EntriesKeepTries ==
  ASSUME NEW e \in Entry, NEW post \in BOOLEAN, NEW code, NEW phase \in EntryPhases
  PROVE  /\ SameTries(e, e)
         /\ SameTries(e, Aligned(e, post))
         /\ SameTries(e, NeedsHuman(e, code))
         /\ SameTries(e, Advanced(e, phase))
         /\ SameTries(e, [e EXCEPT !.phase = phase, !.waiting = FALSE])
<1>1. SameTries(e, e) /\ SameTries(e, NeedsHuman(e, code))
  <2>1. ASSUME NEW b \in BOOLEAN
        PROVE  SameTries(e, [e EXCEPT !.waiting = TRUE, !.blocking = b])
    BY DEF SameTries, Entry
  <2>2. (code \in BlockingCodes) \in BOOLEAN
    OBVIOUS
  <2>3. SameTries(e, NeedsHuman(e, code))
    BY <2>1, <2>2, Zenon DEF NeedsHuman
  <2> QED
    BY <2>3 DEF SameTries
<1>2. SameTries(e, Aligned(e, post))
  <2>1. (IF post = PostSubmit(e.phase) THEN e.phase
         ELSE IF post THEN "submit_intent" ELSE "claimed") \in EntryPhases
    BY DEF Entry, EntryPhases
  <2> QED
    BY <2>1 DEF SameTries, Aligned, Entry
<1>3. /\ SameTries(e, Advanced(e, phase))
      /\ SameTries(e, [e EXCEPT !.phase = phase, !.waiting = FALSE])
  BY DEF SameTries, Advanced, Entry
<1> QED
  BY <1>1, <1>2, <1>3

LEMMA NewEntryTyped ==
  ASSUME NEW r \in Runners, NEW g \in 1..MaxGeneration
  PROVE  /\ NewEntry(SessionOf(r, g)) \in Entry
         /\ NewEntry(SessionOf(r, g)).tries = 0
         /\ NewEntry(SessionOf(r, g)).contacts = 0
<1>1. SessionOf(r, g) \in Sessions
  BY ExtensionSessionsAssumption
<1> HIDE DEF SessionOf
<1> QED
  BY <1>1 DEF NewEntry, Entry, EntryPhases

\* Writing one entry of a journal.
Entered(jr, t, e) == [jr EXCEPT ![t] = e]

LEMMA EnteredSound ==
  ASSUME NEW jr \in Journal, JournalSound(jr), NEW t \in Tasks, NEW e,
         e = NoEntry \/ e \in Entry, e # NoEntry => e.contacts <= e.tries
  PROVE  /\ Entered(jr, t, e) \in Journal
         /\ JournalSound(Entered(jr, t, e))
         /\ Entered(jr, t, e)[t] = e
         /\ \A u \in Tasks \ {t} : Entered(jr, t, e)[u] = jr[u]
<1>1. /\ Entered(jr, t, e) \in Journal
      /\ Entered(jr, t, e)[t] = e
      /\ \A u \in Tasks \ {t} : Entered(jr, t, e)[u] = jr[u]
  BY DEF Entered, Journal
<1> QED
  BY <1>1 DEF JournalSound

LEMMA WriteBecomes ==
  ASSUME DevicesTyped, NEW r \in Runners, NEW t \in Tasks, NEW e, Write(r, t, e)
  PROVE  journal' = [journal EXCEPT ![r] = Entered(journal[r], t, e)]
BY DEF Write, Entered, DevicesTyped

LEMMA SameBecomes ==
  ASSUME DevicesTyped, NEW r \in Runners
  PROVE  /\ journal = [journal EXCEPT ![r] = journal[r]]
         /\ activity = [activity EXCEPT ![r] = activity[r]]
BY DEF DevicesTyped

\* What a device knows before a step holds of the rows after it.
LEMMA DeviceKnows ==
  ASSUME DeviceInv, RowsLater, NEW r \in Runners
  PROVE  /\ activity[r] \in Activity
         /\ journal[r] \in Journal
         /\ ActivitySound(activity[r], journal[r], task')
         /\ JournalSound(journal[r])
<1>1. /\ activity[r] \in Activity /\ journal[r] \in Journal
      /\ ActivitySound(activity[r], journal[r], task) /\ JournalSound(journal[r])
  BY DEF DeviceInv, DevicesTyped
<1> QED
  BY <1>1, SoundLater DEF RowsLater

\* The entry a device works with.
LEMMA OwnEntry ==
  ASSUME NEW a \in Activity, NEW jr \in Journal, NEW rows, ActivitySound(a, jr, rows),
         JournalSound(jr), a.step \in EntrySteps
  PROVE  /\ a.task \in Tasks
         /\ jr[a.task] \in Entry
         /\ jr[a.task].contacts <= jr[a.task].tries
<1>1. a.task \in Tasks
  BY DEF ActivitySound, EntrySteps, WorkSteps
<1> QED
  BY <1>1 DEF ActivitySound, Journal, JournalSound

\* The work goes on with the same task and lease.
SameWork(a, b) ==
  /\ b.mode = a.mode /\ b.task = a.task /\ b.generation = a.generation
  /\ b.todo = a.todo

LEMMA WorkGoesOn ==
  ASSUME NEW a \in Activity, NEW jr, NEW rows, ActivitySound(a, jr, rows),
         a.step \in WorkSteps, NEW b, b.step \in WorkSteps, SameWork(a, b),
         b.step = "fail" => b.code \in FailureCodes,
         NEW jr2, \A t \in Tasks \ {a.task} : jr2[t] = jr[t],
         jr[a.task] # NoEntry \/ b.step \in EntrySteps => jr2[a.task] # NoEntry
  PROVE  ActivitySound(b, jr2, rows)
<1>1. a.task \in Tasks /\ a.todo \subseteq Tasks
  BY DEF ActivitySound, Activity
<1>2. \A t \in a.todo : jr2[t] # NoEntry
  BY <1>1 DEF ActivitySound
<1>3. b.mode = "auto" => b.task \notin b.todo /\ \A t \in b.todo : jr2[t].tries < 2
  BY <1>1 DEF ActivitySound, SameWork
<1> QED
  BY <1>1, <1>2, <1>3 DEF ActivitySound, SameWork, WorkSteps, EntrySteps

\* What the worker turns to when its work has ended.
Done(a, stop) ==
  IF a.mode = "auto"
  THEN [Idle EXCEPT !.step = "recover", !.todo = a.todo, !.skipped = a.skipped]
  ELSE [Idle EXCEPT !.step = IF a.mode = "poll" /\ ~stop THEN "claim" ELSE "idle"]

LEMMA IdleTyped == Idle \in Activity /\ Idle.mode = "poll" /\ Idle.todo = {}
BY TimeAssumption DEF Idle, Activity, Steps, Stages

LEMMA DoneSound ==
  ASSUME NEW a \in Activity, NEW jr, NEW rows, ActivitySound(a, jr, rows),
         a.step \in WorkSteps \cup {"resume"}, NEW stop \in BOOLEAN,
         NEW jr2, \A t \in Tasks \ {a.task} : jr2[t] = jr[t]
  PROVE  Done(a, stop) \in Activity /\ ActivitySound(Done(a, stop), jr2, rows)
<1>1. CASE a.mode = "auto"
  <2>1. /\ Done(a, stop).step = "recover" /\ Done(a, stop).mode = "poll"
        /\ Done(a, stop).todo = a.todo
    BY <1>1 DEF Done, Idle
  <2>2. Done(a, stop) \in Activity
    BY <1>1, IdleTyped DEF Done, Activity, Steps
  <2>3. \A t \in a.todo : jr2[t] = jr[t] /\ jr[t] # NoEntry /\ jr[t].tries < 2
    BY <1>1 DEF ActivitySound, Activity
  <2> HIDE DEF Done
  <2> QED
    BY <2>1, <2>2, <2>3 DEF ActivitySound, WorkSteps, EntrySteps
<1>2. CASE a.mode # "auto"
  <2>1. /\ Done(a, stop).step \in {"claim", "idle"} /\ Done(a, stop).mode = "poll"
        /\ Done(a, stop).todo = {}
    BY <1>2 DEF Done, Idle
  <2>2. Done(a, stop) \in Activity
    BY <1>2, IdleTyped DEF Done, Activity, Steps
  <2> HIDE DEF Done
  <2> QED
    BY <2>1, <2>2 DEF ActivitySound, WorkSteps, EntrySteps
<1> QED
  BY <1>1, <1>2

LEMMA AfterBecomes ==
  ASSUME NEW r, NEW stop, After(r, stop)
  PROVE  activity' = [activity EXCEPT ![r] = Done(activity[r], stop)]
BY DEF After, Done

-----------------------------------------------------------------------------
(* The work on one task, step by step *)

LEMMA WorkUnwritten ==
  ASSUME DeviceInv, RowsLater, NEW r \in Runners, activity[r].step \in WorkSteps,
         NEW b \in Activity, b.step \in WorkSteps, SameWork(activity[r], b),
         b.step = "fail" => b.code \in FailureCodes,
         b.step \in EntrySteps => journal[r][activity[r].task] # NoEntry,
         activity' = [activity EXCEPT ![r] = b], UNCHANGED journal
  PROVE  DeviceStep(r)
<1>1. /\ activity[r] \in Activity /\ journal[r] \in Journal
      /\ ActivitySound(activity[r], journal[r], task') /\ JournalSound(journal[r])
  BY DeviceKnows
<1>2. ActivitySound(b, journal[r], task')
  BY <1>1, WorkGoesOn
<1>3. Becomes(r, b, journal[r])
  BY SameBecomes DEF DeviceInv, Becomes
<1> QED
  BY <1>1, <1>2, <1>3 DEF DeviceStep

LEMMA WorkWritten ==
  ASSUME DeviceInv, RowsLater, NEW r \in Runners, activity[r].step \in WorkSteps,
         NEW b \in Activity, b.step \in WorkSteps, SameWork(activity[r], b),
         b.step = "fail" => b.code \in FailureCodes,
         activity' = [activity EXCEPT ![r] = b],
         NEW e \in Entry, e.contacts <= e.tries, Write(r, activity[r].task, e)
  PROVE  DeviceStep(r)
<1>1. /\ activity[r] \in Activity /\ journal[r] \in Journal
      /\ ActivitySound(activity[r], journal[r], task') /\ JournalSound(journal[r])
  BY DeviceKnows
<1>2. activity[r].task \in Tasks /\ e # NoEntry
  BY <1>1, NoEntryAssumption DEF ActivitySound
<1> DEFINE jr == Entered(journal[r], activity[r].task, e)
<1>3. /\ jr \in Journal /\ JournalSound(jr)
      /\ jr[activity[r].task] = e
      /\ \A t \in Tasks \ {activity[r].task} : jr[t] = journal[r][t]
  BY <1>1, <1>2, EnteredSound
<1>4. Becomes(r, b, jr)
  BY <1>2, WriteBecomes DEF DeviceInv, Becomes
<1> HIDE DEF jr
<1>5. ActivitySound(b, jr, task')
  BY <1>1, <1>2, <1>3, WorkGoesOn
<1> QED
  BY <1>3, <1>4, <1>5 DEF DeviceStep

\* Device r goes on to the given step of its work.
Goes(a, step) == [a EXCEPT !.step = step]

LEMMA GoTurns ==
  ASSUME DeviceInv, NEW r \in Runners, NEW step \in Steps
  PROVE  /\ Goes(activity[r], step) \in Activity
         /\ Goes(activity[r], step).step = step
         /\ SameWork(activity[r], Goes(activity[r], step))
         /\ Go(r, step) => activity' = [activity EXCEPT ![r] = Goes(activity[r], step)]
BY DEF DeviceInv, DevicesTyped, Activity, Goes, SameWork, Go

\* Without a word to the journal.
LEMMA GoStep ==
  ASSUME DeviceInv, RowsLater, NEW r \in Runners,
         activity[r].step \in EntrySteps \cap WorkSteps,
         NEW step \in (Steps \cap EntrySteps \cap WorkSteps) \ {"fail"},
         Go(r, step), UNCHANGED journal
  PROVE  DeviceStep(r)
<1>1. /\ Goes(activity[r], step) \in Activity
      /\ Goes(activity[r], step).step = step
      /\ SameWork(activity[r], Goes(activity[r], step))
      /\ activity' = [activity EXCEPT ![r] = Goes(activity[r], step)]
  BY GoTurns
<1>2. journal[r][activity[r].task] # NoEntry
  BY DeviceKnows DEF ActivitySound
<1> QED
  BY <1>1, <1>2, WorkUnwritten

\* With a new word in its entry.
LEMMA GoWriteStep ==
  ASSUME DeviceInv, RowsLater, NEW r \in Runners, activity[r].step \in WorkSteps,
         NEW step \in (Steps \cap WorkSteps) \ {"fail"}, Go(r, step),
         NEW e \in Entry, e.contacts <= e.tries, Write(r, activity[r].task, e)
  PROVE  DeviceStep(r)
<1>1. /\ Goes(activity[r], step) \in Activity
      /\ Goes(activity[r], step).step = step
      /\ SameWork(activity[r], Goes(activity[r], step))
      /\ activity' = [activity EXCEPT ![r] = Goes(activity[r], step)]
  BY GoTurns
<1> QED
  BY <1>1, WorkWritten

\* An entry that keeps its attempts is written.
LEMMA GoKeepStep ==
  ASSUME DeviceInv, RowsLater, NEW r \in Runners,
         activity[r].step \in EntrySteps \cap WorkSteps,
         NEW step \in (Steps \cap WorkSteps) \ {"fail"}, Go(r, step),
         NEW e, SameTries(journal[r][activity[r].task], e),
         Write(r, activity[r].task, e)
  PROVE  DeviceStep(r)
<1>1. journal[r][activity[r].task].contacts <= journal[r][activity[r].task].tries
  BY DeviceKnows, OwnEntry
<1>2. e \in Entry /\ e.contacts <= e.tries
  BY <1>1 DEF SameTries
<1> QED
  BY <1>2, GoWriteStep

\* The activity of a device that gives its task up.
Broken(a, stage, code) ==
  [a EXCEPT !.step = "fail", !.stage = stage, !.code = code]

LEMMA BrokenTurns ==
  ASSUME NEW a \in Activity, NEW stage \in Stages, NEW code \in FailureCodes
  PROVE  /\ Broken(a, stage, code) \in Activity
         /\ Broken(a, stage, code).step = "fail"
         /\ Broken(a, stage, code).code = code
         /\ SameWork(a, Broken(a, stage, code))
<1>1. "fail" \in Steps
  BY DEF Steps
<1> QED
  BY <1>1 DEF Activity, Broken, SameWork

LEMMA StageTyped ==
  ASSUME NEW post
  PROVE  FailureStage(post) \in Stages
BY DEF FailureStage, Stages

LEMMA BreakStep ==
  ASSUME DeviceInv, RowsLater, NEW r \in Runners, activity[r].step \in WorkSteps,
         NEW code \in FailureCodes, Break(r, code)
  PROVE  DeviceStep(r)
<1> DEFINE t == activity[r].task
           e == journal[r][t]
           stage == FailureStage(e # NoEntry /\ AtOrAfterIntent(e))
           b == Broken(activity[r], stage, code)
<1>1. t \in Tasks /\ journal[r] \in Journal /\ JournalSound(journal[r])
  BY DeviceKnows DEF ActivitySound
<1>2. activity' = [activity EXCEPT ![r] = b]
  BY DEF Break, Broken
<1>3. b \in Activity /\ b.step = "fail" /\ b.code = code /\ SameWork(activity[r], b)
  <2>1. stage \in Stages /\ activity[r] \in Activity
    BY StageTyped, DeviceKnows
  <2> HIDE DEF stage
  <2> QED
    BY <2>1, BrokenTurns
<1> HIDE DEF b, stage
<1>4. CASE e = NoEntry
  <2>1. UNCHANGED journal
    BY <1>4 DEF Break
  <2> QED
    BY <1>2, <1>3, <2>1, WorkUnwritten DEF EntrySteps, WorkSteps
<1>5. CASE e # NoEntry
  <2>1. Write(r, t, NeedsHuman(e, code))
    BY <1>5 DEF Break
  <2>2. e \in Entry /\ e.contacts <= e.tries
    BY <1>1, <1>5 DEF Journal, JournalSound
  <2>3. SameTries(e, NeedsHuman(e, code))
    BY <2>2, EntriesKeepTries DEF EntryPhases
  <2>4. NeedsHuman(e, code) \in Entry
        /\ NeedsHuman(e, code).contacts <= NeedsHuman(e, code).tries
    BY <2>2, <2>3 DEF SameTries
  <2> HIDE DEF e, t
  <2>5. Write(r, activity[r].task, NeedsHuman(e, code))
    BY <2>1 DEF t
  <2> QED
    BY <1>2, <1>3, <2>4, <2>5, WorkWritten DEF WorkSteps
<1> QED
  BY <1>4, <1>5

LEMMA BeginStep ==
  ASSUME DeviceInv, RowsLater, NEW r \in Runners, Begin(r)
  PROVE  DeviceStep(r)
<1> DEFINE a == activity[r]
           t == a.task
           e == journal[r][t]
<1>1. /\ a \in Activity /\ a.step = "begin" /\ t \in Tasks
      /\ journal[r] \in Journal /\ JournalSound(journal[r])
      /\ a.generation \in 1..MaxGeneration
  <2>1. /\ a \in Activity /\ ActivitySound(a, journal[r], task')
        /\ journal[r] \in Journal /\ JournalSound(journal[r])
    BY DeviceKnows
  <2>2. a.step = "begin" /\ a.step \in WorkSteps
    BY DEF Begin, At, WorkSteps
  <2>3. a.generation \in 0..MaxGeneration /\ a.generation \in 1..task'[t].generation
    BY <2>1, <2>2 DEF ActivitySound, Activity
  <2>4. a.generation \in 1..MaxGeneration
    BY <2>3, TimeAssumption
  <2> QED
    BY <2>1, <2>2, <2>4 DEF ActivitySound
<1>2. a.step \in WorkSteps
  BY <1>1 DEF WorkSteps
<1>3. e # NoEntry => e \in Entry /\ e.contacts <= e.tries
  BY <1>1 DEF Journal, JournalSound
<1>4. {"prepare", "reattach"} \subseteq (Steps \cap WorkSteps) \ {"fail"}
  BY DEF Steps, WorkSteps
<1>5. CASE Break(r, UnknownCode)
  BY <1>2, <1>5, BreakStep, ExtensionCodesAssumption
<1>6. CASE /\ e # NoEntry
           /\ Write(r, t, [e EXCEPT !.phase = "submit_intent", !.waiting = FALSE])
           /\ Go(r, "reattach")
  <2>1. SameTries(e, [e EXCEPT !.phase = "submit_intent", !.waiting = FALSE])
    BY <1>3, <1>6, EntriesKeepTries DEF EntryPhases
  <2>2. PICK new \in Entry : new.contacts <= new.tries /\ Write(r, activity[r].task, new)
    BY <1>3, <1>6, <2>1 DEF SameTries
  <2> QED
    BY <1>2, <1>4, <1>6, <2>2, GoWriteStep
<1>7. CASE /\ e = NoEntry
           /\ Write(r, t, NewEntry(SessionOf(r, a.generation)))
           /\ Go(r, "prepare")
  <2>1. /\ NewEntry(SessionOf(r, a.generation)) \in Entry
        /\ NewEntry(SessionOf(r, a.generation)).contacts
             <= NewEntry(SessionOf(r, a.generation)).tries
    BY <1>1, NewEntryTyped
  <2>2. PICK new \in Entry : new.contacts <= new.tries /\ Write(r, activity[r].task, new)
    BY <1>7, <2>1
  <2> QED
    BY <1>2, <1>4, <1>7, <2>2, GoWriteStep
<1>8. CASE e # NoEntry /\ UNCHANGED journal /\ Go(r, "prepare")
  <2>1. /\ Goes(a, "prepare") \in Activity /\ Goes(a, "prepare").step = "prepare"
        /\ SameWork(a, Goes(a, "prepare"))
        /\ activity' = [activity EXCEPT ![r] = Goes(a, "prepare")]
    BY <1>4, <1>8, GoTurns
  <2> QED
    BY <1>2, <1>8, <2>1, WorkUnwritten DEF WorkSteps
<1> QED
  BY <1>5, <1>6, <1>7, <1>8 DEF Begin

LEMMA OpenFailsStep ==
  ASSUME DeviceInv, RowsLater, NEW r \in Runners, NEW code \in FailureCodes,
         OpenFails(r, code)
  PROVE  DeviceStep(r)
<1> DEFINE a == activity[r]
           b == Broken(a, "pre_submit", code)
           new == NewEntry(SessionOf(r, a.generation))
<1>1. /\ a \in Activity /\ a.step = "begin" /\ a.step \in WorkSteps
      /\ ActivitySound(a, journal[r], task')
  BY DeviceKnows DEF OpenFails, At, WorkSteps
<1>2. a.generation \in 1..MaxGeneration
  <2>1. a.generation \in 0..MaxGeneration /\ a.generation \in 1..task'[a.task].generation
    BY <1>1 DEF ActivitySound, Activity
  <2> QED
    BY <2>1, TimeAssumption
<1>3. /\ b \in Activity /\ b.step = "fail" /\ b.code = code /\ SameWork(a, b)
      /\ activity' = [activity EXCEPT ![r] = b]
  <2>1. "pre_submit" \in Stages
    BY DEF Stages
  <2>2. activity' = [activity EXCEPT ![r] = b]
    BY DEF OpenFails, Broken
  <2> QED
    BY <1>1, <2>1, <2>2, BrokenTurns
<1> HIDE DEF b
<1>4. CASE UNCHANGED journal
  BY <1>1, <1>3, <1>4, WorkUnwritten DEF WorkSteps, EntrySteps
<1>5. CASE Write(r, a.task, NeedsHuman(new, code))
  <2>1. new \in Entry /\ new.tries = 0 /\ new.contacts = 0
    BY <1>2, NewEntryTyped
  <2> HIDE DEF new
  <2>2. SameTries(new, NeedsHuman(new, code))
    BY <2>1, EntriesKeepTries DEF EntryPhases
  <2>3. /\ NeedsHuman(new, code) \in Entry
        /\ NeedsHuman(new, code).contacts <= NeedsHuman(new, code).tries
    BY <2>1, <2>2 DEF SameTries
  <2> QED
    BY <1>1, <1>3, <1>5, <2>3, WorkWritten DEF WorkSteps
<1> QED
  BY <1>4, <1>5 DEF OpenFails

\* The steps that only advance the entry, or nothing, with a device's words.
PageWork(r) ==
  \/ Prepare(r) \/ MarkIntent(r) \/ SubmitOnceInPage(r) \/ SeePrompt(r)
  \/ Reattach(r) \/ Collect(r)

LEMMA PageWorkStep ==
  ASSUME DeviceInv, RowsLater, NEW r \in Runners, PageWork(r)
  PROVE  DeviceStep(r)
<1> DEFINE t == activity[r].task
           e == journal[r][t]
<1>1. /\ {"prepare", "mark", "ask", "page", "reattach", "collect", "intent",
           "confirm", "complete"} \subseteq EntrySteps \cap WorkSteps
      /\ {"mark", "intent", "page", "confirm", "collect", "complete"}
           \subseteq (Steps \cap EntrySteps \cap WorkSteps) \ {"fail"}
      /\ {"prepared", "submit_intent", "submitted", "collected"} \subseteq EntryPhases
  BY DEF EntrySteps, WorkSteps, Steps, EntryPhases
<1>2. activity[r].step \in EntrySteps \cap WorkSteps
  BY <1>1 DEF PageWork, Prepare, MarkIntent, SubmitOnceInPage, SeePrompt, Reattach,
              Collect, At
<1>3. e \in Entry
  BY <1>2, DeviceKnows, OwnEntry
<1>4. ASSUME NEW step \in {"mark", "intent", "collect", "complete"}, Go(r, step),
             NEW phase \in {"prepared", "submit_intent", "submitted", "collected"},
             Write(r, t, Advanced(e, phase))
      PROVE  DeviceStep(r)
  <2>1. SameTries(e, Advanced(e, phase))
    BY <1>1, <1>3, EntriesKeepTries
  <2> QED
    BY <1>1, <1>2, <1>4, <2>1, GoKeepStep
<1>5. ASSUME NEW step \in {"page", "confirm"}, Go(r, step), UNCHANGED journal
      PROVE  DeviceStep(r)
  BY <1>1, <1>2, <1>5, GoStep
<1>6. CASE Prepare(r)
  BY <1>4, <1>6 DEF Prepare
<1>7. CASE MarkIntent(r)
  BY <1>4, <1>7 DEF MarkIntent
<1>8. CASE SubmitOnceInPage(r)
  BY <1>5, <1>8 DEF SubmitOnceInPage
<1>9. CASE SeePrompt(r)
  BY <1>5, <1>9 DEF SeePrompt
<1>10. CASE Reattach(r)
  BY <1>4, <1>5, <1>10 DEF Reattach
<1>11. CASE Collect(r)
  BY <1>4, <1>11 DEF Collect
<1> QED
  BY <1>6, <1>7, <1>8, <1>9, <1>10, <1>11 DEF PageWork

\* The calls that are answered, but for the claim and the resume.
LEMMA RecordIntentStep ==
  ASSUME DeviceInv, RowsLater, NEW r \in Runners, RecordIntent(r)
  PROVE  DeviceStep(r)
BY GoStep DEF RecordIntent, At, EntrySteps, WorkSteps, Steps

LEMMA ConfirmStep ==
  ASSUME DeviceInv, RowsLater, NEW r \in Runners, Confirm(r)
  PROVE  DeviceStep(r)
<1>1. activity[r].step \in EntrySteps \cap WorkSteps
  BY DEF Confirm, At, EntrySteps, WorkSteps
<1>2. "collect" \in (Steps \cap WorkSteps) \ {"fail"} /\ "submitted" \in EntryPhases
  BY DEF Steps, WorkSteps, EntryPhases
<1>3. SameTries(journal[r][activity[r].task],
                Advanced(journal[r][activity[r].task], "submitted"))
  BY <1>1, <1>2, DeviceKnows, OwnEntry, EntriesKeepTries
<1> QED
  BY <1>1, <1>2, <1>3, GoKeepStep DEF Confirm

\* The work has ended, with the entry removed, remembered or left alone.
LEMMA AfterStep ==
  ASSUME DeviceInv, RowsLater, NEW r \in Runners,
         activity[r].step \in WorkSteps \cup {"resume"},
         NEW stop \in BOOLEAN, After(r, stop),
         NEW e, e = NoEntry \/ SameTries(journal[r][activity[r].task], e),
         e # NoEntry => journal[r][activity[r].task] \in Entry,
         Write(r, activity[r].task, e) \/ UNCHANGED journal
  PROVE  DeviceStep(r)
<1> DEFINE a == activity[r]
           b == Done(a, stop)
<1>1. /\ a \in Activity /\ journal[r] \in Journal
      /\ ActivitySound(a, journal[r], task') /\ JournalSound(journal[r])
  BY DeviceKnows
<1>2. a.task \in Tasks
  BY <1>1 DEF ActivitySound
<1>3. activity' = [activity EXCEPT ![r] = b]
  BY AfterBecomes
<1>4. ASSUME NEW jr, \A t \in Tasks \ {a.task} : jr[t] = journal[r][t]
      PROVE  b \in Activity /\ ActivitySound(b, jr, task')
  BY <1>1, <1>4, DoneSound
<1> HIDE DEF b
<1>5. CASE UNCHANGED journal
  <2>1. b \in Activity /\ ActivitySound(b, journal[r], task')
    BY <1>4
  <2>2. Becomes(r, b, journal[r])
    BY <1>3, <1>5, SameBecomes DEF DeviceInv, Becomes
  <2> QED
    BY <1>1, <2>1, <2>2 DEF DeviceStep
<1>6. CASE Write(r, a.task, e)
  <2> DEFINE jr == Entered(journal[r], a.task, e)
  <2>1. e # NoEntry => e \in Entry /\ e.contacts <= e.tries
    <3> SUFFICES ASSUME e # NoEntry
                 PROVE  e \in Entry /\ e.contacts <= e.tries
      OBVIOUS
    <3>1. journal[r][a.task] # NoEntry
      BY NoEntryAssumption
    <3> QED
      BY <1>1, <1>2, <3>1 DEF JournalSound, SameTries
  <2>2. /\ jr \in Journal /\ JournalSound(jr)
        /\ \A t \in Tasks \ {a.task} : jr[t] = journal[r][t]
    BY <1>1, <1>2, <2>1, EnteredSound
  <2>3. Becomes(r, b, jr)
    BY <1>2, <1>3, <1>6, WriteBecomes DEF DeviceInv, Becomes
  <2> HIDE DEF jr
  <2>4. b \in Activity /\ ActivitySound(b, jr, task')
    BY <1>4, <2>2
  <2> QED
    BY <2>2, <2>3, <2>4 DEF DeviceStep
<1> QED
  BY <1>5, <1>6

-----------------------------------------------------------------------------
(* Claims and resumes *)

\* What a device that is answered holds.
Leases(r, t) ==
  /\ task'[t].status = "claimed" /\ task'[t].auto # "queued"
  /\ task'[t].claimedBy = r
  /\ task'[t].generation = task[t].generation + 1
  /\ task'[t].generation \in 1..MaxGeneration
  /\ task'[t].intent = task[t].intent

LEMMA LeasedRow ==
  ASSUME NEW row \in TaskRow, NEW c
  PROVE  /\ Leased(row, c).status = "claimed" /\ Leased(row, c).auto # "queued"
         /\ Leased(row, c).claimedBy = c
         /\ Leased(row, c).generation = row.generation + 1
         /\ Leased(row, c).intent = row.intent
BY DEF Leased, TaskRow, AutoTo

LEMMA ClaimGives ==
  ASSUME TypeOK, NEW r \in Runners, NEW t \in Tasks,
         NEW parked \in SUBSET (ExpiredRunnerClaims \cup Exhausted),
         Claim(r, t, parked), refused' = "none"
  PROVE  Leases(r, t) /\ task[t].auto = "queued"
<1>1. task[t] \in TaskRow /\ task[t].generation \in Nat
  BY DEF TypeOK, TaskRow
<1>2. task[t].auto = "queued" /\ task[t].status = "available" /\ t \notin Exhausted
  BY DEF Claim, Queued
<1>3. t \notin parked
  BY <1>2 DEF ExpiredRunnerClaims
<1> DEFINE rows == ParkedCandidates(parked)
           row == [Leased(rows[t], r) EXCEPT !.attempts = @ + 1]
<1>4. rows[t] = task[t]
  BY <1>3 DEF ParkedCandidates
<1>5. /\ row.status = "claimed" /\ row.auto # "queued" /\ row.claimedBy = r
      /\ row.generation = task[t].generation + 1
      /\ row.intent = task[t].intent
  BY <1>1, <1>4, LeasedRow DEF Leased
<1>6. task[t].generation < MaxGeneration
  BY DEF Claim
<1>7. \E b : Commit("claim", b, [rows EXCEPT ![t] = row])
  BY DEF Claim
<1>8. t \in DOMAIN rows
  BY DEF ParkedCandidates
<1> HIDE DEF row, rows
<1>9. task'[t] = row
  <2>1. task' = [rows EXCEPT ![t] = row]
    BY <1>7 DEF Commit, CommitFrom
  <2> QED
    BY <2>1, <1>8
<1> QED
  BY <1>1, <1>2, <1>5, <1>6, <1>9, TimeAssumption DEF Leases

LEMMA ResumeGives ==
  ASSUME TypeOK, NEW r \in Runners, NEW t \in Tasks, Resume(r, t), refused' = "none"
  PROVE  Leases(r, t) /\ task'[t].confirmed = task[t].confirmed
<1>1. task[t] \in TaskRow /\ task[t].generation \in Nat /\ task \in [Tasks -> TaskRow]
  BY DEF TypeOK, TaskRow
<1> DEFINE row == [Leased(task[t], r) EXCEPT
                     !.needsHuman = IF task[t].intent THEN @ ELSE NoCode]
<1>2. /\ row.status = "claimed" /\ row.auto # "queued" /\ row.claimedBy = r
      /\ row.generation = task[t].generation + 1
      /\ row.intent = task[t].intent /\ row.confirmed = task[t].confirmed
  BY <1>1, LeasedRow DEF Leased, TaskRow
<1>3. task[t].generation < MaxGeneration
  BY DEF Resume
<1>4. \E b : Commit("resume", b, [task EXCEPT ![t] = row])
  BY DEF Resume
<1> HIDE DEF row
<1>5. task'[t] = row
  <2>1. task' = [task EXCEPT ![t] = row]
    BY <1>4 DEF Commit, CommitFrom
  <2> QED
    BY <2>1, <1>1
<1> QED
  BY <1>1, <1>2, <1>3, <1>5, TimeAssumption DEF Leases

\* The activity of a device that works under a new lease.
Worked(a, t, step, g, assist, confirmed) ==
  [a EXCEPT !.step = step, !.task = t, !.generation = g, !.assist = assist,
            !.confirmed = confirmed]

LEMMA WorkedTurns ==
  ASSUME NEW a \in Activity, NEW t \in Tasks, NEW step \in {"begin", "give_up"},
         NEW g \in 1..MaxGeneration, NEW assist \in BOOLEAN, NEW confirmed \in BOOLEAN
  PROVE  LET b == Worked(a, t, step, g, assist, confirmed)
         IN  /\ b \in Activity /\ b.step = step /\ b.mode = a.mode /\ b.task = t
             /\ b.generation = g /\ b.todo = a.todo
<1>1. step \in Steps /\ g \in 0..MaxGeneration
  BY TimeAssumption DEF Steps
<1> QED
  BY <1>1 DEF Activity, Worked

LEMMA ClaimNextStep ==
  ASSUME TypeOK, TypeOK', DeviceInv, RowsLater, NEW r \in Runners, ClaimNext(r)
  PROVE  DeviceStep(r)
<1>1. /\ activity[r] \in Activity /\ activity[r].step = "claim"
      /\ ActivitySound(activity[r], journal[r], task')
      /\ journal[r] \in Journal /\ JournalSound(journal[r])
  BY DeviceKnows DEF ClaimNext, At
<1>2. PICK t \in Tasks, parked \in SUBSET (ExpiredRunnerClaims \cup Exhausted) :
        /\ Claim(r, t, parked)
        /\ refused' = "none"
        /\ WorkOn(r, t, "begin", FALSE, FALSE)
  BY DEF ClaimNext
<1> DEFINE g == task'[t].generation
           b == Worked(activity[r], t, "begin", g, FALSE, FALSE)
<1>3. g \in 1..MaxGeneration
  BY <1>2, ClaimGives DEF Leases
<1>4. /\ b \in Activity /\ b.step = "begin" /\ b.mode = activity[r].mode /\ b.task = t
      /\ b.generation = g /\ b.todo = activity[r].todo
  <2>1. g \in 0..MaxGeneration /\ "begin" \in Steps
    BY <1>3, TimeAssumption DEF Steps
  <2> HIDE DEF g
  <2> QED
    BY <1>1, <2>1 DEF Activity, Worked
<1>5. activity' = [activity EXCEPT ![r] = b] /\ UNCHANGED journal
  BY <1>2 DEF WorkOn, Worked, ClaimNext
<1> HIDE DEF b
<1>6. ActivitySound(b, journal[r], task')
  BY <1>1, <1>3, <1>4 DEF ActivitySound, WorkSteps, EntrySteps
<1>7. Becomes(r, b, journal[r])
  BY <1>5, SameBecomes DEF DeviceInv, Becomes
<1> QED
  BY <1>1, <1>4, <1>6, <1>7 DEF DeviceStep

LEMMA ResumedEntryKeeps ==
  ASSUME NEW e \in Entry, NEW t
  PROVE  SameTries(e, ResumedEntry(e, t))
<1>1. {"claimed", "submitted", "submit_intent"} \subseteq EntryPhases
  BY DEF EntryPhases
<1>2. \A phase \in EntryPhases : SameTries(e, Advanced(e, phase))
  BY EntriesKeepTries
<1>3. SameTries(e, e) /\ SameTries(e, [e EXCEPT !.phase = "claimed", !.waiting = FALSE])
  BY <1>1, EntriesKeepTries
<1> QED
  BY <1>1, <1>2, <1>3 DEF ResumedEntry

\* What an answered resume gives its device.
LEMMA ResumeTaskGives ==
  ASSUME TypeOK, DeviceInv, NEW r \in Runners, ResumeTask(r)
  PROVE  /\ activity[r].task \in Tasks
         /\ Resume(r, activity[r].task)
         /\ Leases(r, activity[r].task)
         /\ task'[activity[r].task].confirmed = task[activity[r].task].confirmed
<1>1. activity[r].step = "resume" /\ Answered("resume", r)
  BY DEF ResumeTask, At
<1>2. activity[r].task \in Tasks
  BY <1>1 DEF DeviceInv, ActivitySound
<1>3. Resume(r, activity[r].task) /\ refused' = "none"
  BY <1>1 DEF Answered, Serve, Request
<1> QED
  BY <1>2, <1>3, ResumeGives

LEMMA ResumeTaskStep ==
  ASSUME TypeOK, DeviceInv, RowsLater, NEW r \in Runners, ResumeTask(r)
  PROVE  DeviceStep(r)
<1> DEFINE a == activity[r]
           t == a.task
           e == journal[r][t]
           g == task'[t].generation
<1>1. /\ a \in Activity /\ a.step = "resume"
      /\ ActivitySound(a, journal[r], task')
      /\ journal[r] \in Journal /\ JournalSound(journal[r])
  BY DeviceKnows DEF ResumeTask, At
<1>2. t \in Tasks /\ e \in Entry /\ e.contacts <= e.tries
  BY <1>1, OwnEntry DEF EntrySteps
<1>3. g \in 1..MaxGeneration
  BY ResumeTaskGives DEF Leases
<1>4. task[t].intent \in BOOLEAN /\ task[t].confirmed \in BOOLEAN
  BY <1>2 DEF TypeOK, TaskRow
<1>5. ASSUME NEW step \in {"begin", "give_up"},
             WorkOn(r, t, step, task[t].intent, task[t].confirmed),
             NEW jr \in Journal, JournalSound(jr), jr[t] # NoEntry,
             \A u \in Tasks \ {t} : jr[u] = journal[r][u],
             journal' = [journal EXCEPT ![r] = jr]
      PROVE  DeviceStep(r)
  <2> DEFINE b == Worked(a, t, step, g, task[t].intent, task[t].confirmed)
  <2>1. /\ b \in Activity /\ b.step = step /\ b.mode = a.mode /\ b.task = t
        /\ b.generation = g /\ b.todo = a.todo
    BY <1>1, <1>2, <1>3, <1>4, WorkedTurns
  <2>2. activity' = [activity EXCEPT ![r] = b]
    BY <1>5 DEF WorkOn, Worked
  <2> HIDE DEF b
  <2>3. \A u \in a.todo : jr[u] # NoEntry
    BY <1>1, <1>5 DEF ActivitySound, Activity
  <2>4. a.mode = "auto" => t \notin a.todo /\ \A u \in a.todo : jr[u].tries < 2
    BY <1>1, <1>5 DEF ActivitySound, Activity
  <2>5. ActivitySound(b, jr, task')
    BY <1>2, <1>3, <1>5, <2>1, <2>3, <2>4 DEF ActivitySound, WorkSteps, EntrySteps
  <2>6. Becomes(r, b, jr)
    BY <1>5, <2>2 DEF Becomes
  <2> QED
    BY <1>5, <2>1, <2>5, <2>6 DEF DeviceStep
<1>6. CASE /\ Write(r, t, ResumedEntry(e, t))
           /\ WorkOn(r, t, "begin", task[t].intent, task[t].confirmed)
  <2> DEFINE new == ResumedEntry(e, t)
             jr == Entered(journal[r], t, new)
  <2>1. new \in Entry /\ new.contacts <= new.tries
    BY <1>2, ResumedEntryKeeps DEF SameTries
  <2>2. new # NoEntry
    BY <2>1, NoEntryAssumption
  <2>3. journal' = [journal EXCEPT ![r] = jr]
    BY <1>2, <1>6, WriteBecomes DEF DeviceInv
  <2> HIDE DEF new
  <2>4. /\ jr \in Journal /\ JournalSound(jr) /\ jr[t] = new
        /\ \A u \in Tasks \ {t} : jr[u] = journal[r][u]
    BY <1>1, <1>2, <2>1, EnteredSound
  <2> HIDE DEF jr
  <2> QED
    BY <1>5, <1>6, <2>2, <2>3, <2>4
<1>7. CASE /\ UNCHANGED journal
           /\ WorkOn(r, t, "give_up", task[t].intent, task[t].confirmed)
  <2>1. journal' = [journal EXCEPT ![r] = journal[r]]
    BY <1>7, SameBecomes DEF DeviceInv
  <2>2. e # NoEntry
    BY <1>2, NoEntryAssumption
  <2> QED
    BY <1>1, <1>5, <1>7, <2>1, <2>2
<1> QED
  BY <1>6, <1>7 DEF ResumeTask

-----------------------------------------------------------------------------
(* How the work ends *)

LEMMA RememberStep ==
  ASSUME DeviceInv, RowsLater, NEW r \in Runners,
         activity[r].step \in {"resume", "give_up"},
         After(r, FALSE), Remember(r, activity[r].task)
  PROVE  DeviceStep(r)
<1> DEFINE t == activity[r].task
           e == journal[r][t]
<1>1. e \in Entry /\ activity[r].step \in WorkSteps \cup {"resume"}
  BY DeviceKnows, OwnEntry DEF EntrySteps, WorkSteps
<1>2. SameTries(e, NeedsHuman(e, UnknownCode))
  BY <1>1, EntriesKeepTries DEF EntryPhases
<1>3. Write(r, t, NeedsHuman(e, UnknownCode)) \/ UNCHANGED journal
  BY DEF Remember
<1>4. FALSE \in BOOLEAN
  OBVIOUS
<1> QED
  BY <1>1, <1>2, <1>3, <1>4, AfterStep

LEMMA CompleteTaskStep ==
  ASSUME DeviceInv, RowsLater, NEW r \in Runners, CompleteTask(r)
  PROVE  DeviceStep(r)
<1>1. activity[r].step \in WorkSteps /\ FALSE \in BOOLEAN
  BY DEF CompleteTask, At, WorkSteps
<1>2. Write(r, activity[r].task, NoEntry) /\ After(r, FALSE)
  BY DEF CompleteTask, Remove
<1> QED
  BY <1>1, <1>2, AfterStep

LEMMA FailStep ==
  ASSUME DeviceInv, RowsLater, NEW r \in Runners, Fail(r) \/ FailFails(r)
  PROVE  DeviceStep(r)
<1>1. activity[r].step \in WorkSteps
  BY DEF Fail, FailFails, At, WorkSteps
<1>2. Write(r, activity[r].task, NoEntry) \/ UNCHANGED journal
  BY DEF Fail, FailFails, Remove
<1>3. CASE Fail(r)
  <2> DEFINE stop == activity[r].code \in BlockingCodes
  <2>1. stop \in BOOLEAN
    OBVIOUS
  <2>2. After(r, stop)
    BY <1>3 DEF Fail
  <2> HIDE DEF stop
  <2> QED
    BY <1>1, <1>2, <2>1, <2>2, AfterStep
<1>4. CASE FailFails(r)
  <2> DEFINE stop == TRUE
  <2>1. stop \in BOOLEAN
    OBVIOUS
  <2>2. After(r, stop)
    BY <1>4 DEF FailFails
  <2> HIDE DEF stop
  <2> QED
    BY <1>1, <1>2, <2>1, <2>2, AfterStep
<1> QED
  BY <1>3, <1>4

-----------------------------------------------------------------------------
(* The pass *)

LEMMA PassTurn ==
  ASSUME DeviceInv, NEW r \in Runners, NEW b \in Activity, NEW jr \in Journal,
         b.step \in {"idle", "reconcile", "recover", "claim"}, b.mode # "auto",
         JournalSound(jr), \A t \in b.todo : jr[t] # NoEntry,
         b.step = "recover" => \A t \in b.todo : jr[t].tries < 2,
         activity' = [activity EXCEPT ![r] = b],
         journal' = [journal EXCEPT ![r] = jr]
  PROVE  DeviceStep(r)
<1>1. ActivitySound(b, jr, task')
  BY DEF ActivitySound, WorkSteps, EntrySteps
<1> QED
  BY <1>1 DEF DeviceStep, Becomes

\* The beginnings and ends of a pass, which leave the journal alone.
PassEdge(r) ==
  StartPoll(r) \/ ListDue(r) \/ StartPolling(r) \/ EndPoll(r) \/ Crash(r)

LEMMA PassEdgeStep ==
  ASSUME DeviceInv, RowsLater, NEW r \in Runners, PassEdge(r)
  PROVE  DeviceStep(r)
<1>1. /\ activity[r] \in Activity /\ journal[r] \in Journal
      /\ ActivitySound(activity[r], journal[r], task') /\ JournalSound(journal[r])
  BY DeviceKnows
<1>2. journal' = [journal EXCEPT ![r] = journal[r]]
  BY SameBecomes DEF DeviceInv, PassEdge, StartPoll, ListDue, StartPolling, EndPoll,
                     Crash
<1>3. ASSUME NEW step \in {"idle", "claim"},
             activity' = [activity EXCEPT ![r] = [Idle EXCEPT !.step = step]]
      PROVE  DeviceStep(r)
  <2> DEFINE b == [Idle EXCEPT !.step = step]
  <2>1. b \in Activity /\ b.step = step /\ b.mode = "poll" /\ b.todo = {}
    BY IdleTyped DEF Activity, Steps
  <2> HIDE DEF b
  <2>2. activity' = [activity EXCEPT ![r] = b]
    BY <1>3 DEF b
  <2> QED
    BY <1>1, <1>2, <2>1, <2>2, PassTurn
<1>4. CASE EndPoll(r) \/ Crash(r)
  <2>1. Idle \in Activity /\ Idle.step = "idle" /\ Idle.mode = "poll" /\ Idle.todo = {}
    BY IdleTyped DEF Idle
  <2>2. activity' = [activity EXCEPT ![r] = Idle]
    BY <1>4 DEF EndPoll, Crash
  <2> QED
    BY <1>1, <1>2, <2>1, <2>2, PassTurn
<1>5. CASE StartPolling(r)
  BY <1>3, <1>5 DEF StartPolling
<1>6. CASE StartPoll(r)
  <2> DEFINE b == [Idle EXCEPT !.step = "reconcile", !.todo = Journaled(r)]
  <2>1. /\ b \in Activity /\ b.step = "reconcile" /\ b.mode = "poll"
        /\ \A t \in b.todo : journal[r][t] # NoEntry
    BY IdleTyped DEF Activity, Steps, Journaled
  <2>2. activity' = [activity EXCEPT ![r] = b]
    BY <1>6 DEF StartPoll
  <2> HIDE DEF b
  <2> QED
    BY <1>1, <1>2, <2>1, <2>2, PassTurn
<1>7. CASE ListDue(r)
  <2>1. PICK due \in SUBSET (Recoverable(r) \ activity[r].skipped) :
          activity' = [activity EXCEPT ![r].step = "recover", ![r].todo = due]
    BY <1>7 DEF ListDue
  <2> DEFINE b == [activity[r] EXCEPT !.step = "recover", !.todo = due]
  <2>2. due \subseteq Tasks
        /\ \A t \in due : journal[r][t] # NoEntry /\ journal[r][t].tries < 2
    BY DEF Recoverable, Journaled
  <2>3. activity[r].mode # "auto"
    BY <1>1, <1>7 DEF ListDue, At, ActivitySound, WorkSteps
  <2>4. /\ b \in Activity /\ b.step = "recover" /\ b.mode # "auto" /\ b.todo = due
        /\ activity' = [activity EXCEPT ![r] = b]
    BY <1>1, <2>1, <2>2, <2>3 DEF Activity, Steps, DeviceInv, DevicesTyped
  <2> HIDE DEF b
  <2> QED
    BY <1>1, <1>2, <2>2, <2>4, PassTurn
<1> QED
  BY <1>4, <1>5, <1>6, <1>7 DEF PassEdge

\* What a reconciliation makes of the activity.
Passed(a, t, skip) ==
  [a EXCEPT !.todo = a.todo \ {t},
            !.skipped = IF skip THEN a.skipped \cup {t} ELSE a.skipped]

LEMMA ReconciledTurns ==
  ASSUME DeviceInv, NEW r \in Runners, NEW t \in Tasks, NEW skip,
         Reconciled(r, t, skip), At(r, "reconcile")
  PROVE  LET b == Passed(activity[r], t, skip)
         IN  /\ b \in Activity /\ b.step = "reconcile" /\ b.mode = activity[r].mode
             /\ b.todo = activity[r].todo \ {t}
             /\ activity' = [activity EXCEPT ![r] = b]
<1>1. activity \in [Runners -> Activity] /\ activity[r] \in Activity
  BY DEF DeviceInv, DevicesTyped
<1>2. activity' = [activity EXCEPT ![r] = Passed(activity[r], t, skip)]
  BY <1>1 DEF Reconciled, Passed, Activity
<1>3. (IF skip THEN activity[r].skipped \cup {t} ELSE activity[r].skipped)
        \in SUBSET Tasks
  BY <1>1 DEF Activity
<1>4. activity[r].todo \ {t} \in SUBSET Tasks
  BY <1>1 DEF Activity
<1>5. /\ Passed(activity[r], t, skip) \in Activity
      /\ Passed(activity[r], t, skip).step = "reconcile"
      /\ Passed(activity[r], t, skip).mode = activity[r].mode
      /\ Passed(activity[r], t, skip).todo = activity[r].todo \ {t}
  BY <1>1, <1>3, <1>4 DEF Passed, Activity, At
<1> QED
  BY <1>2, <1>5

LEMMA ReconcileStep ==
  ASSUME DeviceInv, RowsLater, NEW r \in Runners, NEW t \in Tasks,
         Reconcile(r, t) \/ ReconcileFails(r, t)
  PROVE  DeviceStep(r)
<1> DEFINE a == activity[r]
           e == journal[r][t]
<1>1. /\ a \in Activity /\ journal[r] \in Journal
      /\ ActivitySound(a, journal[r], task') /\ JournalSound(journal[r])
  BY DeviceKnows
<1>2. a.step = "reconcile" /\ t \in a.todo /\ At(r, "reconcile")
  BY DEF Reconcile, ReconcileFails, At
<1>3. a.mode # "auto" /\ e \in Entry /\ e.contacts <= e.tries
  BY <1>1, <1>2 DEF ActivitySound, WorkSteps, Journal, JournalSound
<1>4. PICK b \in Activity :
        /\ b.step = "reconcile" /\ b.mode = a.mode /\ b.todo = a.todo \ {t}
        /\ activity' = [activity EXCEPT ![r] = b]
  <2>1. ASSUME NEW skip, Reconciled(r, t, skip)
        PROVE  \E b \in Activity :
                 /\ b.step = "reconcile" /\ b.mode = a.mode /\ b.todo = a.todo \ {t}
                 /\ activity' = [activity EXCEPT ![r] = b]
    BY <1>2, <2>1, ReconciledTurns
  <2>2. CASE Reconcile(r, t)
    <3> DEFINE skip == Skips(r, t)
    <3>1. Reconciled(r, t, skip)
      BY <2>2 DEF Reconcile
    <3> HIDE DEF skip
    <3> QED
      BY <2>1, <3>1
  <2>3. CASE ReconcileFails(r, t)
    <3> DEFINE skip == TRUE
    <3>1. Reconciled(r, t, skip)
      BY <2>3 DEF ReconcileFails
    <3> HIDE DEF skip
    <3> QED
      BY <2>1, <3>1
  <2> QED
    BY <2>2, <2>3
<1>5. CASE UNCHANGED journal
  <2>1. journal' = [journal EXCEPT ![r] = journal[r]]
    BY <1>5, SameBecomes DEF DeviceInv
  <2>2. \A u \in b.todo : journal[r][u] # NoEntry
    BY <1>1, <1>4 DEF ActivitySound
  <2> QED
    BY <1>1, <1>3, <1>4, <2>1, <2>2, PassTurn
<1>6. ASSUME NEW new, new = NoEntry \/ SameTries(e, new), Write(r, t, new)
      PROVE  DeviceStep(r)
  <2> DEFINE jr == Entered(journal[r], t, new)
  <2>1. new = NoEntry \/ new \in Entry
    BY <1>6 DEF SameTries
  <2>2. new # NoEntry => new.contacts <= new.tries
    BY <1>3, <1>6 DEF SameTries
  <2>3. /\ jr \in Journal /\ JournalSound(jr)
        /\ \A u \in Tasks \ {t} : jr[u] = journal[r][u]
    BY <1>1, <2>1, <2>2, EnteredSound
  <2>4. journal' = [journal EXCEPT ![r] = jr]
    BY <1>6, WriteBecomes DEF DeviceInv
  <2> HIDE DEF jr
  <2>5. \A u \in b.todo : jr[u] # NoEntry
    BY <1>1, <1>4, <2>3 DEF ActivitySound, Activity
  <2> QED
    BY <1>3, <1>4, <2>3, <2>4, <2>5, PassTurn
<1>7. CASE Write(r, t, NoEntry)
  BY <1>6, <1>7
<1>8. CASE Write(r, t, Aligned(e, Answer(r, t) = "resumable_post"))
  <2> DEFINE post == Answer(r, t) = "resumable_post"
  <2>1. post \in BOOLEAN
    OBVIOUS
  <2>2. Write(r, t, Aligned(e, post))
    BY <1>8
  <2> HIDE DEF post
  <2>3. SameTries(e, Aligned(e, post))
    BY <1>3, <2>1, EntriesKeepTries DEF EntryPhases
  <2> QED
    BY <1>6, <2>2, <2>3
<1> QED
  BY <1>5, <1>7, <1>8 DEF Reconcile, ReconcileFails, Remove

\* Going for the portal's lease of a waiting entry.
Resuming(a, mode, t, todo) ==
  [a EXCEPT !.step = "resume", !.mode = mode, !.task = t, !.todo = todo]

LEMMA RecoverStep ==
  ASSUME DeviceInv, RowsLater, NEW r \in Runners, NEW t \in Tasks, Recover(r, t)
  PROVE  DeviceStep(r)
<1> DEFINE a == activity[r]
           e == journal[r][t]
           new == [e EXCEPT !.tries = @ + 1, !.contacts = @ + 1]
           jr == Entered(journal[r], t, new)
           b == Resuming(a, "auto", t, a.todo \ {t})
<1>1. /\ a \in Activity /\ journal[r] \in Journal
      /\ ActivitySound(a, journal[r], task') /\ JournalSound(journal[r])
  BY DeviceKnows
<1>2. a.step = "recover" /\ t \in a.todo
  BY DEF Recover, At
<1>3. e \in Entry /\ e.contacts <= e.tries /\ e.tries < 2
  BY <1>1, <1>2 DEF ActivitySound, Journal, JournalSound
<1>4. new \in Entry /\ new.contacts <= new.tries
  <2>1. /\ e.tries \in 0..2 /\ e.contacts \in Nat
        /\ e.tries + 1 \in 0..2 /\ e.contacts + 1 \in Nat
        /\ e.contacts + 1 <= e.tries + 1
    BY <1>3 DEF Entry
  <2> QED
    BY <1>3, <2>1 DEF Entry
<1>5. new # NoEntry /\ journal' = [journal EXCEPT ![r] = jr]
  BY <1>4, NoEntryAssumption, WriteBecomes DEF Recover, DeviceInv
<1> HIDE DEF new
<1>6. /\ jr \in Journal /\ JournalSound(jr) /\ jr[t] = new
      /\ \A u \in Tasks \ {t} : jr[u] = journal[r][u]
  BY <1>1, <1>4, EnteredSound
<1>7. /\ b \in Activity /\ b.step = "resume" /\ b.task = t /\ b.todo = a.todo \ {t}
      /\ activity' = [activity EXCEPT ![r] = b]
  <2>1. a.todo \ {t} \in SUBSET Tasks /\ "resume" \in Steps
    BY <1>1 DEF Activity, Steps
  <2>2. activity' = [activity EXCEPT ![r] = b]
    BY DEF Recover, Resuming
  <2> QED
    BY <1>1, <2>1, <2>2 DEF Activity, Resuming
<1> HIDE DEF b, jr
<1>8. \A u \in b.todo : jr[u] # NoEntry /\ jr[u].tries < 2
  BY <1>1, <1>2, <1>6, <1>7 DEF ActivitySound, Activity
<1>9. ActivitySound(b, jr, task')
  BY <1>5, <1>6, <1>7, <1>8 DEF ActivitySound, WorkSteps, EntrySteps
<1>10. Becomes(r, b, jr)
  BY <1>5, <1>7 DEF Becomes
<1> QED
  BY <1>6, <1>7, <1>9, <1>10 DEF DeviceStep

LEMMA RecoverNeedsHumanStep ==
  ASSUME DeviceInv, RowsLater, NEW r \in Runners, NEW t \in Tasks,
         RecoverNeedsHuman(r, t)
  PROVE  DeviceStep(r)
<1> DEFINE b == [Idle EXCEPT !.step = "resume", !.mode = "manual", !.task = t]
<1>1. journal[r] \in Journal /\ JournalSound(journal[r]) /\ journal[r][t] # NoEntry
  BY DeviceKnows DEF RecoverNeedsHuman
<1>2. /\ b \in Activity /\ b.step = "resume" /\ b.mode = "manual" /\ b.task = t
      /\ b.todo = {}
  BY IdleTyped DEF Activity, Steps
<1>3. Becomes(r, b, journal[r])
  BY SameBecomes DEF RecoverNeedsHuman, DeviceInv, Becomes
<1> HIDE DEF b
<1>4. ActivitySound(b, journal[r], task')
  BY <1>1, <1>2 DEF ActivitySound, WorkSteps, EntrySteps
<1> QED
  BY <1>1, <1>2, <1>3, <1>4 DEF DeviceStep

LEMMA CallFailsStep ==
  ASSUME DeviceInv, RowsLater, NEW r \in Runners, CallFails(r)
  PROVE  DeviceStep(r)
BY BreakStep, ExtensionCodesAssumption DEF CallFails, WorkSteps

LEMMA PageFailsStep ==
  ASSUME DeviceInv, RowsLater, NEW r \in Runners, NEW code \in FailureCodes,
         PageFails(r, code)
  PROVE  DeviceStep(r)
BY BreakStep DEF PageFails, At, WorkSteps

-----------------------------------------------------------------------------
(* What a step of a device does outside the device *)

Framed ==
  /\ [Next]_vars
  /\ \/ UNCHANGED inflight
     \/ UNCHANGED task /\ InflightSound(inflight', task')
  /\ PageTyped
  /\ restarts' \in 0..MaxRestarts

LEMMA PageStays ==
  ASSUME DeviceInv, PageIdle
  PROVE  PageTyped
BY DEF DeviceInv, PageIdle, PageTyped

LEMMA LocalFramed ==
  ASSUME DeviceInv, Local, PageTyped
  PROVE  Framed
BY DEF Local, Framed, DeviceInv

LEMMA AnsweredFramed ==
  ASSUME DeviceInv, NEW r \in Runners, NEW op, CallOf(activity[r], op),
         Answered(op, r), PageIdle
  PROVE  Framed
<1>1. Next /\ UNCHANGED <<inflight, restarts>>
  BY AnsweredIsNext
<1> QED
  BY <1>1, PageStays DEF Framed, DeviceInv

LEMMA UnansweredFramed ==
  ASSUME DeviceInv, RowsTyped(task), NEW r \in Runners, NEW op,
         CallOf(activity[r], op), Unanswered(op, r), PageIdle
  PROVE  Framed
<1>1. UNCHANGED <<vars, restarts>> /\ InflightSound(inflight', task')
  BY UnansweredSound
<1>2. UNCHANGED task
  BY <1>1 DEF vars
<1> QED
  BY <1>1, <1>2, PageStays DEF Framed, DeviceInv

LEMMA RequestFramed ==
  ASSUME DeviceInv, RowsTyped(task), NEW q, RequestSound(q, task),
         Cardinality(inflight) < MaxInFlight, inflight' = inflight \cup {q},
         UNCHANGED vars, PageIdle, restarts' \in 0..MaxRestarts
  PROVE  Framed
<1>1. UNCHANGED task
  BY DEF vars
<1>2. InflightSound(inflight', task')
  BY <1>1, RequestLeft DEF DeviceInv
<1> QED
  BY <1>1, <1>2, PageStays DEF Framed

LEMMA ReconcileFramed ==
  ASSUME DeviceInv, RowsTyped(task), NEW r \in Runners, NEW t \in Tasks,
         Reconcile(r, t) \/ ReconcileFails(r, t)
  PROVE  Framed
<1>1. CASE Reconcile(r, t)
  <2>1. [Next]_vars
    <3>1. CASE ReconcileTask(r, t)
      BY <3>1 DEF Next, RunnerStep
    <3> QED
      BY <1>1, <3>1 DEF Reconcile, ServeReconciliation
  <2> QED
    BY <1>1, <2>1, PageStays DEF Reconcile, Framed, DeviceInv
<1>2. CASE ReconcileFails(r, t)
  <2> DEFINE q == Request("reconcile", r, [activity[r] EXCEPT !.task = t])
  <2>1. RequestSound(q, task)
    BY ReconcileSoundCall
  <2> HIDE DEF q
  <2>2. CASE inflight' = inflight
    BY <1>2, <2>2, PageStays DEF ReconcileFails, Framed, DeviceInv
  <2>3. CASE Cardinality(inflight) < MaxInFlight /\ inflight' = inflight \cup {q}
    <3>1. UNCHANGED vars /\ PageIdle /\ restarts' \in 0..MaxRestarts
      BY <1>2 DEF ReconcileFails, DeviceInv
    <3> QED
      BY <2>1, <2>3, <3>1, RequestFramed
  <2> QED
    BY <1>2, <2>2, <2>3 DEF ReconcileFails, q
<1> QED
  BY <1>1, <1>2

LEMMA ClaimFramed ==
  ASSUME DeviceInv, RowsTyped(task), NEW r \in Runners, ClaimNext(r) \/ EndPoll(r)
  PROVE  Framed
<1>1. PageTyped /\ activity[r].step = "claim"
  BY PageStays DEF ClaimNext, EndPoll, At
<1>2. ASSUME ClaimTask(r), UNCHANGED <<inflight, restarts>>
      PROVE  Framed
  BY <1>1, <1>2 DEF Next, Framed, DeviceInv
<1>3. CASE ClaimNext(r)
  <2>1. ClaimTask(r) /\ UNCHANGED <<inflight, restarts>>
    BY <1>3 DEF ClaimNext, ClaimTask
  <2> QED
    BY <1>2, <2>1
<1>4. CASE EndPoll(r)
  <2>1. CASE /\ \E parked \in SUBSET (ExpiredRunnerClaims \cup Exhausted) :
                  ClaimNothing(parked)
             /\ UNCHANGED <<inflight, restarts>>
    BY <1>2, <2>1 DEF ClaimTask
  <2>2. CASE Unanswered("claim", r)
    BY <1>1, <1>4, <2>2, UnansweredFramed DEF CallOf, EndPoll
  <2> QED
    BY <1>4, <2>1, <2>2 DEF EndPoll
<1> QED
  BY <1>3, <1>4

LEMMA GiveUpSound ==
  ASSUME DeviceInv, NEW r \in Runners, activity[r].step = "give_up"
  PROVE  RequestSound([Request("fail", r, activity[r]) EXCEPT
                         !.stage = FailureStage(activity[r].assist),
                         !.code = UnknownCode], task)
<1> DEFINE a == activity[r]
           stage == FailureStage(a.assist)
<1>1. a \in Activity /\ a.task \in Tasks /\ a.generation \in 1..task[a.task].generation
  BY DEF DeviceInv, DevicesTyped, ActivitySound, WorkSteps
<1>2. stage \in Stages /\ UnknownCode \in FailureCodes
  BY StageTyped, ExtensionCodesAssumption
<1>3. a.generation \in 0..MaxGeneration
  BY <1>1 DEF Activity
<1>4. "fail" \in CallOps /\ "fail" \notin {"intent", "confirm", "claim"}
  BY DEF CallOps, LeaseOps
<1> DEFINE q == Request("fail", r, a)
           p == [q EXCEPT !.stage = stage, !.code = UnknownCode]
<1>5. q \in Requests /\ q.op = "fail" /\ q.task = a.task /\ q.generation = a.generation
  <2>1. a.stage \in Stages /\ a.code \in FailureCodes \cup {NoCode}
    BY <1>1 DEF Activity
  <2> HIDE DEF a
  <2> QED
    BY <1>1, <1>3, <1>4, <2>1 DEF Request, Requests
<1> HIDE DEF a, stage, q, UnknownCode
<1>6. /\ p \in Requests /\ p.op = "fail" /\ p.task = a.task
      /\ p.generation = a.generation /\ p.code = UnknownCode
  BY <1>2, <1>5 DEF Requests
<1> HIDE DEF p
<1>7. RequestSound(p, task)
  BY <1>1, <1>2, <1>4, <1>6 DEF RequestSound
<1> QED
  BY <1>7 DEF a, stage, q, p

LEMMA GiveUpFramed ==
  ASSUME DeviceInv, RowsTyped(task), NEW r \in Runners, GiveUp(r)
  PROVE  Framed
<1> DEFINE q == [Request("fail", r, activity[r]) EXCEPT
                   !.stage = FailureStage(activity[r].assist), !.code = UnknownCode]
<1>1. RequestSound(q, task) /\ PageIdle /\ restarts' \in 0..MaxRestarts
  BY GiveUpSound DEF GiveUp, At, DeviceInv
<1>2. \/ Serve(q) /\ UNCHANGED inflight
      \/ UNCHANGED <<vars, inflight>>
      \/ /\ Cardinality(inflight) < MaxInFlight
         /\ inflight' = inflight \cup {q}
         /\ UNCHANGED vars
  BY DEF GiveUp
<1> HIDE DEF q
<1>3. CASE Serve(q) /\ UNCHANGED inflight
  BY <1>1, <1>3, ServeIsNext, PageStays DEF Framed
<1>4. CASE UNCHANGED <<vars, inflight>>
  BY <1>1, <1>4, PageStays DEF Framed
<1>5. CASE /\ Cardinality(inflight) < MaxInFlight
           /\ inflight' = inflight \cup {q}
           /\ UNCHANGED vars
  BY <1>1, <1>5, RequestFramed
<1> QED
  BY <1>2, <1>3, <1>4, <1>5

\* What a crash may leave in flight.
LEMMA PendingSound ==
  ASSUME DeviceInv, NEW r \in Runners, NEW q \in Pending(r)
  PROVE  RequestSound(q, task)
<1>1. CASE \E op \in {"claim", "resume", "intent", "confirm", "complete", "fail"} :
             op = activity[r].step /\ q = Request(op, r, activity[r])
  BY <1>1, CallSound DEF CallOf
<1>2. CASE \E t \in Tasks : q = Request("reconcile", r, [activity[r] EXCEPT !.task = t])
  BY <1>2, ReconcileSoundCall
<1>3. CASE Working(r) /\ q = Request("heartbeat", r, activity[r])
  <2>1. CallOf(activity[r], "heartbeat")
    BY <1>3 DEF Working, CallOf, WorkSteps
  <2> QED
    BY <1>3, <2>1, CallSound
<1>4. activity[r].todo \subseteq Tasks
  BY DEF DeviceInv, DevicesTyped, Activity
<1> QED
  BY <1>1, <1>2, <1>3, <1>4 DEF Pending

LEMMA CrashFramed ==
  ASSUME DeviceInv, RowsTyped(task), NEW r \in Runners, Crash(r)
  PROVE  Framed
<1>1. PageIdle /\ UNCHANGED vars /\ restarts' \in 0..MaxRestarts
  <2>1. restarts' = restarts + 1 /\ restarts < MaxRestarts /\ restarts \in 0..MaxRestarts
    BY DEF Crash, DeviceInv
  <2>2. restarts' \in 0..MaxRestarts
    BY <2>1, ExtensionBoundsAssumption
  <2> QED
    BY <2>2 DEF Crash
<1>2. CASE inflight' = inflight
  BY <1>1, <1>2, PageStays DEF Framed
<1>3. CASE /\ Cardinality(inflight) < MaxInFlight
           /\ \E q \in Pending(r) : inflight' = inflight \cup {q}
  <2>1. PICK q \in Pending(r) : inflight' = inflight \cup {q}
    BY <1>3
  <2>2. RequestSound(q, task)
    BY PendingSound
  <2> QED
    BY <1>1, <1>3, <2>1, <2>2, RequestFramed
<1> QED
  BY <1>2, <1>3 DEF Crash

\* The calls of the work.
LEMMA CallsFramed ==
  ASSUME DeviceInv, RowsTyped(task), NEW r \in Runners,
         \/ ResumeTask(r) \/ RecordIntent(r) \/ Confirm(r) \/ CompleteTask(r) \/ Fail(r)
         \/ ResumeFails(r) \/ CallFails(r) \/ FailFails(r)
  PROVE  Framed
<1>1. \A op \in {"resume", "intent", "confirm", "complete", "fail"} :
        activity[r].step = op => CallOf(activity[r], op)
  BY DEF CallOf
<1>2. CASE ResumeTask(r)
  BY <1>1, <1>2, AnsweredFramed DEF ResumeTask, At
<1>3. CASE RecordIntent(r)
  BY <1>1, <1>3, AnsweredFramed DEF RecordIntent, At
<1>4. CASE Confirm(r)
  BY <1>1, <1>4, AnsweredFramed DEF Confirm, At
<1>5. CASE CompleteTask(r)
  BY <1>1, <1>5, AnsweredFramed DEF CompleteTask, At
<1>6. CASE Fail(r)
  BY <1>1, <1>6, AnsweredFramed DEF Fail, At
<1>7. CASE ResumeFails(r)
  BY <1>1, <1>7, UnansweredFramed DEF ResumeFails, At
<1>8. CASE CallFails(r)
  BY <1>1, <1>8, UnansweredFramed DEF CallFails
<1>9. CASE FailFails(r)
  BY <1>1, <1>9, UnansweredFramed DEF FailFails, At
<1> QED
  BY <1>2, <1>3, <1>4, <1>5, <1>6, <1>7, <1>8, <1>9

\* The steps that call nobody.
LEMMA LocalsFramed ==
  ASSUME DeviceInv, NEW r \in Runners,
         \/ StartPoll(r) \/ ListDue(r) \/ StartPolling(r) \/ Begin(r) \/ PageWork(r)
         \/ \E t \in Tasks : Recover(r, t) \/ RecoverNeedsHuman(r, t)
         \/ \E code \in FailureCodes : OpenFails(r, code) \/ PageFails(r, code)
  PROVE  Framed
<1>1. CASE SubmitOnceInPage(r)
  <2>1. activity[r].task \in Tasks
    BY <1>1 DEF SubmitOnceInPage, At, DeviceInv, ActivitySound, WorkSteps
  <2>2. asked' = asked \cup {<<r, activity[r].task>>} /\ UNCHANGED sent /\ Local
    BY <1>1 DEF SubmitOnceInPage
  <2>3. PageTyped
    BY <2>1, <2>2 DEF DeviceInv, PageTyped
  <2> QED
    BY <2>2, <2>3, LocalFramed
<1>2. CASE PageIdle /\ Local
  BY <1>2, PageStays, LocalFramed
<1>3. PageWork(r) => SubmitOnceInPage(r) \/ (PageIdle /\ Local)
  BY DEF PageWork, Prepare, MarkIntent, SeePrompt, Reattach, Collect
<1>4. StartPoll(r) \/ ListDue(r) \/ StartPolling(r) \/ Begin(r) => PageIdle /\ Local
  BY DEF StartPoll, ListDue, StartPolling, Begin
<1>5. ASSUME NEW t, Recover(r, t) \/ RecoverNeedsHuman(r, t) PROVE PageIdle /\ Local
  BY <1>5 DEF Recover, RecoverNeedsHuman
<1>6. ASSUME NEW code, OpenFails(r, code) \/ PageFails(r, code) PROVE PageIdle /\ Local
  BY <1>6 DEF OpenFails, PageFails
<1> QED
  BY <1>1, <1>2, <1>3, <1>4, <1>5, <1>6

-----------------------------------------------------------------------------
(* Every step *)

\* What a device does, alone or with an answer.
DeviceAction(r) ==
  \/ StartPoll(r) \/ PassStep(r) \/ TaskStep(r) \/ Crash(r)
  \/ \E t \in Tasks : RecoverNeedsHuman(r, t)

LEMMA DeviceActionStep ==
  ASSUME TypeOK, TypeOK', DeviceInv, RowsLater, NEW r \in Runners, DeviceAction(r)
  PROVE  DeviceStep(r)
<1>1. CASE PassEdge(r)
  BY <1>1, PassEdgeStep
<1>2. CASE PageWork(r)
  BY <1>2, PageWorkStep
<1>3. ASSUME NEW t \in Tasks,
             \/ Reconcile(r, t) \/ ReconcileFails(r, t) \/ Recover(r, t)
             \/ RecoverNeedsHuman(r, t)
      PROVE  DeviceStep(r)
  BY <1>3, ReconcileStep, RecoverStep, RecoverNeedsHumanStep
<1>4. ASSUME NEW code \in FailureCodes, OpenFails(r, code) \/ PageFails(r, code)
      PROVE  DeviceStep(r)
  BY <1>4, OpenFailsStep, PageFailsStep
<1>5. CASE ResumeTask(r) \/ ClaimNext(r)
  BY <1>5, ResumeTaskStep, ClaimNextStep
<1>6. CASE ResumeFails(r) \/ GiveUp(r)
  <2>1. activity[r].step \in {"resume", "give_up"}
    BY <1>6 DEF ResumeFails, GiveUp, At
  <2>2. After(r, FALSE) /\ Remember(r, activity[r].task)
    BY <1>6 DEF ResumeFails, GiveUp
  <2> QED
    BY <2>1, <2>2, RememberStep
<1>7. CASE Begin(r) \/ RecordIntent(r) \/ Confirm(r)
  BY <1>7, BeginStep, RecordIntentStep, ConfirmStep
<1>8. CASE CompleteTask(r) \/ CallFails(r) \/ Fail(r) \/ FailFails(r)
  BY <1>8, CompleteTaskStep, CallFailsStep, FailStep
<1> QED
  BY <1>1, <1>2, <1>3, <1>4, <1>5, <1>6, <1>7, <1>8
     DEF DeviceAction, PassStep, TaskStep, PassEdge, PageWork

LEMMA DeviceActionFramed ==
  ASSUME DeviceInv, RowsTyped(task), NEW r \in Runners, DeviceAction(r)
  PROVE  Framed
<1>1. CASE \/ StartPoll(r) \/ ListDue(r) \/ StartPolling(r) \/ Begin(r) \/ PageWork(r)
           \/ \E t \in Tasks : Recover(r, t) \/ RecoverNeedsHuman(r, t)
           \/ \E code \in FailureCodes : OpenFails(r, code) \/ PageFails(r, code)
  BY <1>1, LocalsFramed
<1>2. CASE \/ ResumeTask(r) \/ RecordIntent(r) \/ Confirm(r) \/ CompleteTask(r)
           \/ Fail(r) \/ ResumeFails(r) \/ CallFails(r) \/ FailFails(r)
  BY <1>2, CallsFramed
<1>3. CASE ClaimNext(r) \/ EndPoll(r) \/ GiveUp(r) \/ Crash(r)
  BY <1>3, ClaimFramed, GiveUpFramed, CrashFramed
<1>4. ASSUME NEW t \in Tasks, Reconcile(r, t) \/ ReconcileFails(r, t)
      PROVE  Framed
  BY <1>4, ReconcileFramed
<1> QED
  BY <1>1, <1>2, <1>3, <1>4 DEF DeviceAction, PassStep, TaskStep, PageWork

\* A step of the device's page.
LEMMA PageStepFramed ==
  ASSUME DeviceInv, NEW r \in Runners, NEW t \in Tasks,
         PageSends(r, t) \/ PageRefuses(r, t)
  PROVE  Framed /\ UNCHANGED <<vars, journal, activity, inflight, restarts>>
<1>1. asked' = asked \ {<<r, t>>} /\ asked' \subseteq Runners \X Tasks
  BY DEF PageSends, PageRefuses, DeviceInv
<1>2. sent' \in [Tasks -> [Runners -> Nat]]
  <2>1. CASE PageSends(r, t)
    <3>1. sent' = [sent EXCEPT ![t][r] = @ + 1] /\ sent[t][r] + 1 \in Nat
      BY <2>1 DEF PageSends, DeviceInv
    <3> QED
      BY <3>1 DEF DeviceInv
  <2>2. CASE PageRefuses(r, t)
    BY <2>2 DEF PageRefuses, DeviceInv
  <2> QED
    BY <2>1, <2>2
<1>3. Local /\ UNCHANGED <<journal, activity>>
  BY DEF PageSends, PageRefuses
<1> QED
  BY <1>1, <1>2, <1>3, LocalFramed DEF PageTyped, Local

\* What happens elsewhere: heartbeats, the network and the portal alone.
Elsewhere ==
  \/ \E r \in Runners : Beat(r)
  \/ \E q \in inflight : Deliver(q) \/ Drop(q)
  \/ PortalAlone
  \/ UNCHANGED extVars

LEMMA ElsewhereMoves ==
  ASSUME DeviceInv, Elsewhere
  PROVE  /\ [Next]_vars
         /\ UNCHANGED <<journal, activity, asked, sent, restarts>>
         /\ inflight' \subseteq inflight
<1>1. ASSUME NEW r \in Runners, Beat(r)
      PROVE  [Next]_vars /\ UNCHANGED deviceVars
  <2>1. CallOf(activity[r], "heartbeat")
    BY <1>1 DEF Beat, Working, CallOf, WorkSteps
  <2> QED
    BY <1>1, <2>1, CallSound, ServeIsNext DEF Beat
<1>2. ASSUME NEW q \in inflight, Deliver(q) \/ Drop(q)
      PROVE  /\ [Next]_vars
             /\ UNCHANGED <<journal, activity, asked, sent, restarts>>
             /\ inflight' \subseteq inflight
  <2>1. RequestSound(q, task)
    BY DEF DeviceInv, InflightSound
  <2>2. CASE Deliver(q)
    BY <2>1, <2>2, ServeIsNext DEF Deliver
  <2>3. CASE Drop(q)
    BY <2>3 DEF Drop
  <2> QED
    BY <1>2, <2>2, <2>3
<1>3. CASE PortalAlone
  BY <1>3 DEF PortalAlone, deviceVars, Next
<1>4. CASE UNCHANGED extVars
  BY <1>4 DEF extVars, deviceVars
<1> QED
  BY <1>1, <1>2, <1>3, <1>4 DEF Elsewhere, deviceVars

LEMMA ExtNextCases ==
  ASSUME [ExtNext]_extVars
  PROVE  \/ \E r \in Runners : DeviceAction(r)
         \/ \E r \in Runners, t \in Tasks : PageSends(r, t) \/ PageRefuses(r, t)
         \/ Elsewhere
BY DEF ExtNext, DeviceAction, Elsewhere

LEMMA RowsMoveLater ==
  ASSUME RowsInv, [Next]_vars
  PROVE  RowsLater /\ TypeOK /\ TypeOK'
<1>1. RowsInv' /\ RowsStep
  BY NextRows
<1>2. RowsTyped(task) /\ RowsTyped(task')
  BY <1>1 DEF RowsInv, CustodyInv, TypeOK, TaskRow, RowsTyped
<1>3. Later(task, task')
  <2> SUFFICES ASSUME NEW t \in Tasks
               PROVE  task[t].generation <= task'[t].generation
    BY DEF Later
  <2>1. task'[t].generation >= task[t].generation
    BY <1>1 DEF RowsStep, Continues
  <2> QED
    BY <1>2, <2>1 DEF RowsTyped
<1> QED
  BY <1>1, <1>2, <1>3 DEF RowsLater, RowsInv, CustodyInv

\* Every step of the extension is one of the protocol, or none, and leaves the
\* devices with what they have to know.
LEMMA ExtNextMoves ==
  ASSUME RowsInv, DeviceInv, [ExtNext]_extVars
  PROVE  [Next]_vars /\ DeviceInv'
<1>1. RowsTyped(task)
  BY RowTyped DEF RowsTyped
<1>2. ASSUME Framed
      PROVE  /\ [Next]_vars /\ RowsLater /\ TypeOK /\ TypeOK'
             /\ InflightSound(inflight', task') /\ PageTyped
             /\ restarts' \in 0..MaxRestarts
  <2>1. RowsLater /\ TypeOK /\ TypeOK'
    BY <1>2, RowsMoveLater DEF Framed
  <2>2. InflightSound(inflight', task')
    BY <1>2, <2>1, RequestsStay DEF Framed, DeviceInv
  <2> QED
    BY <1>2, <2>1, <2>2 DEF Framed
<1>3. ASSUME NEW r \in Runners, DeviceAction(r)
      PROVE  [Next]_vars /\ DeviceInv'
  <2>1. Framed
    BY <1>1, <1>3, DeviceActionFramed
  <2>2. /\ [Next]_vars /\ RowsLater /\ TypeOK /\ TypeOK'
        /\ InflightSound(inflight', task') /\ PageTyped
        /\ restarts' \in 0..MaxRestarts
    BY <1>2, <2>1
  <2>3. DeviceStep(r)
    BY <1>3, <2>2, DeviceActionStep
  <2> QED
    BY <2>2, <2>3, DeviceMoves
<1>4. ASSUME NEW r \in Runners, NEW t \in Tasks, PageSends(r, t) \/ PageRefuses(r, t)
      PROVE  [Next]_vars /\ DeviceInv'
  <2>1. Framed /\ UNCHANGED <<vars, journal, activity, inflight, restarts>>
    BY <1>4, PageStepFramed
  <2>2. /\ [Next]_vars /\ RowsLater
        /\ InflightSound(inflight', task') /\ PageTyped
        /\ restarts' \in 0..MaxRestarts
    BY <1>2, <2>1
  <2> QED
    BY <2>1, <2>2, DevicesStay
<1>5. CASE Elsewhere
  <2>1. /\ [Next]_vars
        /\ UNCHANGED <<journal, activity, asked, sent, restarts>>
        /\ inflight' \subseteq inflight
    BY <1>5, ElsewhereMoves
  <2>2. RowsLater
    BY <2>1, RowsMoveLater
  <2>3. InflightSound(inflight', task')
    BY <2>1, <2>2, RequestsStay DEF DeviceInv
  <2>4. PageTyped /\ restarts' \in 0..MaxRestarts
    BY <2>1 DEF PageTyped, DeviceInv
  <2> QED
    BY <2>1, <2>2, <2>3, <2>4, DevicesStay
<1> QED
  BY <1>3, <1>4, <1>5, ExtNextCases

-----------------------------------------------------------------------------
(* The devices run the protocol *)

\* What is known of the portal and of the devices at every moment.
WorkInv == RowsInv /\ ProtocolInv /\ DeviceInv

LEMMA ExtInitially ==
  ASSUME ExtInit
  PROVE  WorkInv
<1>1. Init
  BY DEF ExtInit
<1>2. ProtocolInv /\ TypeOK
  BY <1>1, InitSound DEF ProtocolInv
<1>3. RowsInv
  BY <1>1, <1>2 DEF Init, RowsInv, RowFacts, CustodyInv, AutomationConsistent,
                    AutomationStateConsistent, TerminalStatuses
<1>4. DevicesTyped
  <2>1. activity \in [Runners -> Activity]
    BY IdleTyped DEF ExtInit
  <2>2. journal \in [Runners -> Journal]
    BY DEF ExtInit, Journal
  <2> QED
    BY <2>1, <2>2 DEF DevicesTyped
<1>5. ASSUME NEW r \in Runners
      PROVE  ActivitySound(activity[r], journal[r], task) /\ JournalSound(journal[r])
  <2>1. activity[r] = Idle /\ \A t \in Tasks : journal[r][t] = NoEntry
    BY DEF ExtInit
  <2>2. Idle.step = "idle" /\ Idle.mode = "poll" /\ Idle.todo = {}
    BY DEF Idle
  <2> QED
    BY <2>1, <2>2 DEF ActivitySound, JournalSound, WorkSteps, EntrySteps
<1>6. InflightSound(inflight, task)
  <2>1. inflight = {} /\ Cardinality({}) = 0 /\ IsFiniteSet({})
    BY FS_EmptySet DEF ExtInit
  <2> QED
    BY <2>1, ExtensionBoundsAssumption DEF InflightSound
<1>7. /\ asked \subseteq Runners \X Tasks
      /\ sent \in [Tasks -> [Runners -> Nat]]
      /\ restarts \in 0..MaxRestarts
  BY ExtensionBoundsAssumption DEF ExtInit
<1> QED
  BY <1>2, <1>3, <1>4, <1>5, <1>6, <1>7 DEF WorkInv, DeviceInv

LEMMA WorkInductive ==
  ASSUME WorkInv, [ExtNext]_extVars
  PROVE  WorkInv' /\ [Next]_vars
<1>1. [Next]_vars /\ DeviceInv'
  BY ExtNextMoves DEF WorkInv
<1>2. RowsInv'
  BY <1>1, NextRows DEF WorkInv
<1>3. ProtocolInv'
  BY <1>1, ProtocolInvInductive DEF WorkInv
<1> QED
  BY <1>1, <1>2, <1>3 DEF WorkInv

LEMMA ExtensionWorks == ExtSpec => []WorkInv
<1>1. ExtInit => WorkInv
  BY ExtInitially
<1>2. WorkInv /\ [ExtNext]_extVars => WorkInv'
  BY WorkInductive
<1> QED
  BY <1>1, <1>2, PTL DEF ExtSpec

\* Journals, workers, pages and requests in flight keep their types, whatever
\* crashes, and no more requests than allowed are under way.
THEOREM ExtTypeCorrect == ExtSpec => []ExtTypeOK
<1>1. WorkInv => ExtTypeOK
  <2> SUFFICES ASSUME WorkInv PROVE ExtTypeOK
    OBVIOUS
  <2>1. DeviceInv /\ TypeOK
    BY DEF WorkInv, ProtocolInv
  <2>2. ASSUME NEW r \in Runners
        PROVE  /\ activity[r].step \in Steps
               /\ activity[r].mode \in {"poll", "auto", "manual"}
               /\ activity[r].task \in Tasks \cup {NoTask}
               /\ activity[r].todo \subseteq Tasks
               /\ activity[r].skipped \subseteq Tasks
    <3>1. activity[r] \in Activity
      BY <2>1 DEF DeviceInv, DevicesTyped
    <3> QED
      BY <3>1 DEF Activity
  <2>3. journal \in [Runners -> [Tasks -> Entry \cup {NoEntry}]]
    BY <2>1 DEF DeviceInv, DevicesTyped, Journal
  <2> QED
    BY <2>1, <2>2, <2>3 DEF ExtTypeOK, DeviceInv, InflightSound
<1> QED
  BY <1>1, ExtensionWorks, PTL

\* Automatic recovery calls the portal at most twice for an entry: the attempt
\* is in the journal before the call, and a list of due entries never holds an
\* entry that has used its attempts up, however old the list is.
THEOREM RecoveryIsBounded == ExtSpec => []RecoversAtMostTwice
<1>1. WorkInv => RecoversAtMostTwice
  <2> SUFFICES ASSUME WorkInv, NEW r \in Runners, NEW t \in Tasks,
                      journal[r][t] # NoEntry
               PROVE  journal[r][t].contacts <= 2
    BY DEF RecoversAtMostTwice
  <2>1. journal[r] \in Journal /\ JournalSound(journal[r])
    BY DEF WorkInv, DeviceInv, DevicesTyped
  <2>2. journal[r][t] \in Entry /\ journal[r][t].contacts <= journal[r][t].tries
    BY <2>1 DEF Journal, JournalSound
  <2>3. journal[r][t].contacts \in Nat /\ journal[r][t].tries \in 0..2
    BY <2>2 DEF Entry
  <2> QED
    BY <2>2, <2>3
<1> QED
  BY <1>1, ExtensionWorks, PTL

\* The extension does nothing to the portal but what the protocol allows:
\* crashes, late requests and calls nobody waits for included.
THEOREM ExtensionRunsProtocol == ExtSpec => Spec
<1>1. ExtInit => Init
  BY DEF ExtInit
<1>2. WorkInv /\ [ExtNext]_extVars => [Next]_vars
  BY WorkInductive
<1> QED
  BY <1>1, <1>2, ExtensionWorks, PTL DEF ExtSpec, Spec

\* So what the protocol keeps is kept with the extension at work: submitted
\* tasks stay with their device, no lease is taken over, and the database
\* accepts every write of a device.
COROLLARY ExtensionKeepsCustody ==
  ExtSpec => /\ []ProtocolNeverRefused
             /\ PostSubmitStaysWithDevice
             /\ WorkOnlyInsideWindow
             /\ LiveLeaseShield
BY ExtensionRunsProtocol, NeverRefused, SubmittedTasksStay, WorkInsideWindow,
   LeasesShielded, PTL

-----------------------------------------------------------------------------
(* What a device turns to, field by field *)

SameLease(a, b) ==
  SameWork(a, b) /\ b.assist = a.assist /\ b.confirmed = a.confirmed
                 /\ b.skipped = a.skipped

LEMMA TurnsTo ==
  ASSUME DeviceInv, NEW r \in Runners, NEW b, activity' = [activity EXCEPT ![r] = b]
  PROVE  activity'[r] = b
BY DEF DeviceInv, DevicesTyped

LEMMA GoFields ==
  ASSUME DeviceInv, NEW r \in Runners, NEW step, Go(r, step)
  PROVE  activity'[r].step = step /\ SameLease(activity[r], activity'[r])
<1>1. activity \in [Runners -> Activity] /\ activity[r] \in Activity
  BY DEF DeviceInv, DevicesTyped
<1>2. activity'[r] = [activity[r] EXCEPT !.step = step]
  BY <1>1 DEF Go
<1> QED
  BY <1>1, <1>2 DEF Activity, SameLease, SameWork

LEMMA BrokenFields ==
  ASSUME DeviceInv, NEW r \in Runners, NEW stage, NEW code,
         activity' = [activity EXCEPT ![r] =
           [@ EXCEPT !.step = "fail", !.stage = stage, !.code = code]]
  PROVE  /\ activity'[r].step = "fail" /\ SameLease(activity[r], activity'[r])
         /\ activity'[r].stage = stage /\ activity'[r].code = code
<1>1. activity[r] \in Activity
  BY DEF DeviceInv, DevicesTyped
<1> DEFINE b == Broken(activity[r], stage, code)
<1>2. activity'[r] = b
  BY TurnsTo DEF Broken
<1>3. b.step = "fail" /\ b.stage = stage /\ b.code = code
  BY <1>1 DEF Broken, Activity
<1>4. SameLease(activity[r], b)
  BY <1>1 DEF Broken, Activity, SameLease, SameWork
<1> QED
  BY <1>2, <1>3, <1>4

LEMMA WorkOnFields ==
  ASSUME DeviceInv, NEW r \in Runners, NEW t, NEW step, NEW assist, NEW confirmed,
         WorkOn(r, t, step, assist, confirmed)
  PROVE  LET b == activity'[r]
         IN  /\ b.step = step /\ b.task = t /\ b.generation = task'[t].generation
             /\ b.assist = assist /\ b.confirmed = confirmed
             /\ b.mode = activity[r].mode /\ b.todo = activity[r].todo
             /\ b.skipped = activity[r].skipped
<1>1. activity[r] \in Activity
  BY DEF DeviceInv, DevicesTyped
<1> DEFINE g == task'[t].generation
<1>2. activity' = [activity EXCEPT ![r] = Worked(activity[r], t, step, g, assist, confirmed)]
  BY DEF WorkOn, Worked
<1>3. activity'[r] = Worked(activity[r], t, step, g, assist, confirmed)
  BY <1>2, TurnsTo
<1> HIDE DEF g
<1>4. /\ activity'[r].step = step /\ activity'[r].task = t /\ activity'[r].generation = g
      /\ activity'[r].assist = assist /\ activity'[r].confirmed = confirmed
      /\ activity'[r].mode = activity[r].mode /\ activity'[r].todo = activity[r].todo
      /\ activity'[r].skipped = activity[r].skipped
  BY <1>1, <1>3 DEF Worked, Activity
<1> QED
  BY <1>4 DEF g

\* The work is over: automatic recovery goes on with its list, a poll may go on.
LEMMA DoneFields ==
  ASSUME DeviceInv, NEW r \in Runners, NEW stop, After(r, stop)
  PROVE  /\ activity'[r].mode = "poll"
         /\ activity[r].mode = "auto" =>
              /\ activity'[r].step = "recover"
              /\ activity'[r].todo = activity[r].todo
              /\ activity'[r].skipped = activity[r].skipped
         /\ activity[r].mode = "poll" => activity'[r].step \in {"claim", "idle"}
         /\ activity[r].mode = "manual" => activity'[r].step = "idle"
<1>1. activity'[r] = Done(activity[r], stop)
  BY AfterBecomes, TurnsTo
<1> QED
  BY <1>1 DEF Done, Idle

LEMMA PassedFields ==
  ASSUME DeviceInv, NEW r \in Runners, NEW t \in Tasks, NEW skip, Reconciled(r, t, skip)
  PROVE  LET a == activity[r]
             b == activity'[r]
         IN  /\ b.step = a.step /\ b.mode = a.mode /\ b.task = a.task
             /\ b.todo = a.todo \ {t}
             /\ b.skipped = IF skip THEN a.skipped \cup {t} ELSE a.skipped
<1>1. activity \in [Runners -> Activity] /\ activity[r] \in Activity
  BY DEF DeviceInv, DevicesTyped
<1>2. activity'[r] = Passed(activity[r], t, skip)
  BY <1>1 DEF Reconciled, Passed, Activity
<1> QED
  BY <1>1, <1>2 DEF Passed, Activity

LEMMA RecoverFields ==
  ASSUME DeviceInv, NEW r \in Runners, NEW t \in Tasks, Recover(r, t)
  PROVE  /\ activity[r].step = "recover" /\ t \in activity[r].todo
         /\ activity'[r].step = "resume" /\ activity'[r].mode = "auto"
         /\ activity'[r].task = t /\ activity'[r].todo = activity[r].todo \ {t}
         /\ activity'[r].skipped = activity[r].skipped
<1>1. activity[r] \in Activity
  BY DEF DeviceInv, DevicesTyped
<1>2. activity' = [activity EXCEPT ![r] =
                     Resuming(activity[r], "auto", t, activity[r].todo \ {t})]
  BY DEF Recover, Resuming
<1>3. activity'[r] = Resuming(activity[r], "auto", t, activity[r].todo \ {t})
  BY <1>2, TurnsTo
<1> DEFINE todo == activity[r].todo \ {t}
<1>4. /\ activity'[r].step = "resume" /\ activity'[r].mode = "auto"
      /\ activity'[r].task = t /\ activity'[r].todo = todo
      /\ activity'[r].skipped = activity[r].skipped
  <2> HIDE DEF todo
  <2>1. activity'[r] = Resuming(activity[r], "auto", t, todo)
    BY <1>3 DEF todo
  <2> QED
    BY <1>1, <2>1 DEF Resuming, Activity
<1> QED
  BY <1>4 DEF Recover, At

LEMMA RecoverNeedsHumanFields ==
  ASSUME DeviceInv, NEW r \in Runners, NEW t \in Tasks, RecoverNeedsHuman(r, t)
  PROVE  /\ activity[r].step = "idle" /\ journal[r][t] # NoEntry
         /\ activity'[r].step = "resume" /\ activity'[r].mode = "manual"
         /\ activity'[r].task = t /\ activity'[r].todo = {}
         /\ activity'[r].skipped = {}
<1>1. activity'[r] = [Idle EXCEPT !.step = "resume", !.mode = "manual", !.task = t]
  BY TurnsTo DEF RecoverNeedsHuman
<1>2. /\ activity'[r].step = "resume" /\ activity'[r].mode = "manual"
      /\ activity'[r].task = t /\ activity'[r].todo = {} /\ activity'[r].skipped = {}
  BY <1>1 DEF Idle
<1> QED
  BY <1>2 DEF RecoverNeedsHuman, At

LEMMA StartPollFields ==
  ASSUME DeviceInv, NEW r \in Runners, StartPoll(r)
  PROVE  /\ activity'[r].step = "reconcile" /\ activity'[r].mode = "poll"
         /\ activity'[r].todo = Journaled(r) /\ activity'[r].skipped = {}
<1>1. activity'[r] = [Idle EXCEPT !.step = "reconcile", !.todo = Journaled(r)]
  BY TurnsTo DEF StartPoll
<1> QED
  BY <1>1 DEF Idle

LEMMA ListDueFields ==
  ASSUME DeviceInv, NEW r \in Runners, ListDue(r)
  PROVE  /\ activity[r].step = "reconcile" /\ activity[r].todo = {}
         /\ activity'[r].step = "recover" /\ activity'[r].mode = activity[r].mode
         /\ activity'[r].todo \subseteq Recoverable(r) \ activity[r].skipped
         /\ activity'[r].skipped = activity[r].skipped
<1>1. activity \in [Runners -> Activity] /\ activity[r] \in Activity
  BY DEF DeviceInv, DevicesTyped
<1>2. PICK due \in SUBSET (Recoverable(r) \ activity[r].skipped) :
        activity' = [activity EXCEPT ![r].step = "recover", ![r].todo = due]
  BY DEF ListDue
<1>3. activity'[r] = [activity[r] EXCEPT !.step = "recover", !.todo = due]
  BY <1>1, <1>2 DEF Activity
<1> QED
  BY <1>1, <1>3 DEF Activity, ListDue, At

LEMMA StartPollingFields ==
  ASSUME DeviceInv, NEW r \in Runners, StartPolling(r)
  PROVE  /\ activity[r].step = "recover" /\ activity[r].todo = {}
         /\ activity'[r].step = IF activity[r].skipped = {} THEN "claim" ELSE "idle"
         /\ activity'[r].mode = "poll" /\ activity'[r].todo = {}
         /\ activity'[r].skipped = {}
<1> DEFINE step == IF activity[r].skipped = {} THEN "claim" ELSE "idle"
<1>1. activity'[r] = [Idle EXCEPT !.step = step]
  BY TurnsTo DEF StartPolling
<1> HIDE DEF step
<1>2. /\ activity'[r].step = step /\ activity'[r].mode = "poll"
      /\ activity'[r].todo = {} /\ activity'[r].skipped = {}
  BY <1>1 DEF Idle
<1> QED
  BY <1>2 DEF StartPolling, At, step

LEMMA StoppedFields ==
  ASSUME DeviceInv, NEW r \in Runners, EndPoll(r) \/ Crash(r)
  PROVE  activity'[r].step = "idle" /\ activity'[r].mode = "poll"
<1>1. activity'[r] = Idle
  BY TurnsTo DEF EndPoll, Crash
<1> QED
  BY <1>1 DEF Idle

\* What is written in the journal, and nothing else.
LEMMA WriteGives ==
  ASSUME DeviceInv, NEW r \in Runners, NEW t \in Tasks, NEW e, Write(r, t, e)
  PROVE  /\ journal'[r][t] = e
         /\ \A u \in Tasks \ {t} : journal'[r][u] = journal[r][u]
BY DEF Write, DeviceInv, DevicesTyped, Journal

\* A device has no part in another.
LEMMA OthersStay ==
  ASSUME DeviceInv, NEW r \in Runners, DeviceStep(r), NEW s \in Runners, s # r
  PROVE  activity'[s] = activity[s] /\ journal'[s] = journal[s]
BY DEF DeviceInv, DevicesTyped, DeviceStep, Becomes

-----------------------------------------------------------------------------
(* Prompts are sent at most once *)

Unsent(t, clicks) == \A s \in Runners : clicks[t][s] = 0

\* The page is asked, and sends, only what its device is committed to and has
\* not sent; a prompt that was sent was sent by the committed device.
SendInv ==
  /\ \A r \in Runners, t \in Tasks : <<r, t>> \in asked =>
       task[t].intent /\ task[t].claimedBy = r /\ Unsent(t, sent)
  /\ \A r \in Runners : activity[r].step = "ask" =>
       /\ task[activity[r].task].intent /\ task[activity[r].task].claimedBy = r
       /\ <<r, activity[r].task>> \notin asked
       /\ Unsent(activity[r].task, sent)
  /\ \A r \in Runners, t \in Tasks : sent[t][r] # 0 =>
       task[t].intent /\ task[t].claimedBy = r /\ sent[t][r] = 1

\* A device tells its page to submit only when the portal has just answered that
\* the intent is recorded.
LEMMA AskedAfterIntent ==
  ASSUME DeviceInv, NEW r \in Runners, DeviceAction(r), activity'[r].step = "ask"
  PROVE  RecordIntent(r)
<1>1. ASSUME NEW stop, After(r, stop) PROVE FALSE
  <2>1. activity'[r] = Done(activity[r], stop)
    BY <1>1, AfterBecomes, TurnsTo
  <2> QED
    BY <2>1 DEF Done, Idle
<1>2. ASSUME NEW code, Break(r, code) PROVE FALSE
  BY <1>2, BrokenFields DEF Break
<1>3. ~PassEdge(r)
  BY StartPollFields, ListDueFields, StartPollingFields, StoppedFields DEF PassEdge
<1>4. ~PageWork(r) /\ ~Begin(r) /\ ~Confirm(r)
  BY <1>2, GoFields DEF PageWork, Prepare, MarkIntent, SubmitOnceInPage, SeePrompt,
                        Reattach, Collect, Begin, Confirm
<1>5. ASSUME NEW t \in Tasks, Reconcile(r, t) \/ ReconcileFails(r, t)
      PROVE  FALSE
  <2>1. PICK skip : Reconciled(r, t, skip)
    BY <1>5 DEF Reconcile, ReconcileFails
  <2>2. activity'[r].step = activity[r].step
    BY <2>1, PassedFields
  <2> QED
    BY <1>5, <2>2 DEF Reconcile, ReconcileFails, At
<1>6. ASSUME NEW t \in Tasks, Recover(r, t) \/ RecoverNeedsHuman(r, t)
      PROVE  FALSE
  BY <1>6, RecoverFields, RecoverNeedsHumanFields
<1>7. ~ClaimNext(r) /\ ~ResumeTask(r)
  <2>1. ASSUME NEW t, NEW step, NEW assist, NEW confirmed,
               WorkOn(r, t, step, assist, confirmed)
        PROVE  activity'[r].step = step
    BY <2>1, WorkOnFields
  <2> QED
    BY <2>1 DEF ClaimNext, ResumeTask
<1>8. /\ ~ResumeFails(r) /\ ~GiveUp(r) /\ ~CompleteTask(r) /\ ~Fail(r) /\ ~FailFails(r)
      /\ ~CallFails(r)
  BY <1>1, <1>2 DEF ResumeFails, GiveUp, CompleteTask, Fail, FailFails, CallFails
<1>9. ASSUME NEW code, OpenFails(r, code) \/ PageFails(r, code)
      PROVE  FALSE
  BY <1>2, <1>9, BrokenFields DEF OpenFails, PageFails
<1> QED
  BY <1>3, <1>4, <1>5, <1>6, <1>7, <1>8, <1>9
     DEF DeviceAction, PassStep, TaskStep, PassEdge, PageWork

LEMMA RecordIntentGives ==
  ASSUME TypeOK, DeviceInv, NEW r \in Runners, RecordIntent(r)
  PROVE  LET t == activity[r].task
         IN  /\ t \in Tasks /\ ~task[t].intent /\ ActiveLease(t, r, activity[r].generation)
             /\ task'[t].intent /\ task'[t].claimedBy = r
             /\ task'[t].session = journal[r][t].session
             /\ task'[t].confirmed = task[t].confirmed
<1> DEFINE t == activity[r].task
           session == journal[r][t].session
           row == [task[t] EXCEPT !.session = session, !.intent = TRUE]
<1>1. t \in Tasks /\ activity[r].step = "intent"
  BY DEF RecordIntent, At, DeviceInv, ActivitySound, WorkSteps
<1>2. RecordSubmitIntent(t, r, activity[r].generation, session) /\ refused' = "none"
  BY DEF RecordIntent, Answered, Serve, Request
<1>3. task[t] \in TaskRow /\ task \in [Tasks -> TaskRow]
  BY <1>1 DEF TypeOK
<1>4. /\ ActiveLease(t, r, activity[r].generation) /\ ~task[t].intent
      /\ task[t].claimedBy = r
  BY <1>2 DEF RecordSubmitIntent, ActiveRunnerLease, ActiveLease
<1>5. row.intent /\ row.claimedBy = r /\ row.confirmed = task[t].confirmed
      /\ row.session = session
  BY <1>3, <1>4 DEF TaskRow
<1>6. Commit("submit_intent", batch, [task EXCEPT ![t] = row])
  BY <1>2 DEF RecordSubmitIntent, UpdateOnly
<1> HIDE DEF row, session
<1>7. task'[t] = row
  <2>1. task' = [task EXCEPT ![t] = row]
    BY <1>2, <1>6 DEF Commit, CommitFrom
  <2> QED
    BY <1>1, <1>3, <2>1
<1> QED
  BY <1>1, <1>4, <1>5, <1>7 DEF session

\* Only submitOnce asks the page, and a device itself sends nothing.
LEMMA DeviceAsks ==
  ASSUME NEW r \in Runners, DeviceAction(r)
  PROVE  /\ UNCHANGED sent
         /\ \/ UNCHANGED asked
            \/ /\ activity[r].step = "ask"
               /\ asked' = asked \cup {<<r, activity[r].task>>}
<1>1. CASE SubmitOnceInPage(r)
  BY <1>1 DEF SubmitOnceInPage, At
<1>2. CASE PageIdle
  BY <1>2 DEF PageIdle
<1>3. PassEdge(r) => PageIdle
  BY DEF PassEdge, StartPoll, ListDue, StartPolling, EndPoll, Crash
<1>4. PageWork(r) => SubmitOnceInPage(r) \/ PageIdle
  BY DEF PageWork, Prepare, MarkIntent, SeePrompt, Reattach, Collect
<1>5. ASSUME NEW t, \/ Reconcile(r, t) \/ ReconcileFails(r, t) \/ Recover(r, t)
                    \/ RecoverNeedsHuman(r, t)
      PROVE  PageIdle
  BY <1>5 DEF Reconcile, ReconcileFails, Recover, RecoverNeedsHuman
<1>6. \/ ClaimNext(r) \/ ResumeTask(r) \/ ResumeFails(r) \/ GiveUp(r) \/ Begin(r)
      \/ RecordIntent(r) \/ Confirm(r) \/ CompleteTask(r) \/ CallFails(r) \/ Fail(r)
      \/ FailFails(r)
      => PageIdle
  BY DEF ClaimNext, ResumeTask, ResumeFails, GiveUp, Begin, RecordIntent, Confirm,
         CompleteTask, CallFails, Fail, FailFails
<1>7. ASSUME NEW code, OpenFails(r, code) \/ PageFails(r, code) PROVE PageIdle
  BY <1>7 DEF OpenFails, PageFails
<1> QED
  BY <1>1, <1>2, <1>3, <1>4, <1>5, <1>6, <1>7
     DEF DeviceAction, PassStep, TaskStep, PassEdge, PageWork

\* A committed task stays with its device through every step.
CommittedStay ==
  \A t \in Tasks : task[t].intent =>
    task'[t].intent /\ task'[t].claimedBy = task[t].claimedBy

LEMMA SendsKept ==
  ASSUME SendInv, CommittedStay, UNCHANGED <<activity, asked, sent>>, DeviceInv
  PROVE  SendInv'
<1>1. ASSUME NEW r \in Runners, activity[r].step = "ask"
      PROVE  activity[r].task \in Tasks
  BY <1>1 DEF DeviceInv, ActivitySound, WorkSteps
<1> QED
  BY <1>1 DEF SendInv, CommittedStay, Unsent

LEMMA DeviceSends ==
  ASSUME TypeOK, DeviceInv, SendInv, CommittedStay,
         NEW r \in Runners, DeviceAction(r), DeviceStep(r)
  PROVE  SendInv'
<1>1. ASSUME NEW s \in Runners, activity[s].step = "ask"
      PROVE  activity[s].task \in Tasks
  BY <1>1 DEF DeviceInv, ActivitySound, WorkSteps
<1>2. /\ UNCHANGED sent
      /\ \/ UNCHANGED asked
         \/ /\ activity[r].step = "ask"
            /\ asked' = asked \cup {<<r, activity[r].task>>}
  BY DeviceAsks
<1>3. \A t \in Tasks : Unsent(t, sent') <=> Unsent(t, sent)
  BY <1>2 DEF Unsent
<1>4. ASSUME NEW s \in Runners, NEW t \in Tasks, <<s, t>> \in asked'
      PROVE  task'[t].intent /\ task'[t].claimedBy = s /\ Unsent(t, sent')
  <2>1. task[t].intent /\ task[t].claimedBy = s /\ Unsent(t, sent)
    <3>1. CASE <<s, t>> \in asked
      BY <3>1 DEF SendInv
    <3>2. CASE <<s, t>> \notin asked
      <4>1. activity[r].step = "ask" /\ s = r /\ t = activity[r].task
        BY <1>2, <1>4, <3>2
      <4> QED
        BY <4>1 DEF SendInv
    <3> QED
      BY <3>1, <3>2
  <2> QED
    BY <1>3, <2>1 DEF CommittedStay
<1>5. ASSUME NEW s \in Runners, activity'[s].step = "ask"
      PROVE  /\ task'[activity'[s].task].intent /\ task'[activity'[s].task].claimedBy = s
             /\ <<s, activity'[s].task>> \notin asked'
             /\ Unsent(activity'[s].task, sent')
  <2>1. CASE s = r
    <3>1. RecordIntent(r)
      BY <1>5, <2>1, AskedAfterIntent
    <3> DEFINE t == activity[r].task
    <3>2. /\ t \in Tasks /\ ~task[t].intent /\ task'[t].intent /\ task'[t].claimedBy = r
      BY <3>1, RecordIntentGives
    <3>3. activity'[r].task = t /\ UNCHANGED asked
      BY <3>1, GoFields DEF RecordIntent, SameLease, SameWork, PageIdle
    <3>4. Unsent(t, sent) /\ <<r, t>> \notin asked
      <4>1. \A u \in Runners : sent[t][u] = 0
        BY <3>2 DEF SendInv
      <4> QED
        BY <3>2, <4>1 DEF SendInv, Unsent
    <3> HIDE DEF t
    <3>5. Unsent(t, sent')
      BY <1>2, <3>3, <3>4 DEF Unsent, t
    <3> QED
      BY <1>3, <2>1, <3>2, <3>3, <3>4
  <2>2. CASE s # r
    <3>1. activity'[s] = activity[s]
      BY <2>2, OthersStay
    <3> DEFINE t == activity[s].task
    <3>2. /\ t \in Tasks /\ task[t].intent /\ task[t].claimedBy = s
          /\ <<s, t>> \notin asked /\ Unsent(t, sent)
      BY <1>1, <1>5, <3>1 DEF SendInv
    <3>3. <<s, t>> \notin asked'
      BY <1>2, <2>2, <3>2
    <3> QED
      BY <1>3, <3>1, <3>2, <3>3 DEF CommittedStay
  <2> QED
    BY <2>1, <2>2
<1>6. ASSUME NEW s \in Runners, NEW t \in Tasks, sent'[t][s] # 0
      PROVE  task'[t].intent /\ task'[t].claimedBy = s /\ sent'[t][s] = 1
  BY <1>2, <1>6 DEF SendInv, CommittedStay
<1> QED
  BY <1>4, <1>5, <1>6 DEF SendInv


\* The page sends what it was asked for, and asks nobody for more.
LEMMA PageSendsOnce ==
  ASSUME DeviceInv, SendInv, NEW r \in Runners, NEW t \in Tasks,
         PageSends(r, t) \/ PageRefuses(r, t)
  PROVE  SendInv'
<1>1. /\ UNCHANGED <<task, activity>> /\ <<r, t>> \in asked
      /\ asked' = asked \ {<<r, t>>}
  BY DEF PageSends, PageRefuses, Local, vars
<1>2. CASE PageRefuses(r, t)
  BY <1>1, <1>2 DEF PageRefuses, SendInv, Unsent
<1>3. CASE PageSends(r, t)
  <2>1. task[t].intent /\ task[t].claimedBy = r /\ Unsent(t, sent)
    BY <1>1 DEF SendInv
  <2>2. /\ sent'[t][r] = 1
        /\ \A u \in Tasks, s \in Runners : <<s, u>> # <<r, t>> => sent'[u][s] = sent[u][s]
    <3>1. sent' = [sent EXCEPT ![t][r] = sent[t][r] + 1] /\ sent[t][r] = 0
      BY <1>3, <2>1 DEF PageSends, Unsent
    <3>2. sent \in [Tasks -> [Runners -> Nat]]
      BY DEF DeviceInv
    <3> QED
      BY <3>1, <3>2
  <2>3. ASSUME NEW u \in Tasks, u # t, Unsent(u, sent) PROVE Unsent(u, sent')
    BY <2>2, <2>3 DEF Unsent
  <2>4. ASSUME NEW s \in Runners, NEW u \in Tasks, <<s, u>> \in asked'
        PROVE  task[u].intent /\ task[u].claimedBy = s /\ Unsent(u, sent')
    <3>1. <<s, u>> \in asked /\ <<s, u>> # <<r, t>>
      BY <1>1, <2>4
    <3>2. task[u].intent /\ task[u].claimedBy = s /\ Unsent(u, sent)
      BY <3>1 DEF SendInv
    <3>3. u # t
      BY <2>1, <3>1, <3>2
    <3> QED
      BY <2>3, <3>2, <3>3
  <2>5. ASSUME NEW s \in Runners, activity[s].step = "ask"
        PROVE  LET u == activity[s].task
               IN  /\ task[u].intent /\ task[u].claimedBy = s
                   /\ <<s, u>> \notin asked' /\ Unsent(u, sent')
    <3> DEFINE u == activity[s].task
    <3>1. u \in Tasks
      BY <2>5 DEF DeviceInv, ActivitySound, WorkSteps
    <3>2. /\ task[u].intent /\ task[u].claimedBy = s
          /\ <<s, u>> \notin asked /\ Unsent(u, sent)
      BY <2>5 DEF SendInv
    <3>3. u # t
      BY <1>1, <2>1, <3>2
    <3> HIDE DEF u
    <3>4. Unsent(u, sent') /\ <<s, u>> \notin asked'
      BY <1>1, <2>3, <3>1, <3>2, <3>3
    <3> QED
      BY <3>2, <3>4 DEF u
  <2>6. ASSUME NEW s \in Runners, NEW u \in Tasks, sent'[u][s] # 0
        PROVE  task[u].intent /\ task[u].claimedBy = s /\ sent'[u][s] = 1
    <3>1. CASE <<s, u>> = <<r, t>>
      BY <2>1, <2>2, <3>1
    <3>2. CASE <<s, u>> # <<r, t>>
      BY <2>2, <2>6, <3>2 DEF SendInv
    <3> QED
      BY <3>1, <3>2
  <2> QED
    BY <1>1, <2>4, <2>5, <2>6 DEF SendInv
<1> QED
  BY <1>2, <1>3

LEMMA SendInductive ==
  ASSUME WorkInv, SendInv, [ExtNext]_extVars
  PROVE  SendInv' /\ CommittedStay
<1>1. [Next]_vars /\ WorkInv'
  BY WorkInductive
<1>2. CommittedStay
  BY <1>1, NextKeeps DEF WorkInv, RowsInv, CustodyStep, Kept, CommittedStay
<1>3. ASSUME NEW r \in Runners, DeviceAction(r)
      PROVE  SendInv'
  <2>1. TypeOK /\ TypeOK' /\ DeviceInv /\ RowsLater
    BY <1>1, RowsMoveLater DEF WorkInv
  <2>2. DeviceStep(r)
    BY <1>3, <2>1, DeviceActionStep
  <2> QED
    BY <1>2, <1>3, <2>1, <2>2, DeviceSends
<1>4. ASSUME NEW r \in Runners, NEW t \in Tasks, PageSends(r, t) \/ PageRefuses(r, t)
      PROVE  SendInv'
  BY <1>4, PageSendsOnce DEF WorkInv
<1>5. CASE Elsewhere
  <2>1. UNCHANGED <<activity, asked, sent>>
    BY <1>5, ElsewhereMoves DEF WorkInv
  <2> QED
    BY <1>2, <2>1, SendsKept DEF WorkInv
<1> QED
  BY <1>2, <1>3, <1>4, <1>5, ExtNextCases

LEMMA InitSends == ASSUME ExtInit PROVE SendInv
BY DEF ExtInit, SendInv, Idle

-----------------------------------------------------------------------------
(* The devices implement SubmitOnce *)

IntentsStay == \A t \in Tasks : task'[t].intent = task[t].intent

\* Whatever makes no commitment and sends nothing at most closes tasks.
LEMMA OnlyCloses ==
  ASSUME TypeOK, TypeOK', \A t \in Tasks : Evolves(task[t], task'[t]),
         CommittedStay, IntentsStay, UNCHANGED sent
  PROVE  Abstract!Close
<1> DEFINE Out(rows) == [t \in Tasks |-> IF rows[t].status \in TerminalStatuses
                                         THEN rows[t].status ELSE "open"]
           By(rows) == [t \in Tasks |-> IF rows[t].intent THEN rows[t].claimedBy
                                        ELSE Nobody]
<1>1. By(task') = By(task)
  BY DEF CommittedStay, IntentsStay
<1>2. Out(task') \in [Tasks -> {"open", "succeeded", "failed", "cancelled"}]
  BY DEF TerminalStatuses
<1>3. ASSUME NEW t \in Tasks, Out(task')[t] # Out(task)[t]
      PROVE  /\ Out(task)[t] = "open"
             /\ Out(task')[t] \in {"succeeded", "failed"} \cup
                                  (IF By(task)[t] = Nobody THEN {"cancelled"} ELSE {})
  <2>1. task[t].status \notin TerminalStatuses /\ task'[t].status \in TerminalStatuses
    BY <1>3 DEF Evolves
  <2>2. task'[t].status = "cancelled" => ~task[t].intent
    BY <2>1 DEF Evolves
  <2> QED
    BY <2>1, <2>2 DEF TerminalStatuses
<1> QED
  BY <1>1, <1>2, <1>3 DEF Abstract!Close, Abstract!Ends

\* The device's intent is the commitment.
LEMMA IntentIsCommit ==
  ASSUME TypeOK, NEW r \in Runners, NEW t \in Tasks, NEW g, NEW s,
         RecordSubmitIntent(t, r, g, s), UNCHANGED sent
  PROVE  UNCHANGED task \/ Abstract!Commit(t, r)
<1> DEFINE row == [task[t] EXCEPT !.session = s, !.intent = TRUE]
<1>1. Commit("submit_intent", batch, [task EXCEPT ![t] = row])
  BY DEF RecordSubmitIntent, UpdateOnly
<1>2. task[t] \in TaskRow /\ task \in [Tasks -> TaskRow]
  BY DEF TypeOK
<1>3. task[t].status = "claimed" /\ task[t].claimedBy = r /\ ~task[t].intent
  BY DEF RecordSubmitIntent, ActiveRunnerLease, ActiveLease
<1>4. row.intent /\ row.claimedBy = r /\ row.status = "claimed"
  BY <1>2, <1>3 DEF TaskRow
<1> HIDE DEF row
<1>5. CASE UNCHANGED task
  BY <1>5
<1>6. CASE task' = [task EXCEPT ![t] = row]
  <2>1. task'[t] = row /\ \A u \in Tasks \ {t} : task'[u] = task[u]
    BY <1>2, <1>6
  <2>2. \A u \in Tasks : task'[u].status = task[u].status
    BY <1>3, <1>4, <2>1
  <2>3. task[t].status \notin TerminalStatuses
    BY <1>3 DEF TerminalStatuses
  <2> QED
    BY <1>3, <1>4, <2>1, <2>2, <2>3 DEF Abstract!Commit
<1> QED
  BY <1>1, <1>5, <1>6 DEF Commit, CommitFrom

LEMMA ConfirmKeepsIntents ==
  ASSUME TypeOK, NEW t \in Tasks, NEW r, NEW g, NEW s, ConfirmSubmitted(t, r, g, s)
  PROVE  IntentsStay
<1> DEFINE row == [task[t] EXCEPT !.confirmed = TRUE]
<1>1. Commit("submit_confirmed", batch, [task EXCEPT ![t] = row])
  BY DEF ConfirmSubmitted, UpdateOnly
<1>2. task[t] \in TaskRow /\ task \in [Tasks -> TaskRow]
  BY DEF TypeOK
<1>3. row.intent = task[t].intent
  BY <1>2 DEF TaskRow
<1> HIDE DEF row
<1> QED
  BY <1>1, <1>2, <1>3 DEF Commit, CommitFrom, IntentsStay

\* The portal's rows move as the promise allows while no page sends anything.
LEMMA RowsRefine ==
  ASSUME WorkInv, [Next]_vars, UNCHANGED sent
  PROVE  [Abstract!Next]_Abstract!vars
<1>1. TypeOK /\ TypeOK'
  BY RowsMoveLater DEF WorkInv
<1>2. CommittedStay
  BY NextKeeps DEF WorkInv, RowsInv, CustodyStep, Kept, CommittedStay
<1>3. \A t \in Tasks : Evolves(task[t], task'[t])
  <2>1. CASE Next
    BY <2>1, NextSound DEF WorkInv, SoundStep
  <2>2. CASE UNCHANGED vars
    BY <2>2 DEF vars, Evolves
  <2> QED
    BY <2>1, <2>2
<1>4. CASE IntentsStay
  <2>1. Abstract!Close
    BY <1>1, <1>2, <1>3, <1>4, OnlyCloses
  <2> QED
    BY <2>1 DEF Abstract!Next
<1>5. Quiet => IntentsStay
  BY DEF Quiet, SameSubmission, IntentsStay
<1>6. ASSUME NEW r \in Runners, NEW t \in Tasks, NEW g, NEW s,
             RecordSubmitIntent(t, r, g, s)
      PROVE  [Abstract!Next]_Abstract!vars
  <2>1. UNCHANGED task => IntentsStay
    BY DEF IntentsStay
  <2>2. CASE Abstract!Commit(t, r)
    BY <2>2 DEF Abstract!Next
  <2> QED
    BY <1>1, <1>4, <1>6, <2>1, <2>2, IntentIsCommit
<1>7. ASSUME NEW t \in Tasks, NEW r, NEW g, NEW s, ConfirmSubmitted(t, r, g, s)
      PROVE  IntentsStay
  BY <1>1, <1>7, ConfirmKeepsIntents
<1> QED
  BY <1>1, <1>4, <1>5, <1>6, <1>7, NextQuiet

\* The page's click is the sending, by the device that is committed.
LEMMA ClickIsSend ==
  ASSUME DeviceInv, SendInv, NEW r \in Runners, NEW t \in Tasks, PageSends(r, t)
  PROVE  Abstract!Send(t)
<1>1. /\ UNCHANGED task /\ <<r, t>> \in asked
      /\ sent' = [sent EXCEPT ![t][r] = sent[t][r] + 1]
  BY DEF PageSends, Local, vars
<1>2. task[t].intent /\ task[t].claimedBy = r /\ \A s \in Runners : sent[t][s] = 0
  BY <1>1 DEF SendInv, Unsent
<1>3. sent' = [sent EXCEPT ![t][r] = 1]
  <2>1. sent[t][r] + 1 = 1
    BY <1>2
  <2> QED
    BY <1>1, <2>1, Zenon
<1>4. r # Nobody
  BY ClientsAssumption DEF Clients
<1> QED
  BY <1>1, <1>2, <1>3, <1>4 DEF Abstract!Send

\* A prompt is sent at most once, by the one device whose intent was durable in
\* the portal before, and a task that was committed is never cancelled.
THEOREM SentAtMostOnce == ExtSpec => SendsAtMostOnce
<1>1. ExtInit => Abstract!Init
  BY DEF ExtInit, Init, Abstract!Init, TerminalStatuses
<1>2. WorkInv /\ SendInv /\ [ExtNext]_extVars => [Abstract!Next]_Abstract!vars
  <2> SUFFICES ASSUME WorkInv, SendInv, [ExtNext]_extVars
               PROVE  [Abstract!Next]_Abstract!vars
    OBVIOUS
  <2>1. CASE UNCHANGED sent
    BY <2>1, WorkInductive, RowsRefine
  <2>2. ASSUME NEW r \in Runners, NEW t \in Tasks, PageSends(r, t) \/ PageRefuses(r, t)
        PROVE  [Abstract!Next]_Abstract!vars
    <3>1. CASE PageSends(r, t)
      BY <3>1, ClickIsSend DEF Abstract!Next, WorkInv
    <3>2. CASE PageRefuses(r, t)
      BY <2>1, <3>2 DEF PageRefuses
    <3> QED
      BY <2>2, <3>1, <3>2
  <2>3. ASSUME NEW r \in Runners, DeviceAction(r) PROVE UNCHANGED sent
    BY <2>3, DeviceAsks
  <2>4. Elsewhere => UNCHANGED sent
    BY ElsewhereMoves DEF WorkInv
  <2> QED
    BY <2>1, <2>2, <2>3, <2>4, ExtNextCases
<1>3. ExtSpec => []SendInv
  <2>1. ExtInit => SendInv
    BY InitSends
  <2>2. WorkInv /\ SendInv /\ [ExtNext]_extVars => SendInv'
    BY SendInductive
  <2> QED
    BY <2>1, <2>2, ExtensionWorks, PTL DEF ExtSpec
<1> QED
  BY <1>1, <1>2, <1>3, ExtensionWorks, PTL DEF ExtSpec, SendsAtMostOnce, Abstract!Spec

=============================================================================
