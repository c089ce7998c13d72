-------------------------- MODULE ExtensionRunner --------------------------
(***************************************************************************)
(* The browser extension of apps/browser-extension at work: its durable    *)
(* task journal, the coordinator that reconciles, recovers and polls, and  *)
(* the task runner that drives the page, together with the transactions of *)
(* DeliveryRunner that their calls run in the portal.                      *)
(*                                                                         *)
(* A call that is answered runs its transaction and hands the answer to    *)
(* the device in one step.  A call that fails (rejected, timed out after   *)
(* 15 s, cut off by a crash) either has no effect, or leaves its request   *)
(* in flight: it is served later, or never.  A crash between a transaction *)
(* and what the device does with the answer is a crash that leaves the     *)
(* request in flight.  Local storage does not fail.  A device has one      *)
(* surface and works on one task at a time; delays are nondeterministic.   *)
(***************************************************************************)
EXTENDS DeliveryRunner

CONSTANTS
  NoTask,         \* no task is being worked on
  NoEntry,        \* no journal entry
  BlockingCodes,  \* failures of the whole platform: no automatic recovery
  MaxInFlight,    \* bound: requests in flight at one time
  MaxRestarts     \* bound: crashes of workers

\* Stands for every code the device makes up itself that neither lets the
\* server retry nor blocks automatic recovery: post_submit_unknown,
\* durable_submit_intent_requires_resume, resume_claim_mismatch, ...
UnknownCode == "post_submit_unknown"

\* The session of an entry is the random one drawn when the entry is made.
SessionOf(r, g) == <<r, g>>

\* The codes the operator recoveries repair are those of an older runner: no
\* extension reports them, so a batch of extensions is never requeued as a whole.
ASSUME ExtensionCodesAssumption ==
  /\ UnknownCode \in FailureCodes
  /\ BlockingCodes \subseteq FailureCodes \ {UnknownCode}
  /\ FailureCodes \cap {SafeTransportRecoveryCode, DedicatedProfileBusyCode} = {}
ASSUME ExtensionSessionsAssumption ==
  \A r \in Runners, g \in 1..MaxGeneration : SessionOf(r, g) \in Sessions
ASSUME ExtensionBoundsAssumption == MaxInFlight \in Nat /\ MaxRestarts \in Nat
ASSUME NoTaskAssumption == NoTask \notin Tasks

VARIABLES
  journal,   \* journal[r][t]: the entry in the device's storage
  activity,  \* activity[r]: what the extension's worker is doing
  asked,     \* <<r, t>>: the page was told to submit and has not clicked yet
  sent,      \* sent[t][r]: clicks on the send button, by device
  inflight,  \* requests nobody waits for any more
  restarts   \* crashes so far

deviceVars == <<journal, activity, asked, sent, inflight, restarts>>

extVars == <<vars, deviceVars>>

EntryPhases == {"claimed", "prepared", "submit_intent", "submitted", "collected"}

\* phase is interruptedPhase while the entry waits for a human (needs_human);
\* uploaded, which nothing tells from collected, is collected.  contacts is a
\* history variable: the resume calls automatic recovery made for the entry.
Entry ==
  [phase : EntryPhases,
   waiting : BOOLEAN,
   session : Sessions,
   blocking : BOOLEAN,
   tries : 0..2,
   contacts : Nat]

ASSUME NoEntryAssumption == NoEntry \notin Entry

Steps ==
  {"idle", "reconcile", "recover", "resume", "give_up", "claim", "begin",
   "prepare", "mark", "intent", "ask", "page", "reattach", "confirm",
   "collect", "complete", "fail"}

Idle ==
  [step |-> "idle", mode |-> "poll", task |-> NoTask, generation |-> 0,
   assist |-> FALSE, confirmed |-> FALSE, todo |-> {}, skipped |-> {},
   stage |-> "pre_submit", code |-> NoCode]

\* A request as the server gets it; a field an operation does not use is null.
Request(op, r, a) ==
  [op |-> op, runner |-> r, task |-> a.task, generation |-> a.generation,
   session |-> IF op \in {"intent", "confirm"} THEN journal[r][a.task].session
               ELSE NoSession,
   stage |-> a.stage, code |-> a.code]

ExtTypeOK ==
  /\ TypeOK
  /\ journal \in [Runners -> [Tasks -> Entry \cup {NoEntry}]]
  /\ \A r \in Runners :
       /\ activity[r].step \in Steps
       /\ activity[r].mode \in {"poll", "auto", "manual"}
       /\ activity[r].task \in Tasks \cup {NoTask}
       /\ activity[r].todo \subseteq Tasks /\ activity[r].skipped \subseteq Tasks
  /\ asked \subseteq Runners \X Tasks
  /\ sent \in [Tasks -> [Runners -> Nat]]
  /\ Cardinality(inflight) <= MaxInFlight
  /\ restarts \in 0..MaxRestarts

ExtInit ==
  /\ Init
  /\ journal = [r \in Runners |-> [t \in Tasks |-> NoEntry]]
  /\ activity = [r \in Runners |-> Idle]
  /\ asked = {}
  /\ sent = [t \in Tasks |-> [r \in Runners |-> 0]]
  /\ inflight = {}
  /\ restarts = 0

-----------------------------------------------------------------------------
(* The journal *)

Journaled(r) == {t \in Tasks : journal[r][t] # NoEntry}

PostSubmit(phase) == phase \in {"submit_intent", "submitted", "collected"}

\* phaseAtOrAfterIntent: an entry that waits counts, whatever was interrupted.
AtOrAfterIntent(entry) == entry.waiting \/ PostSubmit(entry.phase)

NewEntry(session) ==
  [phase |-> "claimed", waiting |-> FALSE, session |-> session,
   blocking |-> FALSE, tries |-> 0, contacts |-> 0]

Write(r, t, entry) == journal' = [journal EXCEPT ![r][t] = entry]

Remove(r, t) == Write(r, t, NoEntry)

Advanced(entry, phase) == [entry EXCEPT !.phase = phase]

NeedsHuman(entry, code) ==
  [entry EXCEPT !.waiting = TRUE, !.blocking = code \in BlockingCodes]

\* The server says on which side of the submission the task stopped.
Aligned(entry, post) ==
  [entry EXCEPT !.waiting = TRUE,
                !.phase = IF post = PostSubmit(@) THEN @
                          ELSE IF post THEN "submit_intent" ELSE "claimed"]

\* Mutant: recovery never runs out of attempts.
AlwaysRecoverable(r) ==
  {t \in Journaled(r) : /\ journal[r][t].waiting
                        /\ PostSubmit(journal[r][t].phase)
                        /\ ~journal[r][t].blocking}

\* Entries automatic recovery may take up, once their delay has passed.
Recoverable(r) ==
  {t \in Journaled(r) :
     LET entry == journal[r][t]
     IN  /\ entry.waiting
         /\ PostSubmit(entry.phase)
         /\ ~entry.blocking
         /\ entry.tries < 2}

-----------------------------------------------------------------------------
(* Calls *)

\* The transaction a request runs when the server gets it.
Serve(q) ==
  \/ q.op = "reconcile" /\ ReconcileTask(q.runner, q.task)
  \/ q.op = "claim" /\ ClaimTask(q.runner)
  \/ q.op = "resume" /\ Resume(q.runner, q.task)
  \/ q.op = "intent" /\ RecordSubmitIntent(q.task, q.runner, q.generation, q.session)
  \/ q.op = "confirm" /\ ConfirmSubmitted(q.task, q.runner, q.generation, q.session)
  \/ q.op = "complete" /\ Complete(q.task, q.runner, q.generation)
  \/ q.op = "fail" /\ RecordFailure(q.task, q.runner, q.generation, q.stage, q.code)
  \/ q.op = "heartbeat" /\ Heartbeat(q.task, q.runner, q.generation)

\* The device's call op is served and answered.
Answered(op, r) ==
  /\ Serve(Request(op, r, activity[r]))
  /\ refused' = "none"
  /\ UNCHANGED <<inflight, restarts>>

\* The device's call op fails.  The caller says what the device does then.
Unanswered(op, r) ==
  /\ \/ inflight' = inflight
     \/ /\ Cardinality(inflight) < MaxInFlight
        /\ inflight' = inflight \cup {Request(op, r, activity[r])}
  /\ UNCHANGED <<vars, restarts>>

\* A step of the device that calls nobody.
Local == UNCHANGED <<vars, inflight, restarts>>

PageIdle == UNCHANGED <<asked, sent>>

At(r, step) == activity[r].step = step

Go(r, step) == activity' = [activity EXCEPT ![r].step = step]

\* What the worker turns to when its work on a task has ended.  Only a poll
\* looks at the result: it stops at one that says the surface is in trouble.
After(r, stop) ==
  LET a == activity[r]
  IN  activity' = [activity EXCEPT ![r] =
        IF a.mode = "auto"
        THEN [Idle EXCEPT !.step = "recover", !.todo = a.todo, !.skipped = a.skipped]
        ELSE [Idle EXCEPT !.step = IF a.mode = "poll" /\ ~stop THEN "claim"
                                   ELSE "idle"]]

-----------------------------------------------------------------------------
(* One pass of the coordinator: reconcile the journal, recover, poll *)

\* runOnce, unless the worker is busy.  The entries are read once.
StartPoll(r) ==
  /\ At(r, "idle")
  /\ activity' = [activity EXCEPT ![r] = [Idle EXCEPT !.step = "reconcile",
                                                      !.todo = Journaled(r)]]
  /\ UNCHANGED journal /\ PageIdle /\ Local

\* The entry's task and what the server answers about it.  The web service
\* answers only about tasks that carry the device's name, whatever their state.
Answer(r, t) ==
  IF task[t].claimedBy # r THEN "rejected"
  ELSE ReconcileExactTask(task[t], r, now)

\* The pass goes on to the next entry; skipped ones block their surface.
Reconciled(r, t, skip) ==
  activity' = [activity EXCEPT ![r].todo = @ \ {t},
                               ![r].skipped = IF skip THEN @ \cup {t} ELSE @]

\* The answer parks the device's own expired claim, or changes nothing.
ServeReconciliation(r, t) ==
  \/ ReconcileTask(r, t)
  \/ /\ ~(task[t].status = "claimed"
            /\ Answer(r, t) \in {"resumable_pre", "resumable_post"})
     /\ UNCHANGED vars

\* An answer about another session than the entry's is not acted on.
Skips(r, t) ==
  \/ Answer(r, t) \in {"active", "blocked"}
  \/ Answer(r, t) = "resumable_post" /\ task[t].session # journal[r][t].session

Settles(r, t) == Answer(r, t) \in {"terminal", "released"}

\* Mutant: the entry of a finished task stays in the journal.
ReconcileKeepsTerminal(r, t) ==
  /\ At(r, "reconcile") /\ t \in activity[r].todo
  /\ Answer(r, t) # "rejected"
  /\ ServeReconciliation(r, t)
  /\ IF Answer(r, t) = "released" THEN Remove(r, t)
     ELSE IF Skips(r, t) \/ Settles(r, t) THEN UNCHANGED journal
     ELSE Write(r, t, Aligned(journal[r][t], Answer(r, t) = "resumable_post"))
  /\ Reconciled(r, t, Skips(r, t))
  /\ UNCHANGED <<inflight, restarts>> /\ PageIdle

Reconcile(r, t) ==
  /\ At(r, "reconcile") /\ t \in activity[r].todo
  /\ Answer(r, t) # "rejected"
  /\ ServeReconciliation(r, t)
  /\ IF Settles(r, t) THEN Remove(r, t)
     ELSE IF Skips(r, t) THEN UNCHANGED journal
     ELSE Write(r, t, Aligned(journal[r][t], Answer(r, t) = "resumable_post"))
  /\ Reconciled(r, t, Skips(r, t))
  /\ UNCHANGED <<inflight, restarts>> /\ PageIdle

\* A rejected or failed reconciliation.  Its request may come through later.
ReconcileFails(r, t) ==
  /\ At(r, "reconcile") /\ t \in activity[r].todo
  /\ Reconciled(r, t, TRUE)
  /\ \/ inflight' = inflight
     \/ /\ Cardinality(inflight) < MaxInFlight
        /\ inflight' = inflight \cup
             {Request("reconcile", r, [activity[r] EXCEPT !.task = t])}
  /\ UNCHANGED <<vars, journal, restarts>> /\ PageIdle

\* The list of due entries is made once; whether a delay has passed is open.
ListDue(r) ==
  /\ At(r, "reconcile") /\ activity[r].todo = {}
  /\ \E due \in SUBSET (Recoverable(r) \ activity[r].skipped) :
       activity' = [activity EXCEPT ![r].step = "recover", ![r].todo = due]
  /\ UNCHANGED journal /\ PageIdle /\ Local

\* Mutant: the attempt is not recorded before the portal is called.
RecoverUnrecorded(r, t) ==
  /\ At(r, "recover") /\ t \in activity[r].todo
  /\ Write(r, t, [journal[r][t] EXCEPT !.contacts = @ + 1])
  /\ activity' = [activity EXCEPT ![r] =
       [activity[r] EXCEPT !.step = "resume", !.mode = "auto", !.task = t,
                           !.todo = @ \ {t}]]
  /\ PageIdle /\ Local

\* The attempt is durable before the portal is called.
Recover(r, t) ==
  /\ At(r, "recover") /\ t \in activity[r].todo
  /\ Write(r, t, [journal[r][t] EXCEPT !.tries = @ + 1, !.contacts = @ + 1])
  /\ activity' = [activity EXCEPT ![r] =
       [activity[r] EXCEPT !.step = "resume", !.mode = "auto", !.task = t,
                           !.todo = @ \ {t}]]
  /\ PageIdle /\ Local

\* An operator presses the button of a waiting entry.
RecoverNeedsHuman(r, t) ==
  /\ At(r, "idle")
  /\ journal[r][t] # NoEntry /\ journal[r][t].waiting
  /\ activity' = [activity EXCEPT ![r] =
       [Idle EXCEPT !.step = "resume", !.mode = "manual", !.task = t]]
  /\ UNCHANGED journal /\ PageIdle /\ Local

\* Mutant: entries that were skipped do not block their surface.
StartPollingAnyway(r) ==
  /\ At(r, "recover") /\ activity[r].todo = {}
  /\ activity' = [activity EXCEPT ![r] = [Idle EXCEPT !.step = "claim"]]
  /\ UNCHANGED journal /\ PageIdle /\ Local

\* The surface is polled only if no entry of it was skipped.
StartPolling(r) ==
  /\ At(r, "recover") /\ activity[r].todo = {}
  /\ activity' = [activity EXCEPT ![r] =
       [Idle EXCEPT !.step = IF activity[r].skipped = {} THEN "claim" ELSE "idle"]]
  /\ UNCHANGED journal /\ PageIdle /\ Local

-----------------------------------------------------------------------------
(* Claims and resumes *)

WorkOn(r, t, step, assist, confirmed) ==
  activity' = [activity EXCEPT ![r] =
    [@ EXCEPT !.step = step, !.task = t, !.generation = task'[t].generation,
              !.assist = assist, !.confirmed = confirmed]]

ClaimNext(r) ==
  /\ At(r, "claim")
  /\ \E t \in Tasks, parked \in SUBSET (ExpiredRunnerClaims \cup Exhausted) :
       /\ Claim(r, t, parked)
       /\ refused' = "none"
       /\ WorkOn(r, t, "begin", FALSE, FALSE)
  /\ UNCHANGED <<journal, inflight, restarts>> /\ PageIdle

\* No task is free, the poll has had its fill, or the call fails: it ends.
EndPoll(r) ==
  /\ At(r, "claim")
  /\ activity' = [activity EXCEPT ![r] = Idle]
  /\ \/ /\ \E parked \in SUBSET (ExpiredRunnerClaims \cup Exhausted) :
             ClaimNothing(parked)
        /\ UNCHANGED <<inflight, restarts>>
     \/ Unanswered("claim", r)
  /\ UNCHANGED journal /\ PageIdle

\* A resumed lease that fits the entry.  Before the submission the entry starts
\* over; after it, an entry that thought otherwise learns of the submission.
ResumedEntry(entry, t) ==
  IF ~task[t].intent THEN [entry EXCEPT !.phase = "claimed", !.waiting = FALSE]
  ELSE IF PostSubmit(entry.phase) THEN entry
  ELSE Advanced(entry, IF task[t].confirmed THEN "submitted" ELSE "submit_intent")

ResumeFits(r, t) ==
  IF task[t].intent THEN task[t].session = journal[r][t].session
  ELSE activity[r].mode # "auto"

ResumeTask(r) ==
  LET t == activity[r].task
  IN  /\ At(r, "resume")
      /\ Answered("resume", r)
      /\ \/ /\ ResumeFits(r, t)
            /\ Write(r, t, ResumedEntry(journal[r][t], t))
            /\ WorkOn(r, t, "begin", task[t].intent, task[t].confirmed)
         \/ \* it does not fit, or its tab is gone
            /\ UNCHANGED journal
            /\ WorkOn(r, t, "give_up", task[t].intent, task[t].confirmed)
      /\ PageIdle

\* The result is written over the entry's failure code.
Remember(r, t) ==
  IF journal[r][t] # NoEntry /\ journal[r][t].waiting
  THEN Write(r, t, NeedsHuman(journal[r][t], UnknownCode))
  ELSE UNCHANGED journal

ResumeFails(r) ==
  /\ At(r, "resume")
  /\ Unanswered("resume", r)
  /\ Remember(r, activity[r].task)
  /\ After(r, FALSE)
  /\ PageIdle

FailureStage(post) == IF post THEN "post_submit" ELSE "pre_submit"

\* The new lease is failed; whether that reaches the server is ignored.
GiveUp(r) ==
  LET a == activity[r]
      q == [Request("fail", r, a) EXCEPT !.stage = FailureStage(a.assist),
                                         !.code = UnknownCode]
  IN  /\ At(r, "give_up")
      /\ \/ Serve(q) /\ UNCHANGED inflight
         \/ UNCHANGED <<vars, inflight>>
         \/ /\ Cardinality(inflight) < MaxInFlight
            /\ inflight' = inflight \cup {q}
            /\ UNCHANGED vars
      /\ Remember(r, a.task)
      /\ After(r, FALSE)
      /\ UNCHANGED restarts /\ PageIdle

-----------------------------------------------------------------------------
(* runClaimedTask: one leased task, from the tab to the completion *)

\* The worker gives the task up: the entry waits for a human, with what was
\* interrupted, and the failure is reported under the stage the entry proves.
Break(r, code) ==
  LET t == activity[r].task
      entry == journal[r][t]
      post == entry # NoEntry /\ AtOrAfterIntent(entry)
  IN  /\ IF entry = NoEntry THEN UNCHANGED journal
         ELSE Write(r, t, NeedsHuman(entry, code))
      /\ activity' = [activity EXCEPT ![r] =
           [@ EXCEPT !.step = "fail", !.stage = FailureStage(post), !.code = code]]

\* An entry at or after the intent is only ever reattached, under a lease that
\* says so; it is never started over.
Begin(r) ==
  LET t == activity[r].task
      entry == journal[r][t]
      old == entry # NoEntry /\ AtOrAfterIntent(entry)
  IN  /\ At(r, "begin")
      /\ IF old /\ ~activity[r].assist THEN Break(r, UnknownCode)
         ELSE IF old
         THEN /\ Write(r, t, [entry EXCEPT !.phase = "submit_intent",
                                           !.waiting = FALSE])
              /\ Go(r, "reattach")
         ELSE /\ IF entry = NoEntry
                 THEN Write(r, t, NewEntry(SessionOf(r, activity[r].generation)))
                 ELSE UNCHANGED journal
              /\ Go(r, "prepare")
      /\ PageIdle /\ Local

\* A tab that opens and does not get ready leaves an entry.
OpenFails(r, code) ==
  LET t == activity[r].task
  IN  /\ At(r, "begin")
      /\ journal[r][t] = NoEntry
      /\ \/ UNCHANGED journal
         \/ Write(r, t, NeedsHuman(NewEntry(SessionOf(r, activity[r].generation)), code))
      /\ activity' = [activity EXCEPT ![r] =
           [@ EXCEPT !.step = "fail", !.stage = "pre_submit", !.code = code]]
      /\ PageIdle /\ Local

\* Preflight, a new conversation and the prompt in its box.
Prepare(r) ==
  LET t == activity[r].task
  IN  /\ At(r, "prepare")
      /\ Write(r, t, Advanced(journal[r][t], "prepared"))
      /\ Go(r, "mark")
      /\ PageIdle /\ Local

\* Mutant: the intent is not in the journal when the server records it.
MarkNothing(r) ==
  /\ At(r, "mark")
  /\ Go(r, "intent")
  /\ UNCHANGED journal /\ PageIdle /\ Local

MarkIntent(r) ==
  LET t == activity[r].task
  IN  /\ At(r, "mark")
      /\ Write(r, t, Advanced(journal[r][t], "submit_intent"))
      /\ Go(r, "intent")
      /\ PageIdle /\ Local

\* Mutant: the page is told to submit without the server's record of the intent.
SkipIntent(r) ==
  /\ At(r, "intent")
  /\ Go(r, "ask")
  /\ UNCHANGED journal /\ PageIdle /\ Local

RecordIntent(r) ==
  /\ At(r, "intent")
  /\ Answered("intent", r)
  /\ Go(r, "ask")
  /\ UNCHANGED journal /\ PageIdle

\* submitOnce: a message to the content script, which clicks by itself.
SubmitOnceInPage(r) ==
  /\ At(r, "ask")
  /\ asked' = asked \cup {<<r, activity[r].task>>}
  /\ Go(r, "page")
  /\ UNCHANGED <<journal, sent>> /\ Local

\* The prompt shows in the conversation.
SeePrompt(r) ==
  LET t == activity[r].task
  IN  /\ At(r, "page")
      /\ sent[t][r] > 0
      /\ Go(r, "confirm")
      /\ UNCHANGED journal /\ PageIdle /\ Local

\* The conversations of the device that show the prompt of t.  The tasks are
\* samples of one prompt; an operator's recovery takes the tab the operator has
\* active, which may show another sample.
Shown(r, t) ==
  {u \in Tasks : /\ sent[u][r] > 0
                 /\ u = t \/ activity[r].mode = "manual"}

\* resumeSubmitted: the exact prompt is found, and collected if it is confirmed.
Reattach(r) ==
  LET t == activity[r].task
  IN  /\ At(r, "reattach")
      /\ Shown(r, t) # {}
      /\ IF activity[r].confirmed
         THEN /\ Write(r, t, Advanced(journal[r][t], "submitted"))
              /\ Go(r, "collect")
         ELSE UNCHANGED journal /\ Go(r, "confirm")
      /\ PageIdle /\ Local

Confirm(r) ==
  LET t == activity[r].task
  IN  /\ At(r, "confirm")
      /\ Answered("confirm", r)
      /\ Write(r, t, Advanced(journal[r][t], "submitted"))
      /\ Go(r, "collect")
      /\ PageIdle

Collect(r) ==
  LET t == activity[r].task
  IN  /\ At(r, "collect")
      /\ Write(r, t, Advanced(journal[r][t], "collected"))
      /\ Go(r, "complete")
      /\ PageIdle /\ Local

CompleteTask(r) ==
  /\ At(r, "complete")
  /\ Answered("complete", r)
  /\ Remove(r, activity[r].task)
  /\ After(r, FALSE)
  /\ PageIdle

\* The page fails, with a code of its own.
PageFails(r, code) ==
  /\ \/ activity[r].step \in {"prepare", "ask", "page", "reattach", "collect"}
     \/ At(r, "begin") /\ journal[r][activity[r].task] # NoEntry
  /\ Break(r, code)
  /\ PageIdle /\ Local

\* A failed call of the device.
CallFails(r) ==
  /\ activity[r].step \in {"intent", "confirm", "complete"}
  /\ Unanswered(activity[r].step, r)
  /\ Break(r, UnknownCode)
  /\ PageIdle

\* Reporting the failure: a task that is to be retried leaves the journal.
Fail(r) ==
  LET a == activity[r]
  IN  /\ At(r, "fail")
      /\ Answered("fail", r)
      /\ IF task'[a.task].auto = "queued" THEN Remove(r, a.task)
         ELSE UNCHANGED journal
      /\ After(r, a.code \in BlockingCodes)
      /\ PageIdle

FailFails(r) ==
  /\ At(r, "fail")
  /\ Unanswered("fail", r)
  /\ After(r, TRUE)
  /\ UNCHANGED journal /\ PageIdle

-----------------------------------------------------------------------------
(* The page, the heartbeat, the network and the worker's crashes *)

PageSends(r, t) ==
  /\ <<r, t>> \in asked
  /\ asked' = asked \ {<<r, t>>}
  /\ sent' = [sent EXCEPT ![t][r] = @ + 1]
  /\ UNCHANGED <<journal, activity>> /\ Local

\* The button is missing, or the tab is closed.
PageRefuses(r, t) ==
  /\ <<r, t>> \in asked
  /\ asked' = asked \ {<<r, t>>}
  /\ UNCHANGED <<journal, activity, sent>> /\ Local

Working(r) ==
  activity[r].step \in {"begin", "prepare", "mark", "intent", "ask", "page",
                        "reattach", "confirm", "collect", "complete", "fail"}

\* Every minute of the work; what comes of it is ignored.
Beat(r) ==
  /\ Working(r)
  /\ Serve(Request("heartbeat", r, activity[r]))
  /\ UNCHANGED deviceVars

\* What a worker may have asked for when it stops.
Pending(r) ==
  LET a == activity[r]
  IN  {Request(op, r, a) :
         op \in {"claim", "resume", "intent", "confirm", "complete", "fail"} \cap {a.step}}
      \cup {Request("reconcile", r, [a EXCEPT !.task = t]) :
              t \in IF a.step = "reconcile" THEN a.todo ELSE {}}
      \cup (IF Working(r) THEN {Request("heartbeat", r, a)} ELSE {})

\* The worker stops; storage, the page and a request under way survive it.
Crash(r) ==
  /\ ~At(r, "idle")
  /\ restarts < MaxRestarts
  /\ restarts' = restarts + 1
  /\ activity' = [activity EXCEPT ![r] = Idle]
  /\ \/ inflight' = inflight
     \/ /\ Cardinality(inflight) < MaxInFlight
        /\ \E q \in Pending(r) : inflight' = inflight \cup {q}
  /\ UNCHANGED <<vars, journal>> /\ PageIdle

Deliver(q) ==
  /\ Serve(q)
  /\ inflight' = inflight \ {q}
  /\ UNCHANGED <<journal, activity, asked, sent, restarts>>

\* Lost, or rejected when it arrives.
Drop(q) ==
  /\ inflight' = inflight \ {q}
  /\ UNCHANGED <<vars, journal, activity, asked, sent, restarts>>

-----------------------------------------------------------------------------

TaskStep(r) ==
  \/ ResumeTask(r) \/ ResumeFails(r) \/ GiveUp(r)
  \/ ClaimNext(r) \/ EndPoll(r)
  \/ Begin(r)
  \/ Prepare(r) \/ MarkIntent(r) \/ RecordIntent(r)
  \/ SubmitOnceInPage(r) \/ SeePrompt(r) \/ Reattach(r) \/ Confirm(r)
  \/ Collect(r) \/ CompleteTask(r)
  \/ CallFails(r) \/ Fail(r) \/ FailFails(r)
  \/ \E code \in FailureCodes : OpenFails(r, code) \/ PageFails(r, code)

PassStep(r) ==
  \/ ListDue(r) \/ StartPolling(r)
  \/ \E t \in Tasks : Reconcile(r, t) \/ ReconcileFails(r, t) \/ Recover(r, t)

\* Everything the portal does by itself.
PortalAlone ==
  /\ \/ \E u \in Users : \/ ReadHumanQueue(u)
                        \/ FindNothing(u)
                        \/ \E t \in Tasks : PortalStep(u, t)
     \/ BatchStep
     \/ Tick
  /\ UNCHANGED deviceVars

ExtNext ==
  \/ \E r \in Runners :
       \/ StartPoll(r) \/ PassStep(r) \/ TaskStep(r) \/ Beat(r) \/ Crash(r)
       \/ \E t \in Tasks :
            RecoverNeedsHuman(r, t) \/ PageSends(r, t) \/ PageRefuses(r, t)
  \/ \E q \in inflight : Deliver(q) \/ Drop(q)
  \/ PortalAlone

ExtSpec == ExtInit /\ [][ExtNext]_extVars

\* The extension's alarm starts a pass every minute, sooner or later one when
\* the worker is not busy; a worker at work goes on; and a portal that answers
\* again and again is reached in the end.
ExtFairSpec ==
  /\ ExtSpec
  /\ \A r \in Runners :
       /\ SF_extVars(StartPoll(r))
       /\ WF_extVars(PassStep(r) \/ TaskStep(r))
       /\ \A t \in Tasks : SF_extVars(Reconcile(r, t))

-----------------------------------------------------------------------------
(* What the extension promises *)

Abstract ==
  INSTANCE SubmitOnce WITH
    Senders <- Runners,
    sender <- [t \in Tasks |-> IF task[t].intent THEN task[t].claimedBy ELSE Nobody],
    sends <- sent,
    outcome <- [t \in Tasks |-> IF task[t].status \in TerminalStatuses
                                THEN task[t].status ELSE "open"]

\* A prompt is sent at most once and only by the device whose intent is durable
\* in the portal, through crashes of the worker, late requests, pages that
\* click after their worker is gone, resumes, portal users and the settlement.
SendsAtMostOnce == Abstract!Spec

\* The device and the portal agree on the submission whatever is lost between
\* them: while a submitted task is open, its device still has the entry of the
\* very session, at or after the intent; an entry the server never heard the
\* confirmation of is never past the intent.
JournalBrackets ==
  \A r \in Runners, t \in Tasks :
    LET entry == journal[r][t]
    IN  /\ /\ task[t].intent
           /\ task[t].claimedBy = r
           /\ task[t].status \in UnresolvedStatuses
           => /\ entry # NoEntry
              /\ PostSubmit(entry.phase)
              /\ entry.session = task[t].session
        /\ entry # NoEntry /\ entry.phase \in {"submitted", "collected"} =>
              task[t].confirmed

\* A task polled from the queue never meets an entry that would forbid to begin
\* it: the journal is reconciled before every poll, and a surface with an entry
\* that is not understood is not polled.
PollMeetsNoOldEntry ==
  \A r \in Runners :
    At(r, "begin") /\ ~activity[r].assist /\ journal[r][activity[r].task] # NoEntry =>
      ~AtOrAfterIntent(journal[r][activity[r].task])

\* Automatic recovery calls the portal at most twice for an entry, through
\* crashes and failed calls.
RecoversAtMostTwice ==
  \A r \in Runners, t \in Tasks : journal[r][t] # NoEntry => journal[r][t].contacts <= 2

\* An entry of a task that ended in the device's own name is cleared by some
\* later pass: its surface is polled again.
OwnEntriesDrain ==
  \A r \in Runners, t \in Tasks :
    journal[r][t] # NoEntry /\ task[t].status \in TerminalStatuses /\ task[t].claimedBy = r
      ~> journal[r][t] = NoEntry

\* A task-local failure does not strand later tasks on the same surface: the
\* entry of a finished task does not block it for ever.
SurfaceNotStranded ==
  \A r \in Runners, t \in Tasks :
    journal[r][t] # NoEntry /\ task[t].status \in TerminalStatuses
      ~> journal[r][t] = NoEntry
=============================================================================
