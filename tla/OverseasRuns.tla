---------------------------- MODULE OverseasRuns ----------------------------
(***************************************************************************)
(* The overseas "Run now": a cohort of paid provider calls, from the press *)
(* of the button to the last call.                                         *)
(*                                                                         *)
(* Three parties meet in the database.  The dialog of the portal keeps one *)
(* idempotency key until a request has been answered; a request handler of *)
(* the web server creates the cohort with its calls and sends a job for    *)
(* every call that has none; the slots of the worker take the jobs, claim  *)
(* the call, record the intent to pay, run the provider, persist the       *)
(* observation and its snapshot and end the call.  The calls are the       *)
(* outbox of the queue: a call is marked as dispatched after its job is    *)
(* sent.  Jobs are never retried (retryLimit 0).                           *)
(*                                                                         *)
(* A statement or a transaction is one step, except for the transaction    *)
(* that ends a call: it reads the other calls before it commits, and other *)
(* slots run between the two (READ COMMITTED).  The key selects the        *)
(* cohort, so the module has one; later keys have cohorts of their own.    *)
(***************************************************************************)
EXTENDS Naturals, FiniteSets

CONSTANTS
  Calls,     \* the calls of the manifest
  Workers,   \* the slots that run jobs
  Handlers,  \* requests the web server may be serving at a time
  Nobody,
  MaxFaults  \* bound: crashes, lost answers and failing queries, together

ASSUME OverseasConstants ==
  /\ IsFiniteSet(Calls) /\ Calls # {}
  /\ Nobody \notin Calls \cup Workers \cup Handlers
  /\ MaxFaults \in Nat

VARIABLES
  cohort,     \* the status of the cohort, "none" before it is created
  call,       \* call[c]: the row of call c
  attempt,    \* attempt[c]: its observation attempt, prompt run and snapshot
  queue,      \* queue[c]: how many jobs for call c wait
  worker,     \* worker[w]: what slot w is doing
  handler,    \* handler[h]: what request h is doing
  dialog,     \* "ready", the request it waits for, or "closed"
  payer,      \* payer[c]: the slot that recorded the intent to pay
  runs,       \* runs[c][w]: how many times w ran the provider for c
  orphaned,   \* the calls whose job died before it could end them
  faults      \* what MaxFaults counts

overseasVars ==
  <<cohort, call, attempt, queue, worker, handler, dialog, payer, runs,
    orphaned, faults>>

Open == {"queued", "running"}
Ended == {"succeeded", "failed"}

\* run: the row names a prompt run.
CallRow ==
  [status : {"none"} \cup Open \cup Ended, dispatched : BOOLEAN,
   intent : BOOLEAN, run : BOOLEAN]

\* "saved": the attempt succeeded and has its prompt run; "archived": the
\* snapshot of that run is ready too.
AttemptStates == {"none", "running", "failed", "saved", "archived"}

WorkerSteps ==
  {"free", "claim", "attempt", "intent", "provider", "persist",
   "archive", "reject", "complete", "fail", "commit"}
Slot ==
  [step : WorkerSteps, call : Calls \cup {Nobody}, outcome : Ended,
   settles : BOOLEAN]
Free ==
  [step |-> "free", call |-> Nobody, outcome |-> "failed", settles |-> FALSE]

HandlerSteps == {"off", "create", "list", "send", "mark"}
Request ==
  [step : HandlerSteps, todo : SUBSET Calls, call : Calls \cup {Nobody}]
Off == [step |-> "off", todo |-> {}, call |-> Nobody]

OverseasInit ==
  /\ cohort = "none"
  /\ call = [c \in Calls |->
               [status |-> "none", dispatched |-> FALSE, intent |-> FALSE,
                run |-> FALSE]]
  /\ attempt = [c \in Calls |-> "none"]
  /\ queue = [c \in Calls |-> 0]
  /\ worker = [w \in Workers |-> Free]
  /\ handler = [h \in Handlers |-> Off]
  /\ dialog = "ready"
  /\ payer = [c \in Calls |-> Nobody]
  /\ runs = [c \in Calls |-> [w \in Workers |-> 0]]
  /\ orphaned = {}
  /\ faults = 0

cohortVars == <<cohort, call>>

Fault == faults < MaxFaults /\ faults' = faults + 1
NoFault == UNCHANGED faults

-----------------------------------------------------------------------------
(***************************************************************************)
(* The portal.                                                             *)
(***************************************************************************)
Serving(h, step) == handler[h].step = step
Serve(h, step) == handler' = [handler EXCEPT ![h].step = step]

\* A request that dies leaves the dialog with an error, and the key stays.
Dies(h) ==
  /\ handler' = [handler EXCEPT ![h] = Off]
  /\ dialog' = IF dialog = h THEN "ready" ELSE dialog

\* The button is disabled while a submission is in flight.
Press(h) ==
  /\ dialog = "ready"
  /\ Serving(h, "off")
  /\ dialog' = h
  /\ Serve(h, "create")
  /\ UNCHANGED <<cohort, call, attempt, queue, worker, payer, runs, orphaned,
                 faults>>

\* The cohort and all of its calls, in one transaction; the same key finds the
\* cohort it has created before.
Created ==
  IF cohort = "none"
  THEN /\ cohort' = "dispatch_pending"
       /\ call' = [c \in Calls |-> [call[c] EXCEPT !.status = "queued"]]
  ELSE UNCHANGED cohortVars

Create(h) ==
  /\ Serving(h, "create")
  /\ Created
  /\ \/ Serve(h, "list") /\ UNCHANGED dialog /\ NoFault
     \/ Dies(h) /\ Fault
  /\ UNCHANGED <<attempt, queue, worker, payer, runs, orphaned>>

\* The program, the plan or a provider preflight is refused, or the insert
\* fails.
Refuse(h) ==
  /\ Serving(h, "create")
  /\ Dies(h)
  /\ UNCHANGED <<cohort, call, attempt, queue, worker, payer, runs, orphaned,
                 faults>>

Undispatched(c) == call[c].status = "queued" /\ ~call[c].dispatched

ListUndispatched(h) ==
  /\ Serving(h, "list")
  /\ handler' = [handler EXCEPT ![h] =
                   [step |-> "send", todo |-> {c \in Calls : Undispatched(c)},
                    call |-> Nobody]]
  /\ UNCHANGED <<cohort, call, attempt, queue, worker, dialog, payer, runs,
                 orphaned, faults>>

PassOver(h, c) ==
  handler' = [handler EXCEPT ![h] =
                [step |-> "send", todo |-> handler[h].todo \ {c},
                 call |-> Nobody]]

\* Mutant: the call is marked before its job is sent.
MarkFirst(h, c) ==
  /\ Serving(h, "send")
  /\ c \in handler[h].todo
  /\ call' = [call EXCEPT ![c].dispatched = Undispatched(c) \/ @]
  /\ \/ queue' = [queue EXCEPT ![c] = @ + 1] /\ NoFault
     \/ UNCHANGED queue /\ Fault
  /\ PassOver(h, c)
  /\ UNCHANGED <<cohort, attempt, worker, dialog, payer, runs, orphaned>>

\* A send that throws is counted and passed over, whether or not the job got
\* into the queue.  The queue may also answer that it has such a job.
Send(h, c) ==
  /\ Serving(h, "send")
  /\ c \in handler[h].todo
  /\ \/ /\ \/ queue' = [queue EXCEPT ![c] = @ + 1]
           \/ queue[c] > 0 /\ UNCHANGED queue
        /\ \/ /\ handler' = [handler EXCEPT ![h].step = "mark", ![h].call = c]
              /\ NoFault
           \/ PassOver(h, c) /\ Fault
     \/ UNCHANGED queue /\ PassOver(h, c) /\ Fault
  /\ UNCHANGED <<cohort, call, attempt, worker, dialog, payer, runs, orphaned>>

\* The update finds nothing when a slot has claimed the call by now or another
\* request has marked it; a failing update is passed over.
MarkDispatched(h) ==
  LET c == handler[h].call IN
  /\ Serving(h, "mark")
  /\ \/ /\ call' = [call EXCEPT ![c].dispatched = Undispatched(c) \/ @]
        /\ NoFault
     \/ Fault /\ UNCHANGED call
  /\ PassOver(h, c)
  /\ UNCHANGED <<cohort, attempt, queue, worker, dialog, payer, runs, orphaned>>

\* The dialog forgets its key when a request is answered, whatever the answer
\* says of calls that could not be dispatched.
Respond(h) ==
  /\ Serving(h, "send")
  /\ handler[h].todo = {}
  /\ handler' = [handler EXCEPT ![h] = Off]
  /\ dialog' = IF dialog = h THEN "closed" ELSE dialog
  /\ UNCHANGED <<cohort, call, attempt, queue, worker, payer, runs, orphaned,
                 faults>>

\* The answer is lost: the dialog may press again while the request goes on.
LoseResponse ==
  /\ dialog \in Handlers
  /\ dialog' = "ready"
  /\ Fault
  /\ UNCHANGED <<cohort, call, attempt, queue, worker, handler, payer, runs,
                 orphaned>>

WebCrash(h) ==
  /\ ~Serving(h, "off")
  /\ Dies(h)
  /\ Fault
  /\ UNCHANGED <<cohort, call, attempt, queue, worker, payer, runs, orphaned>>

\* Another selection, or leaving the page, drops the key.
Forget ==
  /\ dialog = "ready"
  /\ cohort # "none"
  /\ dialog' = "closed"
  /\ UNCHANGED <<cohort, call, attempt, queue, worker, handler, payer, runs,
                 orphaned, faults>>

-----------------------------------------------------------------------------
(***************************************************************************)
(* A slot of the worker.                                                   *)
(***************************************************************************)
At(w, step) == worker[w].step = step
Mine(w) == worker[w].call
Goto(w, step) == worker' = [worker EXCEPT ![w].step = step]
Leave(w) == worker' = [worker EXCEPT ![w] = Free]

\* The slot goes on, or the answer to what it did is lost and it throws.
GotoOr(w, step, thrown) ==
  \/ Goto(w, step) /\ NoFault
  \/ Goto(w, thrown) /\ Fault

\* A transaction that is about to end the call has its row.
Locked(c) == \E w \in Workers : At(w, "commit") /\ Mine(w) = c

Fetch(w, c) ==
  /\ At(w, "free")
  /\ queue[c] > 0
  /\ queue' = [queue EXCEPT ![c] = @ - 1]
  /\ worker' = [worker EXCEPT ![w] = [Free EXCEPT !.step = "claim", !.call = c]]
  /\ UNCHANGED <<cohort, call, attempt, handler, dialog, payer, runs, orphaned,
                 faults>>

\* Mutant: whatever has not been paid for can be claimed.
ClaimableUnlessPaid(row) == ~row.intent

Claimable(row) == row.status = "queued" /\ ~row.intent

CallClaimed(c) ==
  /\ call' = [call EXCEPT ![c].status = "running"]
  /\ cohort' = IF cohort = "dispatch_pending" THEN "running" ELSE cohort

\* The job's cohort is the call's: the dispatcher sends both.
Claim(w) ==
  LET c == Mine(w) IN
  /\ At(w, "claim")
  /\ ~Locked(c)
  /\ Claimable(call[c])
  /\ CallClaimed(c)
  /\ \/ Goto(w, "attempt") /\ NoFault /\ UNCHANGED orphaned
     \/ Leave(w) /\ Fault /\ orphaned' = orphaned \cup {c}
  /\ UNCHANGED <<attempt, queue, handler, dialog, payer, runs>>

\* A call that is not claimable is skipped; a claim that fails takes the job
\* with it.
Skip(w) ==
  LET c == Mine(w) IN
  /\ At(w, "claim")
  /\ ~Locked(c)
  /\ \/ ~Claimable(call[c]) /\ NoFault /\ UNCHANGED orphaned
     \/ Fault /\ orphaned' = orphaned \cup {c}
  /\ Leave(w)
  /\ UNCHANGED <<cohort, call, attempt, queue, handler, dialog, payer, runs>>

\* The attempt's source key names the call and a call is claimed once, so the
\* insert never meets an older attempt.  Before it the brand may be gone, the
\* snapshot storage unconfigured or full, the query failing.
StartAttempt(w) ==
  /\ At(w, "attempt")
  /\ \/ /\ attempt[Mine(w)] = "none"
        /\ attempt' = [attempt EXCEPT ![Mine(w)] = "running"]
        /\ GotoOr(w, "intent", "fail")
     \/ Goto(w, "fail") /\ NoFault /\ UNCHANGED attempt
  /\ UNCHANGED <<cohort, call, queue, handler, dialog, payer, runs, orphaned>>

\* Mutant: the provider is run before the intent is written.
IntentAfterwards(w) ==
  /\ At(w, "intent")
  /\ Goto(w, "provider") /\ NoFault
  /\ UNCHANGED <<cohort, call, attempt, queue, handler, dialog, payer, runs,
                 orphaned>>

\* The route may not support the program's market, or the update finds no
\* running call without an intent.
RecordPaidIntent(w) ==
  LET c == Mine(w) IN
  /\ At(w, "intent")
  /\ \/ /\ call[c].status = "running" /\ ~call[c].intent
        /\ call' = [call EXCEPT ![c].intent = TRUE]
        /\ payer' = [payer EXCEPT ![c] = w]
        /\ GotoOr(w, "provider", "reject")
     \/ Goto(w, "reject") /\ NoFault /\ UNCHANGED <<call, payer>>
  /\ UNCHANGED <<cohort, attempt, queue, handler, dialog, runs, orphaned>>

\* Mutant: a provider that throws takes the slot's job with it.
RunUncaught(w) ==
  /\ At(w, "provider")
  /\ runs' = [runs EXCEPT ![Mine(w)][w] = @ + 1]
  /\ Goto(w, "persist") \/ Leave(w)
  /\ UNCHANGED <<cohort, call, attempt, queue, handler, dialog, payer,
                 orphaned, faults>>

\* The provider answers, or throws.
RunProvider(w) ==
  /\ At(w, "provider")
  /\ runs' = [runs EXCEPT ![Mine(w)][w] = @ + 1]
  /\ Goto(w, "persist") \/ Goto(w, "reject")
  /\ UNCHANGED <<cohort, call, attempt, queue, handler, dialog, payer,
                 orphaned, faults>>

\* The attempt is still this slot's: nobody else can take it over.
Persist(w) ==
  /\ At(w, "persist")
  /\ \/ /\ attempt[Mine(w)] = "running"
        /\ attempt' = [attempt EXCEPT ![Mine(w)] = "saved"]
        /\ GotoOr(w, "archive", "reject")
     \/ Goto(w, "reject") /\ NoFault /\ UNCHANGED attempt
  /\ UNCHANGED <<cohort, call, queue, handler, dialog, payer, runs, orphaned>>

\* Mutant: a snapshot that waits for its recovery will do.
ArchiveOrQueue(w) ==
  /\ At(w, "archive")
  /\ \/ attempt' = [attempt EXCEPT ![Mine(w)] = "archived"]
     \/ UNCHANGED attempt
  /\ Goto(w, "complete") /\ NoFault
  /\ UNCHANGED <<cohort, call, queue, handler, dialog, payer, runs, orphaned>>

\* Only a snapshot that is ready lets the call succeed; recording it does not
\* throw.
Archive(w) ==
  /\ At(w, "archive")
  /\ \/ /\ attempt' = [attempt EXCEPT ![Mine(w)] = "archived"]
        /\ Goto(w, "complete")
     \/ Goto(w, "fail") /\ UNCHANGED attempt
  /\ UNCHANGED <<cohort, call, queue, handler, dialog, payer, runs, orphaned,
                 faults>>

\* The attempt is marked as failed if it is running; an update that fails is
\* reported and passed over.
Reject(w) ==
  LET c == Mine(w) IN
  /\ At(w, "reject")
  /\ \/ /\ attempt' = [attempt EXCEPT ![c] = IF @ = "running" THEN "failed" ELSE @]
        /\ NoFault
     \/ Fault /\ UNCHANGED attempt
  /\ Goto(w, "fail")
  /\ UNCHANGED <<cohort, call, queue, handler, dialog, payer, runs, orphaned>>

-----------------------------------------------------------------------------
(***************************************************************************)
(* The end of a call.  The transaction has updated its own call, sees the  *)
(* other calls as they were committed, and settles the cohort if it finds  *)
(* none of them open.                                                      *)
(***************************************************************************)
\* Mutant: calls that wait in the queue are not looked for.
OthersNotRunning(c) ==
  \A d \in Calls \ {c} : call[d].status # "running"

OthersEnded(c) == \A d \in Calls \ {c} : call[d].status \notin Open

Ending(w, outcome) ==
  worker' = [worker EXCEPT ![w] =
               [step |-> "commit", call |-> Mine(w), outcome |-> outcome,
                settles |-> OthersEnded(Mine(w))]]

\* A completion that finds the call ended, or fails, throws.
Complete(w) ==
  LET c == Mine(w) IN
  /\ At(w, "complete")
  /\ ~Locked(c)
  /\ \/ call[c].status = "running" /\ call[c].intent /\ Ending(w, "succeeded")
        /\ NoFault
     \/ ~(call[c].status = "running" /\ call[c].intent) /\ Goto(w, "fail")
        /\ NoFault
     \/ Goto(w, "fail") /\ Fault
  /\ UNCHANGED <<cohort, call, attempt, queue, handler, dialog, payer, runs,
                 orphaned>>

\* Mutant: the failure is written over any status.
FailAnyCall(w) ==
  /\ At(w, "fail")
  /\ ~Locked(Mine(w))
  /\ Ending(w, "failed")
  /\ NoFault
  /\ UNCHANGED <<cohort, call, attempt, queue, handler, dialog, payer, runs,
                 orphaned>>

\* A failure that finds the call ended, or fails itself, ends the job.
Fail(w) ==
  LET c == Mine(w) IN
  /\ At(w, "fail")
  /\ ~Locked(c)
  /\ \/ call[c].status = "running" /\ Ending(w, "failed") /\ NoFault
        /\ UNCHANGED orphaned
     \/ call[c].status # "running" /\ Leave(w) /\ NoFault /\ UNCHANGED orphaned
     \/ Leave(w) /\ Fault /\ orphaned' = orphaned \cup {c}
  /\ UNCHANGED <<cohort, call, attempt, queue, handler, dialog, payer, runs>>

\* Where a slot goes when the end it was committing throws.
ThrownBy(w) ==
  IF worker[w].outcome = "succeeded"
  THEN Goto(w, "fail") /\ UNCHANGED orphaned
  ELSE Leave(w) /\ orphaned' = orphaned \cup {Mine(w)}

Commit(w) ==
  LET c == Mine(w) IN
  /\ At(w, "commit")
  /\ call' = [call EXCEPT ![c].status = worker[w].outcome,
                          ![c].run = @ \/ worker[w].outcome = "succeeded"]
  /\ cohort' = IF worker[w].settles /\ cohort = "running"
               THEN "completed" ELSE cohort
  /\ \/ Leave(w) /\ NoFault /\ UNCHANGED orphaned
     \/ ThrownBy(w) /\ Fault
  /\ UNCHANGED <<attempt, queue, handler, dialog, payer, runs>>

RollBack(w) ==
  /\ At(w, "commit")
  /\ ThrownBy(w)
  /\ Fault
  /\ UNCHANGED <<cohort, call, attempt, queue, handler, dialog, payer, runs>>

\* A slot dies with its job, which is not retried.
WorkerCrash(w) ==
  /\ ~At(w, "free")
  /\ Leave(w)
  /\ orphaned' = orphaned \cup {Mine(w)}
  /\ Fault
  /\ UNCHANGED <<cohort, call, attempt, queue, handler, dialog, payer, runs>>

-----------------------------------------------------------------------------
Portal(h) ==
  \/ Create(h) \/ ListUndispatched(h) \/ MarkDispatched(h) \/ Respond(h)
  \/ \E c \in Calls : Send(h, c)

Work(w) ==
  \/ Claim(w) \/ Skip(w) \/ StartAttempt(w) \/ RecordPaidIntent(w)
  \/ RunProvider(w) \/ Persist(w) \/ Archive(w)
  \/ Reject(w) \/ Complete(w) \/ Fail(w) \/ Commit(w)
  \/ \E c \in Calls : Fetch(w, c)

Next ==
  \/ \E h \in Handlers : Portal(h) \/ Press(h) \/ Refuse(h) \/ WebCrash(h)
  \/ \E w \in Workers : Work(w) \/ RollBack(w) \/ WorkerCrash(w)
  \/ LoseResponse \/ Forget

OverseasSpec == OverseasInit /\ [][Next]_overseasVars

\* A slot that is alive polls its queue and runs its job to the end, the
\* provider answers or times out, and a request is served to its end.
OverseasFairSpec ==
  /\ OverseasSpec
  /\ \A w \in Workers : WF_overseasVars(Work(w))
  /\ \A h \in Handlers : WF_overseasVars(Portal(h))

-----------------------------------------------------------------------------
\* The types of the state, with what the CHECK constraints of the two tables
\* (packages/lib/src/db/schema.ts) say of a row.
OverseasTypeOK ==
  /\ cohort \in {"none", "dispatch_pending", "running", "completed"}
  /\ call \in [Calls -> CallRow]
  /\ attempt \in [Calls -> AttemptStates]
  /\ queue \in [Calls -> Nat]
  /\ worker \in [Workers -> Slot]
  /\ handler \in [Handlers -> Request]
  /\ dialog \in {"ready", "closed"} \cup Handlers
  /\ payer \in [Calls -> Workers \cup {Nobody}]
  /\ runs \in [Calls -> [Workers -> Nat]]
  /\ orphaned \subseteq Calls
  /\ faults \in 0..MaxFaults
  /\ \A c \in Calls : call[c].status = "queued" => ~call[c].intent
  /\ \A c \in Calls : call[c].run <=> call[c].status = "succeeded"
  /\ \A c \in Calls : call[c].run => call[c].intent

\* A call succeeds only with its observation persisted and the snapshot of that
\* observation ready, whichever step failed or was lost on the way.
SuccessIsArchived ==
  \A c \in Calls : call[c].status = "succeeded" => attempt[c] = "archived"

\* The status shown for the cohort is earned: "completed" only when no call is
\* queued or running, "dispatch_pending" only while no call has been claimed.
CohortStatusIsEarned ==
  /\ cohort = "completed" => \A c \in Calls : call[c].status \in Ended
  /\ cohort = "dispatch_pending" => \A c \in Calls : call[c].status = "queued"

\* The outbox loses nothing: a call that is queued and marked as dispatched has
\* a job that waits or has been fetched, unless the job died with its slot.
DispatchedHasJob ==
  \A c \in Calls : call[c].status = "queued" /\ call[c].dispatched =>
    \/ queue[c] > 0
    \/ c \in orphaned
    \/ \E w \in Workers : At(w, "claim") /\ Mine(w) = c

\* An ended call is never changed again, neither by a second job of the call
\* nor by its own slot after the answer to the commit was lost, and a call with
\* a recorded intent never goes back to the queue.
EndsAreFinal ==
  [][\A c \in Calls :
       /\ call[c].status \in Ended => call'[c] = call[c]
       /\ call[c].intent => call'[c].intent /\ call'[c].status # "queued"]_call

\* Every dispatched call ends, however the jobs and the failures of its steps
\* interleave, unless its job died with a slot, a claim or a failing update.
DispatchedCallsEnd ==
  \A c \in Calls :
    call[c].dispatched ~> call[c].status \in Ended \/ c \in orphaned

\* A paid call is submitted at most once, by the one slot that had recorded
\* the intent before: the promise of SubmitOnce, for calls.
Promise ==
  INSTANCE SubmitOnce WITH
    Tasks <- Calls, Senders <- Workers, sender <- payer, sends <- runs,
    outcome <- [c \in Calls |->
                  IF call[c].status \in Ended THEN call[c].status ELSE "open"]

PaysOnce == Promise!Spec

\* docs/superpowers/plans/2026-08-18-overseas-run-now.md:110 says "Finalizing
\* the final nonterminal call updates the cohort to `completed` in the same
\* transaction."
CohortCompletes ==
  (cohort # "none" /\ \A c \in Calls : call[c].status \in Ended)
    => cohort = "completed"
=============================================================================
