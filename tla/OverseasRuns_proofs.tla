------------------------ MODULE OverseasRuns_proofs ------------------------
(***************************************************************************)
(* Proofs about OverseasRuns, for any calls, slots, request handlers and   *)
(* number of faults.                                                       *)
(*                                                                         *)
(* One inductive invariant carries all of them.  Its core is that a call   *)
(* has at most one slot behind its claim, ever: the claim takes a queued   *)
(* call and no call returns to the queue.  From that follow who may pay,   *)
(* run the provider and end the call.                                      *)
(***************************************************************************)
EXTENDS OverseasRuns, TLAPS

\* The part of OverseasTypeOK that speaks of one variable at a time.
Typed ==
  /\ cohort \in {"none", "dispatch_pending", "running", "completed"}
  /\ call \in [Calls -> CallRow]
  /\ attempt \in [Calls -> AttemptStates]
  /\ queue \in [Calls -> Nat]
  /\ worker \in [Workers -> Slot]
  /\ handler \in [Handlers -> Request]
  /\ dialog \in {"ready", "closed"} \cup Handlers
  /\ payer \in [Calls -> Workers \cup {Nobody}]
  /\ runs \in [Calls -> [Workers -> Nat]]
  /\ orphaned \subseteq Calls
  /\ faults \in 0..MaxFaults

\* A call is a row of the cohort; only a claimed one is paid for, and only one
\* with an archived snapshot succeeds.
RowConsistent(c) ==
  /\ call[c].status = "none" <=> cohort = "none"
  /\ call[c].status = "none" => ~call[c].dispatched
  /\ call[c].intent => call[c].status \in {"running"} \cup Ended
  /\ call[c].run <=> call[c].status = "succeeded"
  /\ call[c].run => call[c].intent
  /\ call[c].status = "succeeded" => attempt[c] = "archived"

\* The slot has claimed its call.
Holding(w) == worker[w].step \notin {"free", "claim"}

SlotConsistent(w) ==
  /\ ~At(w, "free") => Mine(w) \in Calls
  /\ Holding(w) => call[Mine(w)].status \in {"running"} \cup Ended
  /\ At(w, "complete") => attempt[Mine(w)] = "archived"
  /\ At(w, "commit") =>
       /\ call[Mine(w)].status = "running"
       /\ worker[w].outcome = "succeeded" =>
            attempt[Mine(w)] = "archived" /\ call[Mine(w)].intent
       /\ worker[w].settles =>
            \A d \in Calls \ {Mine(w)} : call[d].status \in Ended

\* No two slots ever hold one call.
HeldOnce ==
  \A v, w \in Workers :
    Holding(v) /\ Holding(w) /\ Mine(v) = Mine(w) => v = w

\* The intent names its payer, and nobody has run the provider before; a slot
\* about to run it is the payer, and the first.
PaidConsistent ==
  /\ \A c \in Calls : payer[c] = Nobody <=> ~call[c].intent
  /\ \A c \in Calls : payer[c] = Nobody => \A s \in Workers : runs[c][s] = 0
  /\ \A w \in Workers : At(w, "provider") =>
       payer[Mine(w)] = w /\ \A s \in Workers : runs[Mine(w)][s] = 0

\* What DispatchedHasJob asks of a dispatched call.
HasJob(c) ==
  \/ call[c].status # "queued"
  \/ queue[c] > 0
  \/ c \in orphaned
  \/ \E w \in Workers : At(w, "claim") /\ Mine(w) = c

HandlerConsistent(h) ==
  /\ handler[h].step \in {"list", "send", "mark"} => cohort # "none"
  /\ Serving(h, "mark") => handler[h].call \in Calls /\ HasJob(handler[h].call)

IInv ==
  /\ Typed
  /\ \A c \in Calls : RowConsistent(c)
  /\ \A w \in Workers : SlotConsistent(w)
  /\ HeldOnce
  /\ PaidConsistent
  /\ CohortStatusIsEarned
  /\ \A h \in Handlers : HandlerConsistent(h)
  /\ \A c \in Calls : call[c].dispatched => HasJob(c)

-----------------------------------------------------------------------------
(* Steps of a slot between its claim and the end of its call *)

\* The slot keeps its call, whose row may get the intent and whose attempt may
\* change as long as it is not archived.
Moves(w) ==
  /\ Holding(w) /\ worker' \in [Workers -> Slot]
  /\ \A v \in Workers \ {w} : worker'[v] = worker[v]
  /\ worker'[w].call = worker[w].call
  /\ worker'[w].step \notin {"free", "claim"}
  /\ call' \in [Calls -> CallRow]
  /\ \A c \in Calls :
       /\ call'[c].status = call[c].status
       /\ call'[c].dispatched = call[c].dispatched
       /\ call'[c].run = call[c].run
       /\ call[c].intent => call'[c].intent
       /\ call'[c].intent /\ ~call[c].intent => call[c].status = "running"
  /\ attempt' \in [Calls -> AttemptStates]
  /\ \A c \in Calls : attempt[c] = "archived" => attempt'[c] = "archived"
  /\ payer' \in [Calls -> Workers \cup {Nobody}]
  /\ runs' \in [Calls -> [Workers -> Nat]]
  /\ faults' \in 0..MaxFaults
  /\ UNCHANGED <<cohort, queue, handler, dialog, orphaned>>

LEMMA HolderMoves ==
  ASSUME IInv, NEW w \in Workers, Moves(w), SlotConsistent(w)', PaidConsistent'
  PROVE  IInv'
<1>1. Typed'
  BY DEF IInv, Typed, Moves
<1>2. ASSUME NEW c \in Calls PROVE RowConsistent(c)'
  BY DEF IInv, RowConsistent, Moves
<1>3. ASSUME NEW v \in Workers PROVE SlotConsistent(v)'
  <2>1. CASE v = w
    BY <2>1
  <2>2. CASE v # w
    <3>1. worker'[v] = worker[v] /\ SlotConsistent(v)
      BY <2>2 DEF IInv, Moves
    <3>2. At(v, "free") \/ Mine(v) \in Calls
      BY <3>1 DEF SlotConsistent
    <3> QED
      BY <3>1, <3>2 DEF SlotConsistent, Moves, At, Mine, Holding
  <2> QED
    BY <2>1, <2>2
<1>4. HeldOnce'
  BY DEF IInv, HeldOnce, Holding, Moves, Mine
<1>5. CohortStatusIsEarned'
  BY DEF IInv, CohortStatusIsEarned, Moves
<1>6. ASSUME NEW c \in Calls, HasJob(c) PROVE HasJob(c)'
  <2>1. \A v \in Workers : At(v, "claim") => worker'[v] = worker[v]
    BY DEF Moves, Holding, At
  <2> QED
    BY <1>6, <2>1 DEF HasJob, Moves, At, Mine
<1>7. ASSUME NEW h \in Handlers PROVE HandlerConsistent(h)'
  BY <1>6 DEF IInv, HandlerConsistent, Serving, Moves
<1>8. ASSUME NEW c \in Calls PROVE (call[c].dispatched => HasJob(c))'
  BY <1>6 DEF IInv, Moves
<1> QED
  BY <1>1, <1>2, <1>3, <1>4, <1>5, <1>7, <1>8 DEF IInv

\* Going to another step changes nothing else of the slots.
LEMMA GoesTo ==
  ASSUME Typed, NEW w \in Workers, NEW s \in WorkerSteps, Goto(w, s)
  PROVE  /\ worker' \in [Workers -> Slot]
         /\ \A v \in Workers \ {w} : worker'[v] = worker[v]
         /\ worker'[w] = [worker[w] EXCEPT !.step = s]
         /\ worker'[w].call = worker[w].call /\ worker'[w].step = s
BY DEF Typed, Goto, Slot

LEMMA FaultsCounted ==
  ASSUME Typed, Fault \/ NoFault
  PROVE  faults' \in 0..MaxFaults
BY OverseasConstants DEF Typed, Fault, NoFault

\* What IInv says of a slot that holds a call.
LEMMA Held ==
  ASSUME IInv, NEW w \in Workers, Holding(w)
  PROVE  /\ Mine(w) \in Calls
         /\ call[Mine(w)].status \in {"running"} \cup Ended
         /\ \A v \in Workers : Holding(v) /\ Mine(v) = Mine(w) => v = w
BY DEF IInv, SlotConsistent, At, Holding, HeldOnce

LEMMA PaidUnchanged ==
  ASSUME IInv, NEW w \in Workers, Moves(w), ~At(w, "provider")',
         UNCHANGED <<payer, runs>>,
         \A c \in Calls : call'[c].intent = call[c].intent
  PROVE  PaidConsistent'
<1>1. \A v \in Workers :
        At(v, "provider")' => At(v, "provider") /\ Mine(v)' = Mine(v) /\ Mine(v) \in Calls
  BY DEF Moves, At, Mine, IInv, SlotConsistent
<1> QED
  BY <1>1 DEF IInv, PaidConsistent

LEMMA StartAttemptKeeps ==
  ASSUME IInv, NEW w \in Workers, StartAttempt(w)
  PROVE  IInv'
<1>1. Holding(w)
  BY DEF StartAttempt, At, Holding
<1>2. PICK s \in {"intent", "fail"} : Goto(w, s) /\ (Fault \/ NoFault)
  BY DEF StartAttempt, GotoOr
<1>3. /\ attempt' \in [Calls -> AttemptStates]
      /\ \A c \in Calls : attempt[c] = "archived" => attempt'[c] = "archived"
  BY <1>1, Held DEF StartAttempt, IInv, Typed, AttemptStates
<1>4. Moves(w)
  BY <1>1, <1>2, <1>3, GoesTo, FaultsCounted DEF IInv, Moves, StartAttempt, Typed, WorkerSteps
<1>5. SlotConsistent(w)'
  BY <1>1, <1>2, <1>4, GoesTo, Held DEF IInv, SlotConsistent, At, Mine, Moves, WorkerSteps, Holding
<1>6. PaidConsistent'
  BY <1>2, <1>4, GoesTo, PaidUnchanged DEF IInv, StartAttempt, At, WorkerSteps
<1> QED
  BY <1>4, <1>5, <1>6, HolderMoves

LEMMA RecordPaidIntentKeeps ==
  ASSUME IInv, NEW w \in Workers, RecordPaidIntent(w)
  PROVE  IInv'
<1>1. Holding(w) /\ Mine(w) \in Calls
  BY Held DEF RecordPaidIntent, At, Holding
<1>2. CASE /\ call[Mine(w)].status = "running" /\ ~call[Mine(w)].intent
           /\ call' = [call EXCEPT ![Mine(w)].intent = TRUE]
           /\ payer' = [payer EXCEPT ![Mine(w)] = w]
           /\ GotoOr(w, "provider", "reject")
  <2>1. PICK s \in {"provider", "reject"} : Goto(w, s) /\ (Fault \/ NoFault)
    BY <1>2 DEF GotoOr
  <2>2. /\ call' \in [Calls -> CallRow]
        /\ \A c \in Calls \ {Mine(w)} : call'[c] = call[c]
        /\ call'[Mine(w)] = [call[Mine(w)] EXCEPT !.intent = TRUE]
    BY <1>1, <1>2 DEF IInv, Typed, CallRow
  <2>3. \A c \in Calls : /\ call'[c].status = call[c].status
                         /\ call'[c].dispatched = call[c].dispatched
                         /\ call'[c].run = call[c].run
                         /\ c # Mine(w) => call'[c].intent = call[c].intent
    BY <1>1, <2>2 DEF IInv, Typed, CallRow
  <2>11. call'[Mine(w)].intent
    BY <1>1, <2>2 DEF IInv, Typed, CallRow
  <2>4. payer' \in [Calls -> Workers \cup {Nobody}]
    BY <1>2 DEF IInv, Typed
  <2>5. /\ worker' \in [Workers -> Slot]
        /\ \A v \in Workers \ {w} : worker'[v] = worker[v]
        /\ worker'[w].call = worker[w].call /\ worker'[w].step = s
    BY <2>1, GoesTo DEF IInv, WorkerSteps
  <2>6. Moves(w)
    BY <1>1, <1>2, <2>1, <2>2, <2>3, <2>4, <2>5, <2>11, FaultsCounted
       DEF IInv, Moves, RecordPaidIntent, Typed
  <2>7. SlotConsistent(w)'
    BY <1>1, <2>3, <2>5, Held DEF SlotConsistent, At, Mine, Holding
  <2>8. \A v \in Workers : runs'[Mine(w)][v] = 0
    BY <1>1, <1>2 DEF IInv, PaidConsistent, RecordPaidIntent
  <2>9. \A v \in Workers \ {w} : At(v, "provider") => Mine(v) # Mine(w) /\ Mine(v) \in Calls
    BY <1>1, Held DEF Holding, At
  <2>10. PaidConsistent'
    <3>1. payer'[Mine(w)] = w /\ \A c \in Calls \ {Mine(w)} : payer'[c] = payer[c]
      BY <1>1, <1>2 DEF IInv, Typed
    <3>2. \A c \in Calls : payer'[c] = Nobody <=> ~call'[c].intent
      <4>1. w # Nobody
        BY OverseasConstants
      <4> QED
        BY <2>3, <2>11, <3>1, <4>1 DEF IInv, PaidConsistent
    <3>3. \A c \in Calls : payer'[c] = Nobody => \A v \in Workers : runs'[c][v] = 0
      BY <2>8, <3>1 DEF IInv, PaidConsistent, RecordPaidIntent
    <3>4. \A v \in Workers : At(v, "provider")' =>
            payer'[Mine(v)'] = v /\ \A u \in Workers : runs'[Mine(v)'][u] = 0
      BY <2>5, <2>8, <2>9, <3>1 DEF IInv, PaidConsistent, RecordPaidIntent, At, Mine
    <3> QED
      BY <3>2, <3>3, <3>4 DEF PaidConsistent
  <2> QED
    BY <2>6, <2>7, <2>10, HolderMoves
<1>3. CASE Goto(w, "reject") /\ NoFault /\ UNCHANGED <<call, payer>>
  <2>1. Moves(w)
    BY <1>1, <1>3, GoesTo, FaultsCounted
       DEF IInv, Moves, RecordPaidIntent, Typed, WorkerSteps
  <2>2. SlotConsistent(w)'
    BY <1>1, <1>3, GoesTo, Held DEF IInv, SlotConsistent, At, Mine, WorkerSteps, Holding
  <2> QED
    BY <1>3, <2>1, <2>2, GoesTo, PaidUnchanged, HolderMoves
       DEF IInv, RecordPaidIntent, At, WorkerSteps
<1> QED
  BY <1>2, <1>3 DEF RecordPaidIntent

LEMMA RunProviderKeeps ==
  ASSUME IInv, NEW w \in Workers, RunProvider(w)
  PROVE  IInv'
<1>1. Holding(w)
  BY DEF RunProvider, At, Holding
<1>2. PICK s \in {"persist", "reject"} : Goto(w, s)
  BY DEF RunProvider
<1>3. Moves(w)
  <2>1. runs' \in [Calls -> [Workers -> Nat]]
    BY <1>1, Held DEF RunProvider, IInv, Typed
  <2> QED
    BY <1>1, <1>2, <2>1, GoesTo DEF IInv, Moves, RunProvider, Typed, WorkerSteps
<1>4. SlotConsistent(w)'
  BY <1>1, <1>2, <1>3, GoesTo, Held
     DEF IInv, SlotConsistent, At, Mine, Moves, WorkerSteps, Holding
<1>5. PaidConsistent'
  <2>1. payer[Mine(w)] = w /\ Mine(w) \in Calls
    BY <1>1, Held DEF IInv, PaidConsistent, RunProvider
  <2>2. \A c \in Calls \ {Mine(w)} : runs'[c] = runs[c]
    BY DEF RunProvider, IInv, Typed
  <2>3. \A v \in Workers : At(v, "provider")' => At(v, "provider") /\ Mine(v)' = Mine(v) /\ Mine(v) # Mine(w) /\ Mine(v) \in Calls
    BY <1>1, <1>2, <1>3, GoesTo, Held DEF Holding, At, Mine, Moves, IInv, WorkerSteps
  <2> QED
    BY <1>1, <2>1, <2>2, <2>3, OverseasConstants DEF IInv, PaidConsistent, RunProvider
<1> QED
  BY <1>3, <1>4, <1>5, HolderMoves

LEMMA PersistKeeps ==
  ASSUME IInv, NEW w \in Workers, Persist(w)
  PROVE  IInv'
<1>1. Holding(w)
  BY DEF Persist, At, Holding
<1>2. PICK s \in {"archive", "reject"} : Goto(w, s) /\ (Fault \/ NoFault)
  BY DEF Persist, GotoOr
<1>3. /\ attempt' \in [Calls -> AttemptStates]
      /\ \A c \in Calls : attempt[c] = "archived" => attempt'[c] = "archived"
  BY <1>1, Held DEF Persist, IInv, Typed, AttemptStates
<1>4. Moves(w)
  BY <1>1, <1>2, <1>3, GoesTo, FaultsCounted DEF IInv, Moves, Persist, Typed, WorkerSteps
<1>5. SlotConsistent(w)'
  BY <1>1, <1>2, <1>4, GoesTo, Held DEF IInv, SlotConsistent, At, Mine, Moves, WorkerSteps, Holding
<1>6. PaidConsistent'
  BY <1>2, <1>4, GoesTo, PaidUnchanged DEF IInv, Persist, At, WorkerSteps
<1> QED
  BY <1>4, <1>5, <1>6, HolderMoves

LEMMA ArchiveKeeps ==
  ASSUME IInv, NEW w \in Workers, Archive(w)
  PROVE  IInv'
<1>1. Holding(w)
  BY DEF Archive, At, Holding
<1>2. PICK s \in {"complete", "fail"} : Goto(w, s)
  BY DEF Archive
<1>3. /\ attempt' \in [Calls -> AttemptStates]
      /\ \A c \in Calls : attempt[c] = "archived" => attempt'[c] = "archived"
      /\ s = "complete" => attempt'[Mine(w)] = "archived"
  BY <1>1, <1>2, Held, GoesTo DEF Archive, IInv, Typed, AttemptStates, WorkerSteps
<1>4. Moves(w)
  BY <1>1, <1>2, <1>3, GoesTo DEF IInv, Moves, Archive, Typed, WorkerSteps
<1>5. SlotConsistent(w)'
  BY <1>1, <1>2, <1>3, <1>4, GoesTo, Held DEF IInv, SlotConsistent, At, Mine, Moves, WorkerSteps, Holding
<1>6. PaidConsistent'
  BY <1>2, <1>4, GoesTo, PaidUnchanged DEF IInv, Archive, At, WorkerSteps
<1> QED
  BY <1>4, <1>5, <1>6, HolderMoves

LEMMA RejectKeeps ==
  ASSUME IInv, NEW w \in Workers, Reject(w)
  PROVE  IInv'
<1>1. Holding(w)
  BY DEF Reject, At, Holding
<1>2. Goto(w, "fail") /\ (Fault \/ NoFault)
  BY DEF Reject
<1>3. /\ attempt' \in [Calls -> AttemptStates]
      /\ \A c \in Calls : attempt[c] = "archived" => attempt'[c] = "archived"
  BY <1>1, Held DEF Reject, IInv, Typed, AttemptStates
<1>4. Moves(w)
  BY <1>1, <1>2, <1>3, GoesTo, FaultsCounted DEF IInv, Moves, Reject, Typed, WorkerSteps
<1>5. SlotConsistent(w)'
  BY <1>1, <1>2, <1>4, GoesTo, Held DEF IInv, SlotConsistent, At, Mine, Moves, WorkerSteps, Holding
<1>6. PaidConsistent'
  BY <1>2, <1>4, GoesTo, PaidUnchanged DEF IInv, Reject, At, WorkerSteps
<1> QED
  BY <1>4, <1>5, <1>6, HolderMoves

LEMMA EndingKeeps ==
  ASSUME IInv, NEW w \in Workers, NEW outcome \in Ended,
         Holding(w), call[Mine(w)].status = "running",
         outcome = "succeeded" =>
           attempt[Mine(w)] = "archived" /\ call[Mine(w)].intent,
         Ending(w, outcome), NoFault,
         UNCHANGED <<cohort, call, attempt, queue, handler, dialog, payer, runs,
                     orphaned>>
  PROVE  IInv'
<1>1. Mine(w) \in Calls
  BY Held
<1>2. OthersEnded(Mine(w)) => \A d \in Calls \ {Mine(w)} : call[d].status \in Ended
  BY <1>1 DEF OthersEnded, IInv, RowConsistent, Typed, CallRow, Open, Ended
<1> DEFINE last == [step |-> "commit", call |-> Mine(w), outcome |-> outcome,
                    settles |-> OthersEnded(Mine(w))]
<1>3. OthersEnded(Mine(w)) \in BOOLEAN
  BY DEF OthersEnded
<1>4. last \in Slot
  BY <1>1, <1>3 DEF Slot, WorkerSteps
<1>5. /\ worker' \in [Workers -> Slot]
      /\ \A v \in Workers \ {w} : worker'[v] = worker[v]
      /\ worker'[w] = last
  BY <1>4 DEF IInv, Typed, Ending
<1>6. Moves(w)
  BY <1>1, <1>5, FaultsCounted DEF IInv, Moves, Typed, Mine
<1>7. SlotConsistent(w)'
  BY <1>1, <1>2, <1>5, Held DEF SlotConsistent, At, Mine, Holding
<1>8. ~At(w, "provider")'
  BY <1>5 DEF At
<1> QED
  BY <1>6, <1>7, <1>8, PaidUnchanged, HolderMoves

LEMMA FallsBackToFail ==
  ASSUME IInv, NEW w \in Workers, Holding(w), Goto(w, "fail"), Fault \/ NoFault,
         UNCHANGED <<cohort, call, attempt, queue, handler, dialog, payer, runs,
                     orphaned>>
  PROVE  IInv'
<1>1. "fail" \in WorkerSteps
  BY DEF WorkerSteps
<1>2. Moves(w)
  BY <1>1, GoesTo, FaultsCounted DEF IInv, Moves, Typed
<1>3. Mine(w)' = Mine(w) /\ worker'[w].step = "fail"
  BY <1>1, GoesTo DEF IInv, Mine
<1>4. SlotConsistent(w)' /\ ~At(w, "provider")'
  BY <1>3, Held DEF SlotConsistent, At, Holding
<1> QED
  BY <1>2, <1>4, PaidUnchanged, HolderMoves

LEMMA CompleteKeeps ==
  ASSUME IInv, NEW w \in Workers, Complete(w)
  PROVE  IInv'
<1>1. Holding(w) /\ attempt[Mine(w)] = "archived"
  BY DEF Complete, At, Holding, IInv, SlotConsistent
<1> QED
  BY <1>1, EndingKeeps, FallsBackToFail DEF Complete, Ended

-----------------------------------------------------------------------------
(* A slot leaves its job *)

\* The job is left behind only when its call is no longer queued, or as an
\* orphan.
LEMMA SlotLeaves ==
  ASSUME IInv, NEW w \in Workers, ~At(w, "free"), Leave(w), Fault \/ NoFault,
         UNCHANGED <<cohort, call, attempt, queue, handler, dialog, payer, runs>>,
         orphaned' \in {orphaned, orphaned \cup {Mine(w)}},
         At(w, "claim") => call[Mine(w)].status # "queued" \/ Mine(w) \in orphaned'
  PROVE  IInv'
<1>1. Mine(w) \in Calls
  BY DEF IInv, SlotConsistent
<1>2. Free \in Slot
  BY DEF Free, Slot, WorkerSteps, Ended
<1>3. /\ worker' \in [Workers -> Slot]
      /\ \A v \in Workers \ {w} : worker'[v] = worker[v]
      /\ worker'[w] = Free
  BY <1>2 DEF Leave, IInv, Typed
<1>4. Typed'
  BY <1>1, <1>3, FaultsCounted DEF IInv, Typed
<1>5. \A c \in Calls : RowConsistent(c)'
  BY DEF IInv, RowConsistent
<1>6. ASSUME NEW v \in Workers PROVE SlotConsistent(v)'
  <2>1. CASE v = w
    BY <1>3, <2>1 DEF SlotConsistent, At, Free, Holding
  <2>2. CASE v # w
    BY <1>3, <2>2 DEF IInv, SlotConsistent, At, Mine, Holding
  <2> QED
    BY <2>1, <2>2
<1>7. HeldOnce'
  BY <1>3 DEF IInv, HeldOnce, Holding, Mine, Free
<1>8. PaidConsistent'
  BY <1>3 DEF IInv, PaidConsistent, At, Mine, Free
<1>9. CohortStatusIsEarned'
  BY DEF IInv, CohortStatusIsEarned
<1>10. ASSUME NEW c \in Calls, HasJob(c) PROVE HasJob(c)'
  BY <1>3, <1>10 DEF HasJob, At, Mine
<1>11. \A h \in Handlers : HandlerConsistent(h)'
  BY <1>10 DEF IInv, HandlerConsistent, Serving
<1> QED
  BY <1>4, <1>5, <1>6, <1>7, <1>8, <1>9, <1>10, <1>11 DEF IInv

LEMMA SkipKeeps ==
  ASSUME IInv, NEW w \in Workers, Skip(w)
  PROVE  IInv'
<1>1. ~At(w, "free") /\ Mine(w) \in Calls
  BY DEF Skip, At, IInv, SlotConsistent
<1>2. ~Claimable(call[Mine(w)]) => call[Mine(w)].status # "queued"
  BY <1>1 DEF Claimable, IInv, RowConsistent, Ended
<1> QED
  BY <1>1, <1>2, SlotLeaves DEF Skip

LEMMA WorkerCrashKeeps ==
  ASSUME IInv, NEW w \in Workers, WorkerCrash(w)
  PROVE  IInv'
BY SlotLeaves DEF WorkerCrash

LEMMA FailKeeps ==
  ASSUME IInv, NEW w \in Workers, Fail(w)
  PROVE  IInv'
<1>1. Holding(w) /\ ~At(w, "free") /\ ~At(w, "claim")
  BY DEF Fail, At, Holding
<1>2. CASE call[Mine(w)].status = "running" /\ Ending(w, "failed") /\ NoFault
           /\ UNCHANGED orphaned
  BY <1>1, <1>2, EndingKeeps DEF Fail, Ended
<1>3. CASE Leave(w) /\ NoFault /\ UNCHANGED orphaned
  BY <1>1, <1>3, SlotLeaves DEF Fail
<1>4. CASE Leave(w) /\ Fault /\ orphaned' = orphaned \cup {Mine(w)}
  BY <1>1, <1>4, SlotLeaves DEF Fail
<1> QED
  BY <1>2, <1>3, <1>4 DEF Fail

LEMMA RollBackKeeps ==
  ASSUME IInv, NEW w \in Workers, RollBack(w)
  PROVE  IInv'
<1>1. Holding(w) /\ ~At(w, "free") /\ ~At(w, "claim")
  BY DEF RollBack, At, Holding
<1> QED
  BY <1>1, SlotLeaves, FallsBackToFail DEF RollBack, ThrownBy

-----------------------------------------------------------------------------
(* Steps of a slot that change the calls or the queue *)

LEMMA FetchKeeps ==
  ASSUME IInv, NEW w \in Workers, NEW d \in Calls, Fetch(w, d)
  PROVE  IInv'
<1> DEFINE fetched == [Free EXCEPT !.step = "claim", !.call = d]
<1>1. fetched \in Slot /\ fetched.step = "claim" /\ fetched.call = d
  <2>1. ASSUME NEW r \in Slot
        PROVE  LET taken == [r EXCEPT !.step = "claim", !.call = d]
               IN  taken \in Slot /\ taken.step = "claim" /\ taken.call = d
    BY DEF Slot, WorkerSteps
  <2>2. Free \in Slot
    BY DEF Free, Slot, WorkerSteps, Ended
  <2> QED
    BY <2>1, <2>2
<1>2. /\ worker' \in [Workers -> Slot]
      /\ \A v \in Workers \ {w} : worker'[v] = worker[v]
      /\ worker'[w] = fetched
  BY <1>1 DEF Fetch, IInv, Typed
<1>3. /\ queue' \in [Calls -> Nat]
      /\ \A c \in Calls \ {d} : queue'[c] = queue[c]
  BY DEF Fetch, IInv, Typed
<1> HIDE DEF fetched
<1>4. Typed'
  BY <1>2, <1>3 DEF Fetch, IInv, Typed
<1>5. \A c \in Calls : RowConsistent(c)'
  BY DEF IInv, RowConsistent, Fetch
<1>6. ASSUME NEW v \in Workers PROVE SlotConsistent(v)'
  <2>1. CASE v = w
    BY <1>1, <1>2, <2>1 DEF SlotConsistent, At, Mine, Holding
  <2>2. CASE v # w
    BY <1>2, <2>2 DEF IInv, SlotConsistent, At, Mine, Holding, Fetch
  <2> QED
    BY <2>1, <2>2
<1>7. HeldOnce'
  BY <1>1, <1>2 DEF IInv, HeldOnce, Holding, Mine
<1>8. PaidConsistent'
  BY <1>1, <1>2 DEF IInv, PaidConsistent, At, Mine, Fetch
<1>9. CohortStatusIsEarned'
  BY DEF IInv, CohortStatusIsEarned, Fetch
<1>10. ASSUME NEW c \in Calls, HasJob(c) PROVE HasJob(c)'
  BY <1>1, <1>2, <1>3, <1>10 DEF HasJob, At, Mine, Fetch
<1>11. \A h \in Handlers : HandlerConsistent(h)'
  BY <1>10 DEF IInv, HandlerConsistent, Serving, Fetch
<1> QED
  BY <1>4, <1>5, <1>6, <1>7, <1>8, <1>9, <1>10, <1>11 DEF IInv, Fetch

\* The claim: a queued call gets its one holder, or is orphaned.
LEMMA ClaimKeeps ==
  ASSUME IInv, NEW w \in Workers, Claim(w)
  PROVE  IInv'
<1> DEFINE d == Mine(w)
<1>1. d \in Calls /\ call[d].status = "queued" /\ ~call[d].intent /\ ~call[d].run
  BY DEF Claim, Claimable, At, IInv, SlotConsistent, RowConsistent
<1>2. cohort # "none" /\ cohort # "completed"
  BY <1>1 DEF IInv, RowConsistent, CohortStatusIsEarned, Ended
<1>3. /\ call' \in [Calls -> CallRow]
      /\ \A c \in Calls \ {d} : call'[c] = call[c]
      /\ call'[d] = [call[d] EXCEPT !.status = "running"]
  BY <1>1 DEF Claim, CallClaimed, IInv, Typed, CallRow, Open
<1>4. /\ call'[d].status = "running" /\ ~call'[d].intent /\ ~call'[d].run
      /\ call'[d].dispatched = call[d].dispatched
  BY <1>1, <1>3 DEF IInv, Typed, CallRow
<1>5. cohort' = "running"
  BY <1>2 DEF Claim, CallClaimed, IInv, Typed
<1>6. /\ worker' \in [Workers -> Slot]
      /\ \A v \in Workers \ {w} : worker'[v] = worker[v]
      /\ \/ worker'[w].step = "free"
         \/ worker'[w].step = "attempt" /\ worker'[w].call = d
  <2>1. CASE Goto(w, "attempt")
    BY <2>1, GoesTo DEF IInv, WorkerSteps, Mine
  <2>2. CASE Leave(w)
    BY <2>2 DEF Leave, Free, Slot, IInv, Typed, WorkerSteps, Ended
  <2> QED
    BY <2>1, <2>2 DEF Claim
<1>7. \A v \in Workers : Holding(v) => Mine(v) # d /\ Mine(v) \in Calls
  BY <1>1, Held DEF Ended
<1>8. orphaned' \subseteq Calls /\ orphaned \subseteq orphaned'
  BY <1>1 DEF Claim, IInv, Typed
<1> HIDE DEF d
<1>9. Typed'
  BY <1>3, <1>5, <1>6, <1>8, FaultsCounted DEF Claim, IInv, Typed
<1>10. ASSUME NEW c \in Calls PROVE RowConsistent(c)'
  <2>1. CASE c = d
    BY <1>4, <1>5, <2>1 DEF RowConsistent, Ended
  <2>2. CASE c # d
    BY <1>2, <1>3, <1>5, <2>2 DEF IInv, RowConsistent, Claim
  <2> QED
    BY <2>1, <2>2
<1>11. ASSUME NEW v \in Workers PROVE SlotConsistent(v)'
  <2>1. CASE v = w
    BY <1>1, <1>4, <1>6, <2>1 DEF SlotConsistent, At, Mine, Holding
  <2>2. CASE v # w
    <3>1. worker'[v] = worker[v] /\ SlotConsistent(v)
      BY <1>6, <2>2 DEF IInv
    <3>2. At(v, "commit") => ~worker[v].settles
      BY <1>1, <1>7, <3>1 DEF SlotConsistent, Ended, At, Holding
    <3> QED
      BY <1>3, <1>7, <3>1, <3>2 DEF SlotConsistent, At, Mine, Holding, Claim
  <2> QED
    BY <2>1, <2>2
<1>12. HeldOnce'
  BY <1>6, <1>7 DEF IInv, HeldOnce, Holding, Mine
<1>13. PaidConsistent'
  <2>1. \A c \in Calls : call'[c].intent <=> call[c].intent
    BY <1>1, <1>3, <1>4
  <2> QED
    BY <1>6, <2>1 DEF IInv, PaidConsistent, At, Mine, Claim
<1>14. CohortStatusIsEarned'
  BY <1>5 DEF CohortStatusIsEarned
<1>15. ASSUME NEW c \in Calls, HasJob(c) PROVE HasJob(c)'
  <2>1. CASE c = d
    BY <1>4, <2>1 DEF HasJob
  <2>2. CASE c # d
    BY <1>3, <1>6, <1>8, <1>15, <2>2 DEF HasJob, At, Mine, Claim, d
  <2> QED
    BY <2>1, <2>2
<1>16. \A h \in Handlers : HandlerConsistent(h)'
  BY <1>5, <1>15 DEF IInv, HandlerConsistent, Serving, Claim
<1>17. \A c \in Calls : call'[c].dispatched => call[c].dispatched
  BY <1>3, <1>4
<1> QED
  BY <1>9, <1>10, <1>11, <1>12, <1>13, <1>14, <1>15, <1>16, <1>17 DEF IInv

\* The end of a call.  Its slot leaves, or goes on to fail it once more.
LEMMA CommitKeeps ==
  ASSUME IInv, NEW w \in Workers, Commit(w)
  PROVE  IInv'
<1> DEFINE d == Mine(w)
           outcome == worker[w].outcome
<1>1. /\ d \in Calls /\ call[d].status = "running" /\ ~call[d].run
      /\ outcome \in Ended
      /\ outcome = "succeeded" => attempt[d] = "archived" /\ call[d].intent
      /\ worker[w].settles => \A c \in Calls \ {d} : call[c].status \in Ended
  <2>1. d \in Calls /\ call[d].status = "running"
    BY DEF Commit, At, IInv, SlotConsistent
  <2> QED
    BY <2>1 DEF Commit, At, IInv, SlotConsistent, RowConsistent, Typed, Slot
<1>2. Holding(w) /\ \A v \in Workers \ {w} : Holding(v) => Mine(v) # d /\ Mine(v) \in Calls
  <2>1. Holding(w)
    BY DEF Commit, At, Holding
  <2> QED
    BY <2>1, Held
<1>3. /\ call' \in [Calls -> CallRow]
      /\ \A c \in Calls \ {d} : call'[c] = call[c]
      /\ call'[d] = [call[d] EXCEPT !.status = outcome,
                                    !.run = @ \/ outcome = "succeeded"]
  BY <1>1 DEF Commit, IInv, Typed, CallRow
<1>4. /\ call'[d].status = outcome /\ call'[d].intent = call[d].intent
      /\ call'[d].run <=> outcome = "succeeded"
      /\ call'[d].dispatched = call[d].dispatched
  BY <1>1, <1>3 DEF IInv, Typed, CallRow
<1>5. cohort # "none" /\ cohort # "dispatch_pending" /\ cohort # "completed"
  BY <1>1 DEF IInv, RowConsistent, CohortStatusIsEarned, Ended
<1>6. cohort' \in {"running", "completed"}
      /\ (cohort' = "completed" => \A c \in Calls \ {d} : call[c].status \in Ended)
  BY <1>1, <1>5 DEF Commit, IInv, Typed
<1>7. /\ worker' \in [Workers -> Slot]
      /\ \A v \in Workers \ {w} : worker'[v] = worker[v]
      /\ \/ worker'[w].step = "free"
         \/ worker'[w].step = "fail" /\ worker'[w].call = d
  <2>1. CASE Goto(w, "fail")
    BY <2>1, GoesTo DEF IInv, WorkerSteps, Mine
  <2>2. CASE Leave(w)
    BY <2>2 DEF Leave, Free, Slot, IInv, Typed, WorkerSteps, Ended
  <2> QED
    BY <2>1, <2>2 DEF Commit, ThrownBy
<1>8. orphaned' \subseteq Calls /\ orphaned \subseteq orphaned' /\ (Fault \/ NoFault)
  BY <1>1 DEF Commit, ThrownBy, IInv, Typed
<1>9. UNCHANGED <<attempt, queue, handler, dialog, payer, runs>>
  BY DEF Commit
<1>10. At(w, "commit")
  BY DEF Commit
<1> HIDE DEF d, outcome
<1>11. Typed'
  BY <1>3, <1>6, <1>7, <1>8, <1>9, FaultsCounted DEF IInv, Typed
<1>12. ASSUME NEW c \in Calls PROVE RowConsistent(c)'
  <2>1. CASE c = d
    BY <1>1, <1>4, <1>6, <1>9, <2>1 DEF RowConsistent, Ended
  <2>2. CASE c # d
    BY <1>3, <1>5, <1>6, <1>9, <2>2 DEF IInv, RowConsistent
  <2> QED
    BY <2>1, <2>2
<1>13. ASSUME NEW v \in Workers PROVE SlotConsistent(v)'
  <2>1. CASE v = w
    BY <1>1, <1>4, <1>7, <2>1 DEF SlotConsistent, At, Mine, Holding
  <2>2. CASE v # w
    <3>1. worker'[v] = worker[v] /\ SlotConsistent(v)
      BY <1>7, <2>2 DEF IInv
    <3>2. \A c \in Calls : call[c].status \in Ended => call'[c].status \in Ended
      BY <1>1, <1>3, <1>4
    <3> QED
      BY <1>2, <1>3, <1>9, <2>2, <3>1, <3>2 DEF SlotConsistent, At, Mine, Holding
  <2> QED
    BY <2>1, <2>2
<1>14. HeldOnce'
  BY <1>2, <1>7 DEF IInv, HeldOnce, Holding, Mine, d
<1>15. PaidConsistent'
  <2>1. \A c \in Calls : call'[c].intent = call[c].intent
    BY <1>3, <1>4
  <2> QED
    BY <1>7, <1>9, <2>1 DEF IInv, PaidConsistent, At, Mine
<1>16. CohortStatusIsEarned'
  BY <1>1, <1>3, <1>4, <1>6 DEF CohortStatusIsEarned
<1>17. ASSUME NEW c \in Calls, HasJob(c) PROVE HasJob(c)'
  <2>1. CASE c = d
    BY <1>1, <1>4, <2>1 DEF HasJob, Ended
  <2>2. CASE c # d
    BY <1>3, <1>7, <1>8, <1>9, <1>10, <1>17, <2>2 DEF HasJob, At, Mine
  <2> QED
    BY <2>1, <2>2
<1>18. \A h \in Handlers : HandlerConsistent(h)'
  BY <1>6, <1>9, <1>17 DEF IInv, HandlerConsistent, Serving
<1>19. \A c \in Calls : call'[c].dispatched => call[c].dispatched
  BY <1>3, <1>4
<1> QED
  BY <1>11, <1>12, <1>13, <1>14, <1>15, <1>16, <1>17, <1>18, <1>19 DEF IInv

-----------------------------------------------------------------------------
(* Steps of the portal *)

\* The cohort and the claims are left alone; calls may be marked as dispatched
\* and jobs added.
LEMMA PortalMoves ==
  ASSUME IInv,
         UNCHANGED <<cohort, attempt, worker, payer, runs, orphaned>>,
         call' \in [Calls -> CallRow],
         \A c \in Calls : /\ call'[c].status = call[c].status
                          /\ call'[c].intent = call[c].intent
                          /\ call'[c].run = call[c].run
                          /\ call'[c].dispatched =>
                               call[c].dispatched \/ (cohort # "none" /\ HasJob(c)),
         queue' \in [Calls -> Nat],
         \A c \in Calls : queue'[c] >= queue[c],
         handler' \in [Handlers -> Request],
         dialog' \in {"ready", "closed"} \cup Handlers,
         Fault \/ NoFault,
         \A h \in Handlers :
           /\ handler'[h].step \in {"list", "send", "mark"} => cohort # "none"
           /\ handler'[h].step = "mark" =>
                /\ handler'[h].call \in Calls
                /\ HasJob(handler'[h].call) \/ queue'[handler'[h].call] > 0
  PROVE  IInv'
<1>1. Typed'
  BY FaultsCounted DEF IInv, Typed
<1>2. \A c \in Calls : RowConsistent(c)'
  BY DEF IInv, RowConsistent
<1>3. ASSUME NEW w \in Workers PROVE SlotConsistent(w)'
  <2>1. SlotConsistent(w)
    BY DEF IInv
  <2> QED
    BY <2>1 DEF SlotConsistent, At, Mine, Holding
<1>4. HeldOnce'
  BY DEF IInv, HeldOnce, Holding, Mine
<1>5. PaidConsistent'
  <2>1. \A w \in Workers : At(w, "provider") => Mine(w) \in Calls
    BY DEF IInv, SlotConsistent, At
  <2> QED
    BY <2>1 DEF IInv, PaidConsistent, At, Mine
<1>6. CohortStatusIsEarned'
  BY DEF IInv, CohortStatusIsEarned
<1>7. ASSUME NEW c \in Calls, HasJob(c) PROVE HasJob(c)'
  <2>1. queue[c] \in Nat /\ queue'[c] \in Nat
    BY DEF IInv, Typed
  <2> QED
    BY <1>7, <2>1 DEF HasJob, At, Mine
<1>8. \A h \in Handlers : HandlerConsistent(h)'
  BY <1>7 DEF HandlerConsistent, Serving, HasJob
<1>9. \A c \in Calls : (call[c].dispatched => HasJob(c))'
  BY <1>7 DEF IInv
<1> QED
  BY <1>1, <1>2, <1>3, <1>4, <1>5, <1>6, <1>8, <1>9 DEF IInv

\* The calls and the queue are left alone, too.
LEMMA PortalTurns ==
  ASSUME IInv,
         UNCHANGED <<cohort, call, attempt, queue, worker, payer, runs, orphaned>>,
         handler' \in [Handlers -> Request],
         dialog' \in {"ready", "closed"} \cup Handlers,
         Fault \/ NoFault,
         \A h \in Handlers :
           \/ handler'[h] = handler[h]
           \/ handler'[h].step \in {"off", "create"}
           \/ handler'[h].step = "send" /\ cohort # "none"
  PROVE  IInv'
<1>1. \A h \in Handlers :
        /\ handler'[h].step \in {"list", "send", "mark"} => cohort # "none"
        /\ handler'[h].step = "mark" =>
             handler'[h].call \in Calls /\ HasJob(handler'[h].call)
  BY DEF IInv, HandlerConsistent, Serving
<1>2. call \in [Calls -> CallRow] /\ queue \in [Calls -> Nat]
  BY DEF IInv, Typed
<1>3. \A c \in Calls : queue[c] >= queue[c]
  BY <1>2
<1> QED
  BY <1>1, <1>2, <1>3, PortalMoves

\* A request that is off is a request.
LEMMA OffTyped == Off \in Request /\ Off.step = "off"
BY DEF Off, Request, HandlerSteps

LEMMA PortalQuietKeeps ==
  ASSUME IInv, NEW h \in Handlers,
         Press(h) \/ Refuse(h) \/ ListUndispatched(h) \/ Respond(h) \/ WebCrash(h)
  PROVE  IInv'
<1>0. /\ handler \in [Handlers -> Request]
      /\ dialog \in {"ready", "closed"} \cup Handlers
      /\ UNCHANGED faults => Fault \/ NoFault
  BY DEF IInv, Typed, NoFault
<1>1. CASE Press(h)
  <2>1. /\ handler' \in [Handlers -> Request]
        /\ handler'[h].step = "create"
        /\ \A g \in Handlers \ {h} : handler'[g] = handler[g]
    BY <1>0, <1>1 DEF Press, Serve, Request, HandlerSteps
  <2> QED
    BY <1>0, <1>1, <2>1, PortalTurns DEF Press
<1>2. CASE Refuse(h) \/ WebCrash(h) \/ Respond(h)
  <2>1. /\ handler' \in [Handlers -> Request]
        /\ handler'[h].step = "off"
        /\ \A g \in Handlers \ {h} : handler'[g] = handler[g]
    BY <1>0, <1>2, OffTyped DEF Refuse, WebCrash, Respond, Dies
  <2>2. dialog' \in {"ready", "closed"} \cup Handlers
    BY <1>0, <1>2 DEF Refuse, WebCrash, Respond, Dies
  <2> QED
    BY <1>0, <1>2, <2>1, <2>2, PortalTurns DEF Refuse, WebCrash, Respond
<1>3. CASE ListUndispatched(h)
  <2> DEFINE listed == [step |-> "send", todo |-> {c \in Calls : Undispatched(c)},
                        call |-> Nobody]
  <2>1. listed \in Request
    BY DEF Request, HandlerSteps
  <2>2. /\ handler' \in [Handlers -> Request]
        /\ handler'[h].step = "send"
        /\ \A g \in Handlers \ {h} : handler'[g] = handler[g]
    BY <1>0, <1>3, <2>1 DEF ListUndispatched
  <2>3. cohort # "none"
    BY <1>3 DEF ListUndispatched, Serving, IInv, HandlerConsistent
  <2> QED
    BY <1>0, <1>3, <2>2, <2>3, PortalTurns DEF ListUndispatched
<1> QED
  BY <1>1, <1>2, <1>3

LEMMA DialogKeeps ==
  ASSUME IInv, LoseResponse \/ Forget
  PROVE  IInv'
<1>1. /\ handler \in [Handlers -> Request]
      /\ UNCHANGED faults => Fault \/ NoFault
  BY DEF IInv, Typed, NoFault
<1> QED
  BY <1>1, PortalTurns DEF LoseResponse, Forget

\* A call that is passed over.
LEMMA PassedOver ==
  ASSUME IInv, NEW h \in Handlers, NEW c, PassOver(h, c)
  PROVE  /\ handler' \in [Handlers -> Request]
         /\ handler'[h].step = "send"
         /\ \A g \in Handlers \ {h} : handler'[g] = handler[g]
<1> DEFINE next == [step |-> "send", todo |-> handler[h].todo \ {c}, call |-> Nobody]
<1>1. next \in Request
  BY DEF IInv, Typed, Request, HandlerSteps
<1> QED
  BY <1>1 DEF PassOver, IInv, Typed

LEMMA SendKeeps ==
  ASSUME IInv, NEW h \in Handlers, NEW c \in Calls, Send(h, c)
  PROVE  IInv'
<1>1. /\ call \in [Calls -> CallRow]
      /\ handler \in [Handlers -> Request] /\ queue \in [Calls -> Nat]
      /\ dialog \in {"ready", "closed"} \cup Handlers
  BY DEF IInv, Typed
<1>2. /\ queue' \in [Calls -> Nat]
      /\ \A d \in Calls : queue'[d] >= queue[d]
  BY <1>1 DEF Send
<1>3. cohort # "none"
  BY DEF Send, Serving, IInv, HandlerConsistent
<1>4. \A g \in Handlers :
        /\ handler[g].step \in {"list", "send", "mark"} => cohort # "none"
        /\ handler[g].step = "mark" =>
             handler[g].call \in Calls /\ HasJob(handler[g].call)
  BY DEF IInv, HandlerConsistent, Serving
<1>5. /\ handler' \in [Handlers -> Request]
      /\ \A g \in Handlers \ {h} : handler'[g] = handler[g]
      /\ \/ handler'[h].step = "send"
         \/ handler'[h].step = "mark" /\ handler'[h].call = c /\ queue'[c] > 0
  <2>1. CASE PassOver(h, c)
    BY <2>1, PassedOver
  <2>2. CASE /\ queue' = [queue EXCEPT ![c] = @ + 1] \/ (queue[c] > 0 /\ UNCHANGED queue)
             /\ handler' = [handler EXCEPT ![h].step = "mark", ![h].call = c]
    <3>1. queue'[c] > 0
      BY <1>1, <2>2
    <3> QED
      BY <1>1, <2>2, <3>1 DEF Request, HandlerSteps
  <2> QED
    BY <2>1, <2>2 DEF Send
<1>6. Fault \/ NoFault
  BY DEF Send
<1>7. UNCHANGED <<cohort, call, attempt, worker, dialog, payer, runs, orphaned>>
  BY DEF Send
<1> QED
  BY <1>1, <1>2, <1>3, <1>4, <1>5, <1>6, <1>7, PortalMoves

LEMMA MarkDispatchedKeeps ==
  ASSUME IInv, NEW h \in Handlers, MarkDispatched(h)
  PROVE  IInv'
<1> DEFINE d == handler[h].call
<1>1. d \in Calls /\ HasJob(d) /\ cohort # "none"
  BY DEF MarkDispatched, Serving, IInv, HandlerConsistent
<1>2. /\ call \in [Calls -> CallRow] /\ queue \in [Calls -> Nat]
      /\ dialog \in {"ready", "closed"} \cup Handlers
      /\ \A c \in Calls : queue[c] >= queue[c]
  BY DEF IInv, Typed
<1>3. /\ handler' \in [Handlers -> Request]
      /\ handler'[h].step = "send"
      /\ \A g \in Handlers \ {h} : handler'[g] = handler[g]
  BY PassedOver DEF MarkDispatched
<1>4. \A g \in Handlers :
        /\ handler[g].step \in {"list", "send", "mark"} => cohort # "none"
        /\ handler[g].step = "mark" =>
             handler[g].call \in Calls /\ HasJob(handler[g].call)
  BY DEF IInv, HandlerConsistent, Serving
<1>5. UNCHANGED <<cohort, attempt, queue, worker, dialog, payer, runs, orphaned>>
  BY DEF MarkDispatched
<1>6. CASE Fault /\ UNCHANGED call
  BY <1>1, <1>2, <1>3, <1>4, <1>5, <1>6, PortalMoves
<1>7. CASE call' = [call EXCEPT ![d].dispatched = Undispatched(d) \/ @] /\ NoFault
  <2>1. Undispatched(d) \/ call[d].dispatched \in BOOLEAN
    BY <1>1, <1>2 DEF Undispatched, CallRow
  <2>2. /\ call' \in [Calls -> CallRow]
        /\ \A c \in Calls \ {d} : call'[c] = call[c]
        /\ call'[d] = [call[d] EXCEPT !.dispatched = Undispatched(d) \/ @]
    BY <1>1, <1>2, <1>7, <2>1 DEF CallRow
  <2>3. \A c \in Calls : /\ call'[c].status = call[c].status
                         /\ call'[c].intent = call[c].intent
                         /\ call'[c].run = call[c].run
                         /\ c # d => call'[c].dispatched = call[c].dispatched
    BY <1>1, <1>2, <2>2 DEF CallRow
  <2> HIDE DEF d
  <2> QED
    BY <1>1, <1>2, <1>3, <1>4, <1>5, <1>7, <2>2, <2>3, PortalMoves
<1> QED
  BY <1>6, <1>7 DEF MarkDispatched

LEMMA CreateKeeps ==
  ASSUME IInv, NEW h \in Handlers, Create(h)
  PROVE  IInv'
<1>1. /\ handler \in [Handlers -> Request]
      /\ dialog \in {"ready", "closed"} \cup Handlers
      /\ call \in [Calls -> CallRow] /\ queue \in [Calls -> Nat]
      /\ \A c \in Calls : queue[c] >= queue[c]
  BY DEF IInv, Typed
<1>2. /\ handler' \in [Handlers -> Request]
      /\ \A g \in Handlers \ {h} : handler'[g] = handler[g]
      /\ handler'[h].step \in {"list", "off"}
      /\ dialog' \in {"ready", "closed"} \cup Handlers
      /\ Fault \/ NoFault
  <2>1. CASE Serve(h, "list") /\ UNCHANGED dialog /\ NoFault
    BY <1>1, <2>1 DEF Serve, Request, HandlerSteps
  <2>2. CASE Dies(h) /\ Fault
    BY <1>1, <2>2, OffTyped DEF Dies
  <2> QED
    BY <2>1, <2>2 DEF Create
<1>3. UNCHANGED <<attempt, queue, worker, payer, runs, orphaned>>
  BY DEF Create
<1>4. \A g \in Handlers :
        /\ handler[g].step \in {"list", "send", "mark"} => cohort # "none"
        /\ handler[g].step = "mark" =>
             handler[g].call \in Calls /\ HasJob(handler[g].call)
  BY DEF IInv, HandlerConsistent, Serving
<1>5. CASE cohort # "none"
  <2>1. UNCHANGED <<cohort, call>>
    BY <1>5 DEF Create, Created, cohortVars
  <2> QED
    BY <1>1, <1>2, <1>3, <1>4, <1>5, <2>1, PortalMoves
<1>6. CASE cohort = "none"
  <2>1. /\ cohort' = "dispatch_pending"
        /\ call' = [c \in Calls |-> [call[c] EXCEPT !.status = "queued"]]
    BY <1>6 DEF Create, Created
  <2>2. /\ call' \in [Calls -> CallRow]
        /\ \A c \in Calls : /\ call'[c].status = "queued"
                            /\ call'[c].dispatched = call[c].dispatched
                            /\ call'[c].intent = call[c].intent
                            /\ call'[c].run = call[c].run
    BY <1>1, <2>1 DEF CallRow, Open
  <2>3. \A c \in Calls : /\ ~call[c].dispatched /\ ~call[c].intent /\ ~call[c].run
    BY <1>6 DEF IInv, RowConsistent, Ended
  <2>4. \A w \in Workers : ~Holding(w)
    BY <1>6, Held DEF IInv, RowConsistent, Ended
  <2>5. Typed'
    BY <1>2, <1>3, <2>1, <2>2, FaultsCounted DEF IInv, Typed
  <2>6. \A c \in Calls : RowConsistent(c)'
    BY <2>1, <2>2, <2>3 DEF RowConsistent
  <2>7. \A w \in Workers : SlotConsistent(w)'
    BY <1>3, <2>4 DEF IInv, SlotConsistent, At, Mine, Holding
  <2>8. HeldOnce' /\ PaidConsistent'
    BY <1>3, <2>2 DEF IInv, HeldOnce, PaidConsistent, Holding, At, Mine
  <2>9. CohortStatusIsEarned'
    BY <2>1, <2>2 DEF CohortStatusIsEarned
  <2>10. \A g \in Handlers : HandlerConsistent(g)'
    BY <1>2, <1>4, <1>6, <2>1 DEF HandlerConsistent, Serving
  <2>11. \A c \in Calls : (call[c].dispatched => HasJob(c))'
    BY <2>2, <2>3
  <2> QED
    BY <2>5, <2>6, <2>7, <2>8, <2>9, <2>10, <2>11 DEF IInv
<1> QED
  BY <1>5, <1>6

-----------------------------------------------------------------------------
LEMMA InitHolds == OverseasInit => IInv
<1> SUFFICES ASSUME OverseasInit PROVE IInv
  OBVIOUS
<1>1. Free \in Slot /\ Off \in Request
  BY OffTyped DEF Free, Slot, WorkerSteps, Ended
<1>2. Typed
  BY <1>1, OverseasConstants DEF OverseasInit, Typed, CallRow, AttemptStates
<1>3. \A w \in Workers : At(w, "free")
  BY DEF OverseasInit, At, Free
<1>4. \A h \in Handlers : Serving(h, "off")
  BY DEF OverseasInit, Serving, Off
<1> QED
  BY <1>2, <1>3, <1>4
     DEF IInv, OverseasInit, RowConsistent, SlotConsistent, HeldOnce, Holding,
         PaidConsistent, CohortStatusIsEarned, HandlerConsistent, HasJob, At,
         Serving, Ended

LEMMA StepKeeps == IInv /\ [Next]_overseasVars => IInv'
<1> SUFFICES ASSUME IInv, [Next]_overseasVars PROVE IInv'
  OBVIOUS
<1>1. CASE UNCHANGED overseasVars
  BY <1>1 DEF overseasVars, IInv, Typed, RowConsistent, SlotConsistent, HeldOnce,
       Holding, PaidConsistent, CohortStatusIsEarned, HandlerConsistent, HasJob,
       At, Mine, Serving
<1>2. ASSUME NEW h \in Handlers,
             Portal(h) \/ Press(h) \/ Refuse(h) \/ WebCrash(h)
      PROVE  IInv'
  BY <1>2, CreateKeeps, SendKeeps, MarkDispatchedKeeps, PortalQuietKeeps DEF Portal
<1>3. ASSUME NEW w \in Workers, Work(w) \/ RollBack(w) \/ WorkerCrash(w)
      PROVE  IInv'
  BY <1>3, ClaimKeeps, SkipKeeps, StartAttemptKeeps, RecordPaidIntentKeeps,
     RunProviderKeeps, PersistKeeps, ArchiveKeeps, RejectKeeps, CompleteKeeps,
     FailKeeps, CommitKeeps, FetchKeeps, RollBackKeeps, WorkerCrashKeeps
     DEF Work
<1>4. CASE LoseResponse \/ Forget
  BY <1>4, DialogKeeps
<1> QED
  BY <1>1, <1>2, <1>3, <1>4 DEF Next

THEOREM Invariance == OverseasSpec => []IInv
BY InitHolds, StepKeeps, PTL DEF OverseasSpec

-----------------------------------------------------------------------------
(* Theorems *)

\* Type correctness, with the CHECK constraints of the calls.
THEOREM OverseasTypeCorrect == OverseasSpec => []OverseasTypeOK
<1>1. IInv => OverseasTypeOK
  BY DEF IInv, OverseasTypeOK, Typed, RowConsistent, Ended
<1> QED
  BY <1>1, Invariance, PTL

\* A call succeeds only with its snapshot archived.
THEOREM SuccessArchived == OverseasSpec => []SuccessIsArchived
<1>1. IInv => SuccessIsArchived
  BY DEF IInv, SuccessIsArchived, RowConsistent
<1> QED
  BY <1>1, Invariance, PTL

\* The cohort's status never claims more than its calls show.
THEOREM CohortStatusEarned == OverseasSpec => []CohortStatusIsEarned
<1>1. IInv => CohortStatusIsEarned
  BY DEF IInv
<1> QED
  BY <1>1, Invariance, PTL

\* A dispatched call that is queued has a job, or its job died.
THEOREM NoJobLost == OverseasSpec => []DispatchedHasJob
<1>1. IInv => DispatchedHasJob
  BY DEF IInv, DispatchedHasJob, HasJob
<1> QED
  BY <1>1, Invariance, PTL

-----------------------------------------------------------------------------
(* The ends of the calls, and the refinement of SubmitOnce *)

\* What EndsAreFinal asks of a step.
KeepsEnd(c) ==
  /\ call[c].status \in Ended => call'[c] = call[c]
  /\ call[c].intent => call'[c].intent /\ call'[c].status # "queued"

\* The row of d has changed, or none has.
LEMMA OpenRowChanges ==
  ASSUME IInv, NEW d \in Calls, call[d].status \notin Ended,
         call' \in [Calls -> CallRow],
         \A c \in Calls \ {d} : call'[c] = call[c],
         call[d].intent => call'[d].intent /\ call'[d].status # "queued",
         NEW c \in Calls
  PROVE  KeepsEnd(c)
<1>1. call[c].intent => call[c].status # "queued"
  BY DEF IInv, RowConsistent, Ended
<1> QED
  BY <1>1 DEF KeepsEnd

LEMMA SlotKeepsEnd ==
  ASSUME IInv, NEW w \in Workers, Claim(w) \/ RecordPaidIntent(w) \/ Commit(w),
         NEW c \in Calls
  PROVE  KeepsEnd(c)
<1>1. call \in [Calls -> CallRow] /\ \A e \in Calls : RowConsistent(e)
  BY DEF IInv, Typed
<1>2. CASE Claim(w)
  <2>1. Mine(w) \in Calls /\ call[Mine(w)].status = "queued" /\ ~call[Mine(w)].intent
    BY <1>2 DEF Claim, Claimable, At, IInv, SlotConsistent
  <2>2. /\ call' \in [Calls -> CallRow]
        /\ \A e \in Calls \ {Mine(w)} : call'[e] = call[e]
    BY <1>1, <1>2, <2>1 DEF Claim, CallClaimed, CallRow, Open
  <2> QED
    BY <2>1, <2>2, OpenRowChanges DEF Ended
<1>3. CASE RecordPaidIntent(w)
  <2>1. CASE UNCHANGED call
    BY <1>1, <2>1 DEF KeepsEnd, RowConsistent, Ended
  <2>2. CASE /\ call[Mine(w)].status = "running" /\ ~call[Mine(w)].intent
             /\ call' = [call EXCEPT ![Mine(w)].intent = TRUE]
    <3>1. Mine(w) \in Calls
      BY <1>3, Held DEF RecordPaidIntent, At, Holding
    <3>2. /\ call' \in [Calls -> CallRow]
          /\ \A e \in Calls \ {Mine(w)} : call'[e] = call[e]
      BY <1>1, <2>2, <3>1 DEF CallRow
    <3> QED
      BY <2>2, <3>1, <3>2, OpenRowChanges DEF Ended
  <2> QED
    BY <1>3, <2>1, <2>2 DEF RecordPaidIntent
<1>4. CASE Commit(w)
  <2> DEFINE outcome == worker[w].outcome
  <2>1. /\ Mine(w) \in Calls /\ call[Mine(w)].status = "running"
        /\ outcome \in Ended
    BY <1>4 DEF Commit, At, IInv, SlotConsistent, Typed, Slot
  <2>2. /\ call' \in [Calls -> CallRow]
        /\ \A e \in Calls \ {Mine(w)} : call'[e] = call[e]
        /\ call'[Mine(w)] = [call[Mine(w)] EXCEPT !.status = outcome,
                                                  !.run = @ \/ outcome = "succeeded"]
    BY <1>1, <1>4, <2>1 DEF Commit, CallRow
  <2>3. /\ call'[Mine(w)].intent = call[Mine(w)].intent
        /\ call'[Mine(w)].status = outcome
    BY <1>1, <2>1, <2>2 DEF CallRow
  <2> QED
    BY <2>1, <2>2, <2>3, OpenRowChanges DEF Ended
<1> QED
  BY <1>2, <1>3, <1>4

LEMMA PortalKeepsEnd ==
  ASSUME IInv, NEW h \in Handlers, Create(h) \/ MarkDispatched(h), NEW c \in Calls
  PROVE  KeepsEnd(c)
<1>1. /\ call \in [Calls -> CallRow] /\ \A e \in Calls : RowConsistent(e)
      /\ UNCHANGED call => KeepsEnd(c)
  BY DEF IInv, Typed, KeepsEnd, RowConsistent, Ended
<1>2. CASE Create(h)
  <2>1. CASE cohort = "none"
    BY <1>1, <2>1 DEF KeepsEnd, RowConsistent, Ended
  <2> QED
    BY <1>1, <1>2, <2>1 DEF Create, Created, cohortVars
<1>3. CASE MarkDispatched(h)
  <2> DEFINE d == handler[h].call
  <2>1. d \in Calls
    BY <1>3 DEF MarkDispatched, Serving, IInv, HandlerConsistent
  <2>2. CASE call' = [call EXCEPT ![d].dispatched = Undispatched(d) \/ @]
    <3>1. CASE Undispatched(d)
      <4>1. call[d].status \notin Ended /\ ~call[d].intent
        BY <1>1, <2>1, <3>1 DEF Undispatched, RowConsistent, Ended
      <4>2. /\ call' \in [Calls -> CallRow]
            /\ \A e \in Calls \ {d} : call'[e] = call[e]
        BY <1>1, <2>1, <2>2, <3>1 DEF CallRow
      <4> QED
        BY <2>1, <4>1, <4>2, OpenRowChanges
    <3>2. CASE ~Undispatched(d)
      <4>1. [call[d] EXCEPT !.dispatched = call[d].dispatched] = call[d]
        BY <1>1, <2>1 DEF CallRow
      <4>2. (Undispatched(d) \/ call[d].dispatched) = call[d].dispatched
        BY <1>1, <2>1, <3>2 DEF CallRow
      <4>3. call' = [call EXCEPT ![d] = call[d]]
        BY <2>2, <4>1, <4>2
      <4>4. call' = call
        BY <1>1, <2>1, <4>3
      <4> QED
        BY <1>1, <4>4
    <3> QED
      BY <3>1, <3>2
  <2> QED
    BY <1>1, <1>3, <2>2 DEF MarkDispatched
<1> QED
  BY <1>2, <1>3

\* An ended call is never changed again.
THEOREM EndsStayFinal == OverseasSpec => EndsAreFinal
<1>1. ASSUME IInv, [Next]_overseasVars, NEW c \in Calls
      PROVE  UNCHANGED call \/ KeepsEnd(c)
  <2>1. ASSUME NEW h \in Handlers, Portal(h) \/ Press(h) \/ Refuse(h) \/ WebCrash(h)
        PROVE  UNCHANGED call \/ Create(h) \/ MarkDispatched(h)
    BY <2>1 DEF Portal, ListUndispatched, Respond, Send, Press, Refuse, WebCrash
  <2>2. ASSUME NEW w \in Workers, Work(w) \/ RollBack(w) \/ WorkerCrash(w)
        PROVE  UNCHANGED call \/ Claim(w) \/ RecordPaidIntent(w) \/ Commit(w)
    BY <2>2 DEF Work, Skip, StartAttempt, RunProvider, Persist, Archive, Reject,
         Complete, Fail, Fetch, RollBack, WorkerCrash
  <2>3. LoseResponse \/ Forget => UNCHANGED call
    BY DEF LoseResponse, Forget
  <2> QED
    BY <1>1, <2>1, <2>2, <2>3, SlotKeepsEnd, PortalKeepsEnd DEF Next, overseasVars
<1>2. IInv /\ [Next]_overseasVars =>
        [\A c \in Calls :
           /\ call[c].status \in Ended => call'[c] = call[c]
           /\ call[c].intent => call'[c].intent /\ call'[c].status # "queued"]_call
  BY <1>1 DEF KeepsEnd
<1> QED
  BY <1>2, Invariance, PTL DEF OverseasSpec, EndsAreFinal

\* What the calls show of their ends: the mapping of OverseasRuns!Promise.
Outcome(status) == IF status \in Ended THEN status ELSE "open"

\* A step that pays, runs and ends nothing is a stutter of the promise.
LEMMA QuietStutters ==
  ASSUME UNCHANGED <<payer, runs>>,
         \A c \in Calls : Outcome(call'[c].status) = Outcome(call[c].status)
  PROVE  UNCHANGED Promise!vars
BY DEF Promise!vars, Outcome

LEMMA PortalIsQuiet ==
  ASSUME IInv, NEW h \in Handlers, Portal(h) \/ Press(h) \/ Refuse(h) \/ WebCrash(h)
  PROVE  UNCHANGED Promise!vars
<1>1. UNCHANGED <<payer, runs>>
  BY DEF Portal, Create, ListUndispatched, MarkDispatched, Respond, Send, Press,
     Refuse, WebCrash
<1>2. CASE UNCHANGED call
  BY <1>1, <1>2, QuietStutters
<1>3. CASE MarkDispatched(h)
  <2>1. handler[h].call \in Calls /\ call \in [Calls -> CallRow]
    BY <1>3 DEF MarkDispatched, Serving, IInv, HandlerConsistent, Typed
  <2>2. \A c \in Calls : call'[c].status = call[c].status
    BY <1>3, <2>1 DEF MarkDispatched, CallRow
  <2> QED
    BY <1>1, <2>2, QuietStutters
<1>4. CASE Create(h)
  <2>1. CASE cohort = "none"
    <3>1. \A c \in Calls : call[c].status = "none" /\ call'[c].status = "queued"
      BY <1>4, <2>1 DEF Create, Created, IInv, RowConsistent, Typed, CallRow
    <3> QED
      BY <1>1, <3>1, QuietStutters DEF Outcome, Ended
  <2>2. CASE cohort # "none"
    BY <1>2, <1>4, <2>2 DEF Create, Created, cohortVars
  <2> QED
    BY <2>1, <2>2
<1> QED
  BY <1>2, <1>3, <1>4
     DEF Portal, ListUndispatched, Respond, Send, Press, Refuse, WebCrash

LEMMA ClaimIsQuiet ==
  ASSUME IInv, NEW w \in Workers, Claim(w)
  PROVE  UNCHANGED Promise!vars
<1>1. Mine(w) \in Calls /\ call[Mine(w)].status = "queued" /\ call \in [Calls -> CallRow]
  BY DEF Claim, Claimable, At, IInv, SlotConsistent, Typed
<1>2. /\ call'[Mine(w)].status = "running"
      /\ \A c \in Calls \ {Mine(w)} : call'[c] = call[c]
  BY <1>1 DEF Claim, CallClaimed, CallRow
<1>3. UNCHANGED <<payer, runs>>
  BY DEF Claim
<1> QED
  BY <1>1, <1>2, <1>3, QuietStutters DEF Outcome, Ended

\* The intent is the commitment.
LEMMA IntentCommits ==
  ASSUME IInv, NEW w \in Workers, RecordPaidIntent(w)
  PROVE  [Promise!Next]_Promise!vars
<1>1. Mine(w) \in Calls /\ call \in [Calls -> CallRow]
  BY Held DEF RecordPaidIntent, At, Holding, IInv, Typed
<1>2. CASE /\ call[Mine(w)].status = "running" /\ ~call[Mine(w)].intent
           /\ call' = [call EXCEPT ![Mine(w)].intent = TRUE]
           /\ payer' = [payer EXCEPT ![Mine(w)] = w]
  <2>1. \A c \in Calls : call'[c].status = call[c].status
    BY <1>1, <1>2 DEF CallRow
  <2>2. payer[Mine(w)] = Nobody
    BY <1>1, <1>2 DEF IInv, PaidConsistent
  <2>3. Promise!Commit(Mine(w), w)
    BY <1>1, <1>2, <2>1, <2>2 DEF Promise!Commit, RecordPaidIntent, Ended
  <2> QED
    BY <1>1, <2>3 DEF Promise!Next
<1>3. CASE UNCHANGED <<call, payer>>
  BY <1>3, QuietStutters DEF RecordPaidIntent
<1> QED
  BY <1>2, <1>3 DEF RecordPaidIntent

\* The slot that runs the provider is the payer, and the first to run it.
LEMMA ProviderSends ==
  ASSUME IInv, NEW w \in Workers, RunProvider(w)
  PROVE  [Promise!Next]_Promise!vars
<1>1. Mine(w) \in Calls
  BY Held DEF RunProvider, At, Holding
<1>2. payer[Mine(w)] = w /\ \A s \in Workers : runs[Mine(w)][s] = 0
  BY DEF IInv, PaidConsistent, RunProvider
<1>3. w # Nobody
  BY OverseasConstants
<1>4. runs' = [runs EXCEPT ![Mine(w)][w] = 1]
  <2>1. runs[Mine(w)][w] + 1 = 1
    BY <1>2
  <2>2. runs' = [runs EXCEPT ![Mine(w)][w] = runs[Mine(w)][w] + 1]
    BY DEF RunProvider
  <2> QED
    BY <2>1, <2>2, Zenon
<1>5. Promise!Send(Mine(w))
  BY <1>1, <1>2, <1>3, <1>4 DEF Promise!Send, RunProvider
<1> QED
  BY <1>1, <1>5 DEF Promise!Next

\* The end of a call closes it, and no other.
LEMMA CommitCloses ==
  ASSUME IInv, NEW w \in Workers, Commit(w)
  PROVE  [Promise!Next]_Promise!vars
<1>1. /\ Mine(w) \in Calls /\ call[Mine(w)].status = "running"
      /\ worker[w].outcome \in Ended /\ call \in [Calls -> CallRow]
  BY DEF Commit, At, IInv, SlotConsistent, Typed, Slot
<1>2. /\ call'[Mine(w)].status = worker[w].outcome
      /\ \A c \in Calls \ {Mine(w)} : call'[c] = call[c]
  BY <1>1 DEF Commit, CallRow
<1>3. Promise!Close
  BY <1>1, <1>2 DEF Promise!Close, Promise!Ends, Commit, Ended
<1> QED
  BY <1>3 DEF Promise!Next

\* A paid call is run at most once, by the slot that had recorded the intent.
THEOREM PaidOnce == OverseasSpec => PaysOnce
<1>1. OverseasInit => Promise!Init
  BY DEF OverseasInit, Promise!Init, Ended
<1>2. IInv /\ [Next]_overseasVars => [Promise!Next]_Promise!vars
  <2> SUFFICES ASSUME IInv, [Next]_overseasVars
               PROVE  [Promise!Next]_Promise!vars
    OBVIOUS
  <2>1. CASE UNCHANGED overseasVars
    BY <2>1 DEF overseasVars, Promise!vars
  <2>2. ASSUME NEW h \in Handlers, Portal(h) \/ Press(h) \/ Refuse(h) \/ WebCrash(h)
        PROVE  UNCHANGED Promise!vars
    BY <2>2, PortalIsQuiet
  <2>3. ASSUME NEW w \in Workers, Work(w) \/ RollBack(w) \/ WorkerCrash(w)
        PROVE  [Promise!Next]_Promise!vars
    <3>1. \/ UNCHANGED <<call, payer, runs>>
          \/ Claim(w) \/ RecordPaidIntent(w) \/ RunProvider(w) \/ Commit(w)
      BY <2>3 DEF Work, Skip, StartAttempt, Persist, Archive, Reject, Complete,
         Fail, Fetch, RollBack, WorkerCrash
    <3> QED
      BY <3>1, QuietStutters, ClaimIsQuiet, IntentCommits, ProviderSends, CommitCloses
  <2>4. CASE LoseResponse \/ Forget
    BY <2>4, QuietStutters DEF LoseResponse, Forget
  <2> QED
    BY <2>1, <2>2, <2>3, <2>4 DEF Next
<1> QED
  BY <1>1, <1>2, Invariance, PTL DEF OverseasSpec, PaysOnce, Promise!Spec

=============================================================================
