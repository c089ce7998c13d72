------------------------ MODULE TaskCompletion_proofs ------------------------
(***************************************************************************)
(* Proofs about TaskCompletion, for any requests, clients, tasks, answers, *)
(* artifacts and number of faults.                                         *)
(*                                                                         *)
(* What a handler has read may be out of date when it uses it, but it      *)
(* proves its claim with a generation: as long as the task is claimed by   *)
(* its client in that generation, the row is the one it has read, changed  *)
(* only by the claim's holder (Continues).  So what it knows of the        *)
(* submission stays true for as long as it can be used (Knows), and the    *)
(* chain of transactions is a refinement of DeliveryRunner's one.          *)
(***************************************************************************)
EXTENDS TaskCompletion, DeliveryRows_proofs

\* The task is still claimed as it was for the request.
StillClaimed(h, row) ==
  /\ row.status = "claimed"
  /\ row.generation = h.generation
  /\ row.claimedBy = h.client

\* What the handler knows of the submission.
KnowsClaim(h, row) ==
  /\ h.generation <= row.generation
  /\ StillClaimed(h, row) =>
       /\ h.client \in Runners => row.intent /\ row.confirmed
       /\ h.client \in Users => ~row.intent

Met == [status : {"running", "failed"}, count : Nat]

\* What the handler knows of the attempt: which execution it met, or is.
KnowsAttempt(h, att) ==
  /\ h.step \in {"take", "persist", "recover"} =>
       /\ att # NoRow
       /\ h.seen \in Met
       /\ h.seen.count <= att.count
  /\ h.step = "persist" /\ h.seen.count = att.count => att.answer = h.answer

\* What the handler knows of the answer.
KnowsAnswer(h, row, stored) ==
  /\ h.step \in {"heartbeat", "list", "claim", "take", "persist", "finish", "ok"}
       => h.answer \in Answers
  /\ h.step \in {"finish", "ok"} =>
       /\ stored # NoRow
       /\ \/ stored.answer = h.answer
          \/ h.step = "ok" /\ h.client \in Runners /\ row.claimedBy = h.client

Knows(h, row, att, stored) ==
  KnowsClaim(h, row) /\ KnowsAttempt(h, att) /\ KnowsAnswer(h, row, stored)

RequestsInv ==
  \A q \in Requests : Active(q) =>
    Knows(req[q], task[req[q].task], attempt[req[q].task], run[req[q].task])

\* RunHasItsEvidence, artifact by artifact.
RunsInv ==
  \A t \in Tasks :
    /\ run[t] # NoRow <=> task[t].status = "succeeded"
    /\ run[t] # NoRow <=> attempt[t] # NoRow /\ attempt[t].status = "succeeded"
    /\ run[t] # NoRow => attempt[t].answer = run[t].answer
    /\ \A i \in ArtifactsOf(t) :
         artifact[i].status = "attached" <=>
           /\ run[t] # NoRow
           /\ i \in run[t].evidence
           /\ artifact[i].by = task[t].claimedBy
           /\ artifact[i].generation = task[t].generation

\* The claim the artifact was uploaded under has ended, or its lease has.
Outlived(old, row, time) ==
  \/ row.status # "claimed"
  \/ row.generation # old.generation
  \/ ~LiveLease(row, time)

ArtifactsInv ==
  \A i \in Artifacts : artifact[i] # NoRow =>
    /\ artifact[i].generation <= task[artifact[i].task].generation
    /\ i \in sweep => Outlived(artifact[i], task[artifact[i].task], now)

IInv ==
  CompletionTypeOK /\ RowsInv /\ RequestsInv /\ RunsInv /\ ArtifactsInv

-----------------------------------------------------------------------------
(* What the transactions make of a completed task *)

\* A step that stores no observation completes no task, and leaves those that
\* have succeeded alone.
LEMMA QuietStep ==
  ASSUME RowsInv, RowsStep, NEW t \in Tasks, task'[t].observed = task[t].observed
  PROVE  /\ task'[t].status = "succeeded" <=> task[t].status = "succeeded"
         /\ task[t].status = "succeeded" => task'[t] = task[t]
<1>1. task[t].status \in TerminalStatuses => task'[t] = task[t]
  BY DEF RowsStep, Continues
<1>2. task'[t].status = "succeeded" => task[t].status \in TerminalStatuses
  BY DEF RowsStep, RowFacts, RowsInv
<1> QED
  BY <1>1, <1>2 DEF TerminalStatuses

-----------------------------------------------------------------------------
(* What stays true of what a handler has read *)

\* The handler goes on about the same claim.
SameRequest(h, k) ==
  k.task = h.task /\ k.client = h.client /\ k.generation = h.generation

\* An attempt is never dropped; its executions are counted, and one keeps its answer.
AttemptContinues(old, new) ==
  old # NoRow =>
    /\ new # NoRow
    /\ new.count >= old.count
    /\ new.count = old.count => new.answer = old.answer

\* A run that is stored stays.
WebStep ==
  \A t \in Tasks :
    /\ AttemptContinues(attempt[t], attempt'[t])
    /\ run[t] # NoRow => run'[t] = run[t]

LEMMA ClaimKnowledgeStays ==
  ASSUME NEW h, NEW k, SameRequest(h, k), h.generation \in Nat,
         NEW old \in TaskRow, NEW new \in TaskRow,
         Continues(old, new), KnowsClaim(h, old)
  PROVE  KnowsClaim(k, new)
<1>1. old.generation \in Nat /\ new.generation \in Nat
  BY DEF TaskRow
<1>2. h.generation <= new.generation
  BY <1>1 DEF Continues, KnowsClaim
<1>3. ASSUME StillClaimed(h, new)
      PROVE  /\ StillClaimed(h, old)
             /\ old.intent => new.intent
             /\ old.confirmed => new.confirmed
             /\ new.claimedBy \in Users => new.intent = old.intent
  BY <1>1, <1>3 DEF StillClaimed, Continues, SameClaim, KnowsClaim
<1>4. ASSUME StillClaimed(h, new)
      PROVE  /\ h.client \in Runners => new.intent /\ new.confirmed
             /\ h.client \in Users => ~new.intent
  BY <1>3, <1>4 DEF KnowsClaim, StillClaimed
<1> QED
  BY <1>2, <1>4 DEF KnowsClaim, StillClaimed, SameRequest

LEMMA AttemptKnowledgeStays ==
  ASSUME NEW h,
         NEW old \in AttemptRow \cup {NoRow}, NEW new \in AttemptRow \cup {NoRow},
         AttemptContinues(old, new), KnowsAttempt(h, old)
  PROVE  KnowsAttempt(h, new)
<1>1. ASSUME h.step \in {"take", "persist", "recover"}
      PROVE  /\ new # NoRow
             /\ h.seen \in Met
             /\ h.seen.count <= new.count
             /\ h.seen.count = new.count =>
                  h.seen.count = old.count /\ new.answer = old.answer
  <2>1. old # NoRow /\ h.seen \in Met /\ h.seen.count <= old.count
    BY <1>1 DEF KnowsAttempt
  <2>2. /\ new # NoRow /\ new.count >= old.count
        /\ new.count = old.count => new.answer = old.answer
    BY <2>1 DEF AttemptContinues
  <2>3. old \in AttemptRow /\ new \in AttemptRow
    BY <2>1, <2>2
  <2>4. old.count \in Nat /\ new.count \in Nat /\ h.seen.count \in Nat
    BY <2>1, <2>3 DEF AttemptRow, Met
  <2> QED
    BY <2>1, <2>2, <2>4
<1>2. CASE h.step \in {"take", "persist", "recover"}
  BY <1>1, <1>2 DEF KnowsAttempt
<1>3. CASE h.step \notin {"take", "persist", "recover"}
  BY <1>3 DEF KnowsAttempt
<1> QED
  BY <1>2, <1>3

LEMMA TaskTyped ==
  ASSUME CompletionTypeOK, NEW q \in Requests, Active(q)
  PROVE  req[q] \in Handler /\ req[q].task \in Tasks /\ req[q].client \in Clients
BY DEF CompletionTypeOK, Active, Handler

\* What a request knows does not become wrong while others act.
LEMMA KnowledgeStays ==
  ASSUME IInv, ProtocolStep, WebStep, CompletionTypeOK',
         NEW q \in Requests, Active(q), req'[q] = req[q]
  PROVE  Knows(req'[q], task'[req'[q].task], attempt'[req'[q].task],
               run'[req'[q].task])
<1> DEFINE h == req[q]
           t == h.task
<1>1. /\ h \in Handler /\ t \in Tasks /\ h.generation \in Nat
      /\ Knows(h, task[t], attempt[t], run[t])
  BY TaskTyped DEF IInv, RequestsInv, Handler
<1>2. task[t] \in TaskRow /\ task'[t] \in TaskRow /\ Continues(task[t], task'[t])
  BY <1>1 DEF ProtocolStep, RowsStep, IInv, RowsInv, CustodyInv, TypeOK
<1>3. /\ attempt[t] \in AttemptRow \cup {NoRow}
      /\ attempt'[t] \in AttemptRow \cup {NoRow}
  BY <1>1 DEF IInv, CompletionTypeOK
<1>4. /\ AttemptContinues(attempt[t], attempt'[t])
      /\ run[t] # NoRow => run'[t] = run[t]
      /\ run[t] # NoRow => task'[t] = task[t]
  BY <1>1, <1>2 DEF WebStep, IInv, RunsInv, Continues, TerminalStatuses
<1> HIDE DEF h, t
<1>5. KnowsClaim(h, task'[t])
  BY <1>1, <1>2, ClaimKnowledgeStays DEF Knows, SameRequest
<1>6. KnowsAttempt(h, attempt'[t])
  BY <1>1, <1>3, <1>4, AttemptKnowledgeStays DEF Knows
<1>7. KnowsAnswer(h, task'[t], run'[t])
  BY <1>1, <1>4 DEF Knows, KnowsAnswer
<1> QED
  BY <1>5, <1>6, <1>7 DEF Knows, h, t

\* An artifact that outlived its claim cannot be revived.
LEMMA OutlivedStays ==
  ASSUME NEW old, old.generation \in Nat, NEW row \in TaskRow, NEW new \in TaskRow,
         old.generation <= row.generation, Continues(row, new),
         now \in Nat, now' \in Nat, now' >= now, Outlived(old, row, now)
  PROVE  Outlived(old, new, now')
<1>1. /\ row.generation \in Nat /\ new.generation \in Nat
      /\ row.lease \in Int /\ new.lease \in Int
  BY DEF TaskRow, Times, NoTime
<1> SUFFICES ASSUME new.status = "claimed", new.generation = old.generation
             PROVE  ~LiveLease(new, now')
  BY DEF Outlived
<1>2. row.status = "claimed" /\ SameClaim(row, new)
  BY <1>1 DEF Continues
<1>3. ~LiveLease(row, now)
  BY <1>2 DEF Outlived, SameClaim
<1> QED
  BY <1>1, <1>2, <1>3 DEF SameClaim, LiveLease

\* What an artifact is of never changes.
SameUpload(old, new) ==
  new.task = old.task /\ new.by = old.by /\ new.generation = old.generation

LEMMA ArtifactsStay ==
  ASSUME IInv, ProtocolStep, CompletionTypeOK', sweep' \subseteq sweep,
         \A i \in Artifacts : artifact'[i] # NoRow =>
           artifact[i] # NoRow /\ SameUpload(artifact[i], artifact'[i])
  PROVE  ArtifactsInv'
<1> SUFFICES ASSUME NEW i \in Artifacts, artifact'[i] # NoRow
             PROVE  /\ artifact'[i].generation <= task'[artifact'[i].task].generation
                    /\ i \in sweep' =>
                         Outlived(artifact'[i], task'[artifact'[i].task], now')
  BY DEF ArtifactsInv
<1> DEFINE old == artifact[i]
           new == artifact'[i]
           t == old.task
<1>1. /\ old \in ArtifactRow /\ new \in ArtifactRow
      /\ old # NoRow /\ SameUpload(old, new)
  BY DEF IInv, CompletionTypeOK
<1>2. t \in Tasks /\ old.generation \in Nat
  BY <1>1 DEF ArtifactRow
<1>3. /\ task[t] \in TaskRow /\ task'[t] \in TaskRow
      /\ Continues(task[t], task'[t])
      /\ now \in Nat /\ now' \in Nat /\ now' >= now
  BY <1>2 DEF ProtocolStep, RowsStep, IInv, RowsInv, CustodyInv, TypeOK
<1>4. /\ old.generation <= task[t].generation
      /\ i \in sweep => Outlived(old, task[t], now)
  BY <1>1 DEF IInv, ArtifactsInv
<1> HIDE DEF old, t
<1>5. old.generation <= task'[t].generation
  BY <1>2, <1>3, <1>4 DEF Continues, TaskRow
<1>6. i \in sweep => Outlived(old, task'[t], now')
  BY <1>2, <1>3, <1>4, OutlivedStays
<1>7. new.generation = old.generation /\ new.task = t
  BY <1>1 DEF SameUpload, t
<1>8. i \in sweep => Outlived(new, task'[t], now')
  BY <1>6, <1>7 DEF Outlived
<1> QED
  BY <1>5, <1>7, <1>8

-----------------------------------------------------------------------------
(* What the steps of a handler make of it *)

Becomes(q, k) ==
  /\ k \in Handler
  /\ SameRequest(req[q], k)
  /\ req' \in [Requests -> Handler \cup {NoRow, Over}]
  /\ req'[q] = k
  /\ \A p \in Requests : p # q => req'[p] = req[p]

LEMMA GotoYields ==
  ASSUME CompletionTypeOK, NEW q \in Requests, Active(q),
         NEW step \in Steps, Goto(q, step)
  PROVE  /\ Becomes(q, [req[q] EXCEPT !.step = step])
         /\ req'[q].step = step
         /\ req'[q].answer = req[q].answer /\ req'[q].seen = req[q].seen
<1>1. req[q] \in Handler
  BY TaskTyped
<1>2. [req[q] EXCEPT !.step = step] \in Handler
  BY <1>1 DEF Handler
<1>3. req' = [req EXCEPT ![q] = [req[q] EXCEPT !.step = step]]
  BY DEF Goto
<1> QED
  BY <1>1, <1>2, <1>3 DEF Becomes, SameRequest, CompletionTypeOK, Handler

LEMMA FailsYields ==
  ASSUME CompletionTypeOK, NEW q \in Requests, Fails(q)
  PROVE  /\ req' \in [Requests -> Handler \cup {NoRow, Over}]
         /\ req'[q] = Over
         /\ \A p \in Requests : p # q => req'[p] = req[p]
BY DEF Fails, CompletionTypeOK

LEMMA EndYields ==
  ASSUME CompletionTypeOK, NEW q \in Requests, Active(q),
         NEW step \in {"recover", "report", "finish", "ok"}, End(q, step)
  PROVE  /\ \E k : Becomes(q, k)
         /\ req'[q].step = step
         /\ step \in {"finish", "ok"} => req'[q].answer = req[q].answer
         /\ step = "recover" => req'[q].seen = req[q].seen
<1> DEFINE h == req[q]
           k == [h EXCEPT !.step = step, !.evidence = {}, !.open = TRUE,
                          !.answer = IF step \in {"finish", "ok"} THEN h.answer
                                     ELSE NoRow,
                          !.seen = IF step = "recover" THEN h.seen ELSE NoRow]
<1>1. h \in Handler
  BY TaskTyped
<1>2. k \in Handler
  BY <1>1 DEF Handler, Steps
<1>3. req' = [req EXCEPT ![q] = k]
  BY DEF End
<1>4. /\ k.step = step
      /\ k.answer = IF step \in {"finish", "ok"} THEN h.answer ELSE NoRow
      /\ k.seen = IF step = "recover" THEN h.seen ELSE NoRow
      /\ SameRequest(h, k)
  BY <1>1 DEF Handler, SameRequest
<1> HIDE DEF k
<1>5. Becomes(q, k)
  BY <1>2, <1>3, <1>4 DEF Becomes, CompletionTypeOK
<1> QED
  BY <1>4, <1>5 DEF Becomes

LEMMA ExecuteYields ==
  ASSUME CompletionTypeOK, NEW q \in Requests, Active(q),
         NEW a \in Answers, NEW n \in Nat, Execute(q, Execution(a, n))
  PROVE  /\ \E k : Becomes(q, k)
         /\ req'[q].step = "persist"
         /\ req'[q].answer = req[q].answer
         /\ req'[q].seen \in Met /\ req'[q].seen.count = n
         /\ Execution(a, n) \in AttemptRow
         /\ attempt' = [attempt EXCEPT ![req[q].task] = Execution(a, n)]
<1> DEFINE h == req[q]
           met == [status |-> "running", count |-> n]
           k == [h EXCEPT !.step = "persist", !.open = TRUE, !.seen = met]
<1>1. h \in Handler
  BY TaskTyped
<1>2. met \in Met /\ met \in [status : {"running", "failed"}, count : Nat]
  BY DEF Met
<1>3. met.count = n
  OBVIOUS
<1>4. /\ req' = [req EXCEPT ![q] = k]
      /\ attempt' = [attempt EXCEPT ![req[q].task] = Execution(a, n)]
  BY DEF Execute, Execution
<1>5. Execution(a, n) \in AttemptRow
  BY DEF Execution, AttemptRow
<1> HIDE DEF met
<1>6. k \in Handler
  BY <1>1, <1>2 DEF Handler, Steps
<1>7. /\ k.step = "persist" /\ k.answer = h.answer /\ k.seen = met
      /\ SameRequest(h, k)
  BY <1>1 DEF Handler, SameRequest
<1> HIDE DEF k
<1>8. Becomes(q, k)
  BY <1>4, <1>6, <1>7 DEF Becomes, CompletionTypeOK
<1> QED
  BY <1>2, <1>3, <1>4, <1>5, <1>7, <1>8 DEF Becomes

\* What a step of a request's handler has to show.
HandlerMove(q) ==
  /\ ProtocolStep
  /\ CompletionTypeOK'
  /\ WebStep
  /\ \A p \in Requests : p # q => req'[p] = req[p]
  /\ req'[q] \notin {NoRow, Over} =>
       Knows(req'[q], task'[req'[q].task], attempt'[req'[q].task],
             run'[req'[q].task])
  /\ RunsInv'
  /\ ArtifactsInv'

\* The runs and the artifacts are left alone and no task is completed.
LEMMA WebUnchanged ==
  ASSUME IInv, ProtocolStep, CompletionTypeOK',
         UNCHANGED <<artifact, attempt, run, sweep>>,
         \A t \in Tasks : task'[t].observed = task[t].observed
  PROVE  WebStep /\ RunsInv' /\ ArtifactsInv'
<1>1. WebStep
  BY DEF WebStep, AttemptContinues, IInv, CompletionTypeOK, AttemptRow
<1>2. ASSUME NEW t \in Tasks
      PROVE  /\ task'[t].status = "succeeded" <=> task[t].status = "succeeded"
             /\ task[t].status = "succeeded" => task'[t] = task[t]
  BY QuietStep DEF IInv, ProtocolStep
<1>3. RunsInv'
  BY <1>2 DEF IInv, RunsInv, ArtifactsOf
<1>4. ArtifactsInv'
  BY ArtifactsStay DEF SameUpload
<1> QED
  BY <1>1, <1>3, <1>4

\* Only an attempt that has not succeeded is executed again or has failed.
LEMMA AttemptOnly ==
  ASSUME IInv, ProtocolStep, CompletionTypeOK',
         UNCHANGED <<task, artifact, run, sweep>>,
         NEW t \in Tasks, NEW row \in AttemptRow,
         attempt' = [attempt EXCEPT ![t] = row],
         row.status # "succeeded", run[t] = NoRow, AttemptContinues(attempt[t], row)
  PROVE  WebStep /\ RunsInv' /\ ArtifactsInv'
<1>1. /\ attempt'[t] = row
      /\ \A u \in Tasks : u # t => attempt'[u] = attempt[u]
  BY DEF IInv, CompletionTypeOK
<1>2. WebStep
  BY <1>1 DEF WebStep, AttemptContinues, IInv, CompletionTypeOK, AttemptRow
<1>3. RunsInv'
  BY <1>1 DEF IInv, RunsInv, ArtifactsOf
<1>4. ArtifactsInv'
  BY ArtifactsStay DEF SameUpload
<1> QED
  BY <1>2, <1>3, <1>4

\* The claim a handler goes on with stays known.
LEMMA BecomesKnows ==
  ASSUME IInv, ProtocolStep, NEW q \in Requests, Active(q), NEW k, Becomes(q, k)
  PROVE  /\ k.task = req[q].task /\ k.task \in Tasks
         /\ KnowsClaim(k, task'[k.task])
<1>1. /\ req[q] \in Handler /\ req[q].task \in Tasks /\ req[q].generation \in Nat
      /\ KnowsClaim(req[q], task[req[q].task])
  BY TaskTyped DEF IInv, RequestsInv, Knows, Handler
<1>2. k.task = req[q].task
  BY DEF Becomes, SameRequest
<1>3. /\ task[k.task] \in TaskRow /\ task'[k.task] \in TaskRow
      /\ Continues(task[k.task], task'[k.task])
  BY <1>1, <1>2 DEF ProtocolStep, RowsStep, IInv, RowsInv, CustodyInv, TypeOK
<1> QED
  BY <1>1, <1>2, <1>3, ClaimKnowledgeStays DEF Becomes

-----------------------------------------------------------------------------
(* The handler, step by step *)

LEMMA UnchangedMoves ==
  ASSUME IInv, UNCHANGED vars
  PROVE  ProtocolStep /\ \A t \in Tasks : task'[t] = task[t]
<1>1. ProtocolStep
  BY NextMoves DEF IInv
<1> QED
  BY <1>1 DEF vars

\* A handler that stops, or that has only read, knows what it knew.
LEMMA ReceiveMoves ==
  ASSUME IInv, NEW q \in Requests, NEW k \in Handler,
         req[q] = NoRow, req' = [req EXCEPT ![q] = k],
         UNCHANGED <<vars, artifact, attempt, run, sweep, faults>>,
         Knows(k, task[k.task], attempt[k.task], run[k.task])
  PROVE  HandlerMove(q)
<1>1. ProtocolStep /\ \A t \in Tasks : task'[t] = task[t]
  BY UnchangedMoves
<1>2. CompletionTypeOK'
  BY DEF IInv, CompletionTypeOK
<1>3. WebStep /\ RunsInv' /\ ArtifactsInv'
  BY <1>1, <1>2, WebUnchanged
<1>4. req'[q] = k /\ \A p \in Requests : p # q => req'[p] = req[p]
  BY DEF IInv, CompletionTypeOK
<1>5. k.task \in Tasks
  BY DEF Handler
<1>6. task'[k.task] = task[k.task] /\ UNCHANGED <<attempt, run>>
  BY <1>1, <1>5
<1> QED
  BY <1>1, <1>2, <1>3, <1>4, <1>6 DEF HandlerMove

LEMMA ReceiveFromRunnerMoves ==
  ASSUME IInv, NEW q \in Requests, NEW t \in Tasks, NEW r \in Runners,
         ReceiveFromRunner(q, t, r)
  PROVE  HandlerMove(q)
<1>1. PICK s \in Sessions, a \in Answers,
           S \in SUBSET ClaimArtifacts(t, r, task[t].generation) :
        /\ req[q] = NoRow
        /\ task[t].claimedBy = r
        /\ \/ task[t].status = "succeeded"
           \/ /\ task[t].status = "claimed"
              /\ task[t].intent /\ task[t].confirmed /\ task[t].session = s
        /\ req' = [req EXCEPT ![q] =
             [step |-> IF task[t].status = "succeeded" THEN "ok" ELSE "heartbeat",
              task |-> t, client |-> r, generation |-> task[t].generation,
              answer |-> a, open |-> TRUE, seen |-> NoRow,
              evidence |-> IF task[t].status = "succeeded" THEN {} ELSE S]]
        /\ UNCHANGED <<vars, artifact, attempt, run, sweep, faults>>
  BY DEF ReceiveFromRunner
<1> DEFINE k ==
      [step |-> IF task[t].status = "succeeded" THEN "ok" ELSE "heartbeat",
       task |-> t, client |-> r, generation |-> task[t].generation,
       answer |-> a, open |-> TRUE, seen |-> NoRow,
       evidence |-> IF task[t].status = "succeeded" THEN {} ELSE S]
<1>2. S \subseteq Artifacts
  BY DEF ClaimArtifacts, ArtifactsOf
<1>3. task[t].generation \in Nat
  BY RowTyped DEF IInv
<1>4. k \in Handler
  BY <1>2, <1>3 DEF Handler, Steps, Clients
<1>5. /\ k.task = t /\ k.client = r /\ k.generation = task[t].generation
      /\ k.answer = a
      /\ k.step = IF task[t].status = "succeeded" THEN "ok" ELSE "heartbeat"
  OBVIOUS
<1> HIDE DEF k
<1>6. KnowsClaim(k, task[t])
  BY <1>1, <1>3, <1>5, ClientsAssumption DEF KnowsClaim, StillClaimed
<1>7. KnowsAttempt(k, attempt[t])
  BY <1>5 DEF KnowsAttempt
<1>8. KnowsAnswer(k, task[t], run[t])
  BY <1>1, <1>5 DEF KnowsAnswer, IInv, RunsInv
<1> QED
  BY <1>1, <1>4, <1>5, <1>6, <1>7, <1>8, ReceiveMoves DEF Knows, k

LEMMA ReceiveFromPortalMoves ==
  ASSUME IInv, NEW q \in Requests, NEW t \in Tasks, NEW u \in Users,
         ReceiveFromPortal(q, t, u)
  PROVE  HandlerMove(q)
<1>1. PICK a \in Answers, S \in SUBSET ClaimArtifacts(t, u, task[t].generation) :
        /\ req[q] = NoRow
        /\ S # {}
        /\ task[t].claimedBy = u
        /\ PortalMutationAllowed(task[t])
        /\ task[t].status \in {"claimed", "succeeded"}
        /\ req' = [req EXCEPT ![q] =
             [step |-> IF task[t].status = "succeeded" THEN "claim" ELSE "heartbeat",
              task |-> t, client |-> u, generation |-> task[t].generation,
              answer |-> a, evidence |-> S, open |-> task[t].status = "claimed",
              seen |-> NoRow]]
        /\ UNCHANGED <<vars, artifact, attempt, run, sweep, faults>>
  BY DEF ReceiveFromPortal
<1> DEFINE k ==
      [step |-> IF task[t].status = "succeeded" THEN "claim" ELSE "heartbeat",
       task |-> t, client |-> u, generation |-> task[t].generation,
       answer |-> a, evidence |-> S, open |-> task[t].status = "claimed",
       seen |-> NoRow]
<1>2. S \subseteq Artifacts
  BY DEF ClaimArtifacts, ArtifactsOf
<1>3. task[t].generation \in Nat
  BY RowTyped DEF IInv
<1>4. k \in Handler
  BY <1>2, <1>3 DEF Handler, Steps, Clients
<1>5. /\ k.task = t /\ k.client = u /\ k.generation = task[t].generation
      /\ k.answer = a
      /\ k.step = IF task[t].status = "succeeded" THEN "claim" ELSE "heartbeat"
  OBVIOUS
<1> HIDE DEF k
<1>6. KnowsClaim(k, task[t])
  BY <1>1, <1>3, <1>5, ClientsAssumption
     DEF KnowsClaim, StillClaimed, PortalMutationAllowed
<1>7. KnowsAttempt(k, attempt[t])
  BY <1>5 DEF KnowsAttempt
<1>8. KnowsAnswer(k, task[t], run[t])
  BY <1>1, <1>5 DEF KnowsAnswer
<1> QED
  BY <1>1, <1>4, <1>5, <1>6, <1>7, <1>8, ReceiveMoves DEF Knows, k

\* A handler that fails, while the web tables stay as they are.
LEMMA FailsMoves ==
  ASSUME IInv, ProtocolStep, NEW q \in Requests, Fails(q),
         UNCHANGED <<artifact, attempt, run, sweep, faults>>,
         \A t \in Tasks : task'[t].observed = task[t].observed
  PROVE  HandlerMove(q)
<1>1. /\ req' \in [Requests -> Handler \cup {NoRow, Over}]
      /\ req'[q] = Over
      /\ \A p \in Requests : p # q => req'[p] = req[p]
  BY FailsYields DEF IInv
<1>2. CompletionTypeOK'
  BY <1>1 DEF IInv, CompletionTypeOK
<1> QED
  BY <1>1, <1>2, WebUnchanged DEF HandlerMove

\* A handler that goes on to its next step, with the answer and the execution it
\* had met, while the web tables stay as they are.
LEMMA GoesOnMoves ==
  ASSUME IInv, ProtocolStep, NEW q \in Requests, Active(q),
         NEW k, Becomes(q, k),
         UNCHANGED <<artifact, attempt, run, sweep>>, faults' \in 0..MaxFaults,
         \A t \in Tasks : task'[t].observed = task[t].observed,
         KnowsAttempt(k, attempt[k.task]),
         KnowsAnswer(k, task'[k.task], run[k.task])
  PROVE  HandlerMove(q)
<1>1. /\ req' \in [Requests -> Handler \cup {NoRow, Over}]
      /\ req'[q] = k
      /\ \A p \in Requests : p # q => req'[p] = req[p]
  BY DEF Becomes
<1>2. CompletionTypeOK'
  BY <1>1 DEF IInv, CompletionTypeOK
<1>3. KnowsClaim(k, task'[k.task])
  BY BecomesKnows
<1>4. Knows(k, task'[k.task], attempt'[k.task], run'[k.task])
  BY <1>3 DEF Knows
<1> QED
  BY <1>1, <1>2, <1>4, WebUnchanged DEF HandlerMove

\* An extended lease, a failure and a release are steps of DeliveryRunner that
\* store nothing; a claim that is proved has a generation within its bound.
QuietNext == Next /\ \A t \in Tasks : task'[t].observed = task[t].observed

LEMMA QuietUpdate ==
  ASSUME RowsInv, NEW op, NEW t \in Tasks, NEW row,
         row.observed = task[t].observed,
         \/ UpdateAndRefresh(op, t, row)
         \/ UpdateOnly(op, t, row)
  PROVE  \A u \in Tasks : task'[u].observed = task[u].observed
<1>1. task' = [task EXCEPT ![t] = row] \/ task' = task
  BY DEF UpdateAndRefresh, UpdateOnly, Commit, CommitFrom
<1>2. task \in [Tasks -> TaskRow]
  BY DEF RowsInv, CustodyInv, TypeOK
<1> QED
  BY <1>1, <1>2

LEMMA ProvenGeneration ==
  ASSUME RowsInv, NEW t \in Tasks, NEW c, NEW g, ActiveLease(t, c, g)
  PROVE  g = task[t].generation /\ g \in 1..MaxGeneration
BY DEF ActiveLease, RowsInv, RowFacts

LEMMA HeartbeatQuiet ==
  ASSUME RowsInv, NEW t \in Tasks, NEW c \in Clients, NEW g, Heartbeat(t, c, g)
  PROVE  QuietNext
<1>1. g \in 1..MaxGeneration
  BY ProvenGeneration DEF Heartbeat
<1>2. Next
  BY <1>1 DEF Next, RunnerStep, PortalStep, Clients
<1>3. [task[t] EXCEPT !.lease = LeaseUntil].observed = task[t].observed
  BY RowTyped DEF TaskRow
<1> QED
  BY <1>2, <1>3, QuietUpdate DEF Heartbeat, QuietNext

LEMMA FailureQuiet ==
  ASSUME RowsInv, NEW t \in Tasks, NEW r \in Runners, NEW g,
         RecordFailure(t, r, g, "post_submit", PersistenceFailed)
  PROVE  QuietNext
<1>1. g \in 1..MaxGeneration
  BY ProvenGeneration DEF RecordFailure, ActiveRunnerLease
<1>2. \E stage \in {"pre_submit", "post_submit"}, code \in FailureCodes :
        RecordFailure(t, r, g, stage, code)
  BY CompletionCodesAssumption
<1>3. Next
  BY <1>1, <1>2 DEF Next, RunnerStep
<1>4. UpdateAndRefresh("failure", t, Parked(task[t], PersistenceFailed))
  BY DEF RecordFailure, RetriesFailure
<1>5. Parked(task[t], PersistenceFailed).observed = task[t].observed
  BY RowTyped DEF TaskRow, Parked
<1> QED
  BY <1>3, <1>4, <1>5, QuietUpdate DEF QuietNext

LEMMA ReleaseQuiet ==
  ASSUME RowsInv, NEW t \in Tasks, NEW u \in Users, NEW g, Release(t, u, g)
  PROVE  QuietNext
<1> DEFINE row == [task[t] EXCEPT !.status = "available",
                                  !.auto = AutoTo(task[t], "needs_human"),
                                  !.lease = NoTime]
<1>1. g \in 1..MaxGeneration
  BY ProvenGeneration DEF Release
<1>2. Next
  BY <1>1 DEF Next, PortalStep
<1>3. row.observed = task[t].observed
  BY RowTyped DEF TaskRow
<1>4. UpdateOnly("release", t, row)
  BY DEF Release
<1> HIDE DEF row
<1> QED
  BY <1>2, <1>3, <1>4, QuietUpdate DEF QuietNext

LEMMA QuietMoves ==
  ASSUME IInv, QuietNext
  PROVE  ProtocolStep /\ \A t \in Tasks : task'[t].observed = task[t].observed
BY NextMoves DEF IInv, QuietNext

LEMMA CrashMoves ==
  ASSUME IInv, NEW q \in Requests, Crash(q)
  PROVE  HandlerMove(q)
<1>1. ProtocolStep /\ \A t \in Tasks : task'[t] = task[t]
  BY UnchangedMoves DEF Crash
<1> QED
  BY <1>1, FailsMoves DEF Crash

LEMMA RenewLeaseMoves ==
  ASSUME IInv, NEW q \in Requests, RenewLease(q)
  PROVE  HandlerMove(q)
<1>1. Active(q) /\ req[q].step = "heartbeat" /\ req[q] \in Handler
  BY TaskTyped DEF RenewLease, At, IInv
<1>2. req[q].task \in Tasks /\ req[q].client \in Clients
  BY <1>1 DEF Handler
<1>3. UNCHANGED <<artifact, attempt, run, sweep, faults>>
  BY DEF RenewLease
<1>4. CASE Fails(q) /\ UNCHANGED vars
  <2>1. ProtocolStep /\ \A t \in Tasks : task'[t] = task[t]
    BY <1>4, UnchangedMoves
  <2> QED
    BY <1>3, <1>4, <2>1, FailsMoves
<1>5. CASE /\ Heartbeat(req[q].task, req[q].client, req[q].generation)
           /\ Goto(q, IF req[q].client \in Runners THEN "list" ELSE "claim")
  <2>1. ProtocolStep /\ \A t \in Tasks : task'[t].observed = task[t].observed
    BY <1>2, <1>5, HeartbeatQuiet, QuietMoves DEF IInv
  <2>2. PICK step \in {"list", "claim"} : Goto(q, step)
    BY <1>5
  <2> DEFINE k == [req[q] EXCEPT !.step = step]
  <2>3. /\ Becomes(q, k)
        /\ k.step = step /\ k.answer = req[q].answer
    BY <1>1, <2>2, GotoYields DEF Steps, Becomes, IInv
  <2> HIDE DEF k
  <2>4. req[q].answer \in Answers
    BY <1>1 DEF IInv, RequestsInv, Knows, KnowsAnswer
  <2>5. KnowsAttempt(k, attempt[k.task]) /\ KnowsAnswer(k, task'[k.task], run[k.task])
    BY <2>3, <2>4 DEF KnowsAttempt, KnowsAnswer
  <2>6. faults' \in 0..MaxFaults
    BY <1>3 DEF IInv, CompletionTypeOK
  <2> QED
    BY <1>1, <1>3, <2>1, <2>3, <2>5, <2>6, GoesOnMoves
<1> QED
  BY <1>4, <1>5 DEF RenewLease

LEMMA ListEvidenceMoves ==
  ASSUME IInv, NEW q \in Requests, ListEvidence(q)
  PROVE  HandlerMove(q)
<1>1. Active(q) /\ req[q].step = "list" /\ req[q] \in Handler
  BY TaskTyped DEF ListEvidence, At, IInv
<1>2. /\ Goto(q, "claim") \/ Fails(q)
      /\ UNCHANGED <<vars, artifact, attempt, run, sweep, faults>>
  BY DEF ListEvidence, GotoOr
<1>3. ProtocolStep /\ \A t \in Tasks : task'[t] = task[t]
  BY <1>2, UnchangedMoves
<1>4. CASE Fails(q)
  BY <1>2, <1>3, <1>4, FailsMoves
<1>5. CASE Goto(q, "claim")
  <2> DEFINE k == [req[q] EXCEPT !.step = "claim"]
  <2>1. /\ Becomes(q, k)
        /\ k.step = "claim" /\ k.answer = req[q].answer
    BY <1>1, <1>5, GotoYields DEF Steps, Becomes, IInv
  <2> HIDE DEF k
  <2>2. req[q].answer \in Answers
    BY <1>1 DEF IInv, RequestsInv, Knows, KnowsAnswer
  <2>3. KnowsAttempt(k, attempt[k.task]) /\ KnowsAnswer(k, task'[k.task], run[k.task])
    BY <2>1, <2>2 DEF KnowsAttempt, KnowsAnswer
  <2>4. faults' \in 0..MaxFaults
    BY <1>2 DEF IInv, CompletionTypeOK
  <2> QED
    BY <1>1, <1>2, <1>3, <2>1, <2>3, <2>4, GoesOnMoves
<1> QED
  BY <1>2, <1>4, <1>5

\* Beginning an execution of an attempt that has not succeeded.
LEMMA ExecuteMoves ==
  ASSUME IInv, NEW q \in Requests, Active(q), NEW n \in Nat,
         req[q].answer \in Answers,
         Execute(q, Execution(req[q].answer, n)),
         UNCHANGED <<vars, artifact, run, sweep, faults>>,
         run[req[q].task] = NoRow,
         attempt[req[q].task] = NoRow
           \/ (attempt[req[q].task] # NoRow /\ n > attempt[req[q].task].count)
  PROVE  HandlerMove(q)
<1> DEFINE t == req[q].task
           row == Execution(req[q].answer, n)
<1>1. PICK k : Becomes(q, k)
  BY ExecuteYields DEF IInv
<1>2. /\ req'[q] = k
      /\ k.step = "persist" /\ k.answer = req[q].answer
      /\ k.seen \in Met /\ k.seen.count = n
      /\ row \in AttemptRow
      /\ attempt' = [attempt EXCEPT ![t] = row]
  BY <1>1, ExecuteYields DEF Becomes, IInv
<1>3. row.status # "succeeded" /\ row.count = n /\ row.answer = req[q].answer
  BY DEF Execution
<1> HIDE DEF row
<1>4. ProtocolStep /\ \A u \in Tasks : task'[u] = task[u]
  BY UnchangedMoves
<1>5. k.task = t /\ t \in Tasks /\ KnowsClaim(k, task'[t])
  BY <1>1, <1>4, BecomesKnows
<1>6. CompletionTypeOK'
  BY <1>1, <1>2, <1>5 DEF IInv, CompletionTypeOK, Becomes
<1>7. attempt'[t] = row /\ row # NoRow
  BY <1>2, <1>5, NoRowAssumption DEF IInv, CompletionTypeOK
<1>8. AttemptContinues(attempt[t], row)
  <2>1. attempt[t] # NoRow => attempt[t].count \in Nat
    BY <1>5 DEF IInv, CompletionTypeOK, AttemptRow
  <2> QED
    BY <1>3, <1>7, <2>1 DEF AttemptContinues
<1>9. WebStep /\ RunsInv' /\ ArtifactsInv'
  BY <1>2, <1>3, <1>4, <1>5, <1>6, <1>8, AttemptOnly DEF vars
<1>10. KnowsAttempt(k, attempt'[t])
  BY <1>2, <1>3, <1>7 DEF KnowsAttempt, Met
<1>11. KnowsAnswer(k, task'[t], run'[t])
  BY <1>2 DEF KnowsAnswer
<1>12. Knows(req'[q], task'[req'[q].task], attempt'[req'[q].task],
             run'[req'[q].task])
  BY <1>2, <1>5, <1>10, <1>11 DEF Knows
<1> QED
  BY <1>1, <1>4, <1>6, <1>9, <1>12 DEF HandlerMove, Becomes

LEMMA ClaimAttemptMoves ==
  ASSUME IInv, NEW q \in Requests, ClaimAttempt(q)
  PROVE  HandlerMove(q)
<1> DEFINE h == req[q]
           t == h.task
<1>1. Active(q) /\ h.step = "claim" /\ h \in Handler /\ t \in Tasks
  BY TaskTyped DEF ClaimAttempt, At, IInv
<1>2. h.answer \in Answers
  BY <1>1 DEF IInv, RequestsInv, Knows, KnowsAnswer
<1>3. UNCHANGED <<vars, artifact, run, sweep, faults>>
  BY DEF ClaimAttempt
<1>4. ProtocolStep /\ \A u \in Tasks : task'[u] = task[u]
  BY <1>3, UnchangedMoves
<1>5. faults' \in 0..MaxFaults
  BY <1>3 DEF IInv, CompletionTypeOK
<1>6. CASE attempt[t] = NoRow /\ Execute(q, Execution(h.answer, 1))
  <2>1. run[t] = NoRow
    BY <1>1, <1>6 DEF IInv, RunsInv
  <2> QED
    BY <1>1, <1>2, <1>3, <1>6, <2>1, ExecuteMoves
<1>7. ASSUME attempt[t] # NoRow, UNCHANGED attempt, Fails(q)
      PROVE  HandlerMove(q)
  BY <1>3, <1>4, <1>7, FailsMoves
<1>8. ASSUME attempt[t] # NoRow, UNCHANGED attempt, NEW live,
             ~Conflicts(t, h.answer, live), attempt[t].status = "succeeded",
             End(q, IF h.open THEN "finish" ELSE "ok")
      PROVE  HandlerMove(q)
  <2>1. PICK step \in {"finish", "ok"} : End(q, step)
    BY <1>8
  <2>2. PICK k : Becomes(q, k)
    BY <1>1, <2>1, EndYields DEF IInv
  <2>3. k.step = step /\ k.answer = h.answer /\ k.task = t
    BY <1>1, <2>1, <2>2, EndYields DEF IInv, Becomes, SameRequest
  <2>4. attempt[t].answer = h.answer
    BY <1>8 DEF Conflicts
  <2>5. run[t] # NoRow /\ run[t].answer = h.answer
    BY <1>1, <1>8, <2>4 DEF IInv, RunsInv
  <2> HIDE DEF h, t
  <2>6. KnowsAttempt(k, attempt[t]) /\ KnowsAnswer(k, task'[t], run[t])
    BY <1>2, <2>3, <2>5 DEF KnowsAttempt, KnowsAnswer
  <2> QED
    BY <1>1, <1>3, <1>4, <1>5, <1>8, <2>2, <2>3, <2>6, GoesOnMoves
<1>9. ASSUME attempt[t] # NoRow, UNCHANGED attempt, attempt[t].status # "succeeded",
             req' = [req EXCEPT ![q].step = "take",
                                ![q].seen = [status |-> attempt[t].status,
                                             count |-> attempt[t].count]]
      PROVE  HandlerMove(q)
  <2> DEFINE met == [status |-> attempt[t].status, count |-> attempt[t].count]
             k == [h EXCEPT !.step = "take", !.seen = met]
  <2>1. attempt[t] \in AttemptRow
    BY <1>1, <1>9 DEF IInv, CompletionTypeOK
  <2>2. /\ met \in Met /\ met \in [status : {"running", "failed"}, count : Nat]
        /\ met.count = attempt[t].count /\ attempt[t].count \in Nat
    BY <1>9, <2>1 DEF AttemptRow, Met
  <2>3. req' = [req EXCEPT ![q] = k]
    BY <1>9
  <2> HIDE DEF met
  <2>4. /\ k \in Handler /\ SameRequest(h, k) /\ k.task = t
        /\ k.step = "take" /\ k.answer = h.answer /\ k.seen = met
    BY <1>1, <2>2 DEF Handler, Steps, SameRequest
  <2> HIDE DEF k
  <2>5. Becomes(q, k)
    BY <2>3, <2>4 DEF Becomes, IInv, CompletionTypeOK
  <2> HIDE DEF h, t
  <2>6. KnowsAttempt(k, attempt[t]) /\ KnowsAnswer(k, task'[t], run[t])
    BY <1>2, <1>9, <2>2, <2>4 DEF KnowsAttempt, KnowsAnswer
  <2> QED
    BY <1>1, <1>3, <1>4, <1>5, <1>9, <2>4, <2>5, <2>6, GoesOnMoves
<1> QED
  BY <1>6, <1>7, <1>8, <1>9 DEF ClaimAttempt

LEMMA TakeAttemptMoves ==
  ASSUME IInv, NEW q \in Requests, TakeAttempt(q)
  PROVE  HandlerMove(q)
<1> DEFINE h == req[q]
           t == h.task
<1>1. Active(q) /\ h.step = "take" /\ h \in Handler /\ t \in Tasks
  BY TaskTyped DEF TakeAttempt, At, IInv
<1>2. h.answer \in Answers /\ attempt[t] # NoRow /\ h.seen \in Met
  BY <1>1 DEF IInv, RequestsInv, Knows, KnowsAnswer, KnowsAttempt
<1>3. UNCHANGED <<vars, artifact, run, sweep, faults>>
  BY DEF TakeAttempt
<1>4. CASE Fails(q) /\ UNCHANGED attempt
  <2>1. ProtocolStep /\ \A u \in Tasks : task'[u] = task[u]
    BY <1>3, UnchangedMoves
  <2> QED
    BY <1>3, <1>4, <2>1, FailsMoves
<1>5. CASE /\ attempt[t].status = h.seen.status
           /\ Execute(q, Execution(h.answer, attempt[t].count + 1))
  <2>1. attempt[t].count \in Nat
    BY <1>1, <1>2 DEF IInv, CompletionTypeOK, AttemptRow
  <2>2. attempt[t].status # "succeeded"
    BY <1>2, <1>5 DEF Met
  <2>3. run[t] = NoRow
    BY <1>1, <2>2 DEF IInv, RunsInv
  <2>4. /\ attempt[t].count + 1 \in Nat
        /\ attempt[t].count + 1 > attempt[t].count
    BY <2>1
  <2> QED
    BY <1>1, <1>2, <1>3, <1>5, <2>3, <2>4, ExecuteMoves
<1> QED
  BY <1>4, <1>5 DEF TakeAttempt

LEMMA MarkFailedMoves ==
  ASSUME IInv, NEW q \in Requests, MarkFailed(q)
  PROVE  HandlerMove(q)
<1> DEFINE t == req[q].task
           row == [attempt[t] EXCEPT !.status = "failed"]
<1>1. Active(q) /\ req[q].step = "recover" /\ t \in Tasks
  BY TaskTyped DEF MarkFailed, At, IInv
<1>2. /\ UNCHANGED <<vars, artifact, run, sweep, faults>>
      /\ End(q, "report")
  BY DEF MarkFailed
<1>3. ProtocolStep /\ \A u \in Tasks : task'[u] = task[u]
  BY <1>2, UnchangedMoves
<1>4. PICK k : Becomes(q, k)
  BY <1>1, <1>2, EndYields DEF IInv
<1>5. req'[q] = k /\ k.step = "report" /\ k.task = t
  BY <1>1, <1>2, <1>4, EndYields DEF IInv, Becomes, SameRequest
<1>6. KnowsClaim(k, task'[t])
  BY <1>1, <1>3, <1>4, <1>5, BecomesKnows
<1> HIDE DEF t
<1>7. /\ \A att : KnowsAttempt(k, att)
      /\ \A stored : KnowsAnswer(k, task'[t], stored)
  BY <1>5 DEF KnowsAttempt, KnowsAnswer
<1>8. CASE UNCHANGED attempt
  <2>1. faults' \in 0..MaxFaults
    BY <1>2 DEF IInv, CompletionTypeOK
  <2> QED
    BY <1>1, <1>2, <1>3, <1>4, <1>5, <1>7, <1>8, <2>1, GoesOnMoves
<1>9. CASE OwnExecution(q) /\ attempt' = [attempt EXCEPT ![t] = row]
  <2>1. attempt[t] # NoRow
    BY <1>1 DEF IInv, RequestsInv, Knows, KnowsAttempt, t
  <2>2. attempt[t] \in AttemptRow
    BY <1>1, <2>1 DEF IInv, CompletionTypeOK
  <2>3. /\ row \in AttemptRow
        /\ row.status = "failed" /\ row.count = attempt[t].count
        /\ row.answer = attempt[t].answer /\ attempt[t].count \in Nat
    BY <2>2 DEF AttemptRow
  <2>4. attempt[t].status = "running"
    BY <1>9 DEF OwnExecution, t
  <2>5. run[t] = NoRow
    BY <1>1, <2>4 DEF IInv, RunsInv
  <2>6. AttemptContinues(attempt[t], row)
    BY <2>3, NoRowAssumption DEF AttemptContinues
  <2>7. CompletionTypeOK'
    BY <1>1, <1>2, <1>4, <1>9, <2>3 DEF IInv, CompletionTypeOK, Becomes
  <2> HIDE DEF row
  <2>8. WebStep /\ RunsInv' /\ ArtifactsInv'
    BY <1>1, <1>2, <1>3, <1>9, <2>3, <2>5, <2>6, <2>7, AttemptOnly DEF vars
  <2> QED
    BY <1>3, <1>4, <1>5, <1>6, <1>7, <2>7, <2>8 DEF HandlerMove, Becomes, Knows
<1> QED
  BY <1>8, <1>9 DEF MarkFailed, t

LEMMA ReportFailureMoves ==
  ASSUME IInv, NEW q \in Requests, ReportFailure(q)
  PROVE  HandlerMove(q) /\ (UNCHANGED vars \/ QuietNext)
<1> DEFINE h == req[q]
<1>1. Active(q) /\ h.task \in Tasks
  BY TaskTyped DEF ReportFailure, At, IInv
<1>2. Fails(q) /\ UNCHANGED <<artifact, attempt, run, sweep, faults>>
  BY DEF ReportFailure
<1>3. \/ UNCHANGED vars
      \/ /\ h.client \in Runners
         /\ RecordFailure(h.task, h.client, h.generation, "post_submit",
                          PersistenceFailed)
      \/ h.client \in Users /\ Release(h.task, h.client, h.generation)
  BY DEF ReportFailure
<1>4. UNCHANGED vars \/ QuietNext
  BY <1>1, <1>3, FailureQuiet, ReleaseQuiet DEF IInv
<1>5. ProtocolStep /\ \A t \in Tasks : task'[t].observed = task[t].observed
  BY <1>4, UnchangedMoves, QuietMoves
<1> QED
  BY <1>2, <1>4, <1>5, FailsMoves

\* What has succeeded is not claimed any more: completing a task whose run had
\* been stored before always fails.
LEMMA FinishMoves ==
  ASSUME IInv, NEW q \in Requests, Finish(q)
  PROVE  HandlerMove(q) /\ UNCHANGED vars
<1> DEFINE h == req[q]
<1>1. Active(q) /\ h.step = "finish" /\ h.task \in Tasks
  BY TaskTyped DEF Finish, At, IInv
<1>2. task[h.task].status = "succeeded"
  BY <1>1 DEF IInv, RequestsInv, Knows, KnowsAnswer, RunsInv
<1>3. /\ Fails(q) /\ UNCHANGED vars
      /\ UNCHANGED <<artifact, attempt, run, sweep, faults>>
  BY <1>2 DEF Finish, ActiveLease
<1>4. ProtocolStep /\ \A t \in Tasks : task'[t] = task[t]
  BY <1>3, UnchangedMoves
<1> QED
  BY <1>3, <1>4, FailsMoves

-----------------------------------------------------------------------------
(* The transaction that stores the observation *)

\* It proves the claim that was read, and completes the task under it.
LEMMA StoreCompletes ==
  ASSUME IInv, NEW q \in Requests, Active(q), Storable(q), Store(q)
  PROVE  /\ Complete(req[q].task, req[q].client, task[req[q].task].generation)
         /\ Next
         /\ task' = [task EXCEPT ![req[q].task] = Succeeded(task[req[q].task])]
<1> DEFINE h == req[q]
           t == h.task
<1>1. h \in Handler /\ t \in Tasks /\ h.client \in Clients
  BY TaskTyped DEF IInv
<1>2. ActiveLease(t, h.client, h.generation)
  BY DEF Storable
<1>3. h.generation = task[t].generation /\ h.generation \in 1..MaxGeneration
  BY <1>1, <1>2, ProvenGeneration DEF IInv
<1>4. StillClaimed(h, task[t])
  BY <1>2 DEF ActiveLease, StillClaimed
<1>5. /\ h.client \in Runners => task[t].intent /\ task[t].confirmed
      /\ h.client \in Users => ~task[t].intent
  BY <1>1, <1>4 DEF IInv, RequestsInv, Knows, KnowsClaim
<1>6. UpdateAndSettle("complete", t, Succeeded(task[t])) /\ refused' = "none"
  BY DEF Store
<1>7. Complete(t, h.client, task[t].generation)
  BY <1>1, <1>2, <1>3, <1>5, <1>6 DEF Complete, PortalMutationAllowed, Clients
<1>8. Next
  BY <1>1, <1>3, <1>7 DEF Next, RunnerStep, PortalStep, Clients
<1>9. task' = [task EXCEPT ![t] = Succeeded(task[t])]
  BY <1>6 DEF UpdateAndSettle, Commit, CommitFrom
<1> QED
  BY <1>7, <1>8, <1>9

LEMMA StoreMoves ==
  ASSUME IInv, NEW q \in Requests, Active(q), req[q].step = "persist",
         Storable(q), Store(q), NEW step \in {"recover", "ok"}, End(q, step),
         faults' \in 0..MaxFaults, UNCHANGED sweep
  PROVE  HandlerMove(q)
<1> DEFINE h == req[q]
           t == h.task
           done == [attempt[t] EXCEPT !.status = "succeeded"]
           stored == [answer |-> h.answer, evidence |-> h.evidence]
<1>1. h \in Handler /\ t \in Tasks /\ h.client \in Clients
  BY TaskTyped DEF IInv
<1>2. /\ attempt[t] # NoRow /\ h.seen \in Met
      /\ h.seen.count = attempt[t].count => attempt[t].answer = h.answer
      /\ h.answer \in Answers
  BY <1>1 DEF IInv, RequestsInv, Knows, KnowsAttempt, KnowsAnswer
<1>3. attempt[t].status = "running" /\ attempt[t].answer = h.answer
  BY <1>2 DEF Storable, OwnExecution
<1>4. /\ run[t] = NoRow
      /\ \A i \in ArtifactsOf(t) : artifact[i].status # "attached"
  BY <1>1, <1>3 DEF IInv, RunsInv
<1>5. /\ attempt[t] \in AttemptRow /\ attempt[t].count \in Nat
      /\ done \in AttemptRow
      /\ done.status = "succeeded" /\ done.answer = h.answer
      /\ done.count = attempt[t].count
  <2>1. attempt[t] \in AttemptRow
    BY <1>1, <1>2 DEF IInv, CompletionTypeOK
  <2> QED
    BY <1>3, <2>1 DEF AttemptRow
<1>6. /\ stored \in RunRow
      /\ stored.answer = h.answer /\ stored.evidence = h.evidence
  BY <1>1, <1>2 DEF RunRow, Handler
<1>7. done # NoRow /\ stored # NoRow
  BY <1>5, <1>6, NoRowAssumption
<1>8. /\ attempt' = [attempt EXCEPT ![t] = done]
      /\ run' = [run EXCEPT ![t] = stored]
      /\ artifact' = [i \in Artifacts |->
           IF i \in h.evidence THEN [artifact[i] EXCEPT !.status = "attached"]
           ELSE artifact[i]]
  BY DEF Store
<1> HIDE DEF done, stored
<1>9. ProtocolStep /\ task' = [task EXCEPT ![t] = Succeeded(task[t])]
  BY StoreCompletes, NextMoves DEF IInv
<1>10. \A i \in h.evidence : /\ i \in Artifacts
                             /\ artifact[i] # NoRow /\ artifact[i] \in ArtifactRow
                             /\ artifact[i].task = t
                             /\ artifact[i].by = h.client
                             /\ artifact[i].generation = h.generation
                             /\ artifact[i].status = "staged"
  BY DEF Storable, Staged, ClaimArtifacts, ArtifactsOf, IInv, CompletionTypeOK
<1>11. ASSUME NEW i \in Artifacts
       PROVE  /\ artifact'[i] \in ArtifactRow \cup {NoRow}
              /\ artifact'[i] # NoRow <=> artifact[i] # NoRow
              /\ artifact[i] # NoRow => SameUpload(artifact[i], artifact'[i])
              /\ i \in h.evidence => artifact'[i].status = "attached"
              /\ i \notin h.evidence => artifact'[i] = artifact[i]
  <2>1. CASE i \in h.evidence
    <3>1. /\ [artifact[i] EXCEPT !.status = "attached"] \in ArtifactRow
          /\ SameUpload(artifact[i], [artifact[i] EXCEPT !.status = "attached"])
          /\ [artifact[i] EXCEPT !.status = "attached"].status = "attached"
      BY <1>10, <2>1 DEF ArtifactRow, SameUpload
    <3> QED
      BY <1>8, <1>10, <2>1, <3>1, NoRowAssumption
  <2>2. CASE i \notin h.evidence
    BY <1>8, <2>2 DEF SameUpload, IInv, CompletionTypeOK
  <2> QED
    BY <2>1, <2>2
<1>12. PICK k : Becomes(q, k)
  BY EndYields DEF IInv
<1>13. /\ req'[q] = k /\ k.step = step /\ k.task = t
       /\ step = "ok" => k.answer = h.answer
       /\ step = "recover" => k.seen = h.seen
  BY <1>12, EndYields DEF IInv, Becomes, SameRequest
<1>14. KnowsClaim(k, task'[t])
  BY <1>9, <1>12, <1>13, BecomesKnows
<1>15. CompletionTypeOK'
  <2>1. artifact' \in [Artifacts -> ArtifactRow \cup {NoRow}]
    BY <1>8, <1>11
  <2>2. /\ attempt' \in [Tasks -> AttemptRow \cup {NoRow}]
        /\ run' \in [Tasks -> RunRow \cup {NoRow}]
    BY <1>5, <1>6, <1>8 DEF IInv, CompletionTypeOK
  <2> QED
    BY <1>12, <2>1, <2>2 DEF IInv, CompletionTypeOK, Becomes
<1>16. /\ attempt'[t] = done /\ run'[t] = stored /\ task'[t] = Succeeded(task[t])
       /\ \A u \in Tasks : u # t =>
            attempt'[u] = attempt[u] /\ run'[u] = run[u] /\ task'[u] = task[u]
  BY <1>1, <1>8, <1>9 DEF IInv, CompletionTypeOK, RowsInv, CustodyInv, TypeOK
<1>17. WebStep
  <2>1. AttemptContinues(attempt[t], attempt'[t])
    BY <1>3, <1>5, <1>7, <1>16 DEF AttemptContinues
  <2>2. \A u \in Tasks : u # t => AttemptContinues(attempt[u], attempt'[u])
    BY <1>16 DEF AttemptContinues, IInv, CompletionTypeOK, AttemptRow
  <2> QED
    BY <1>4, <1>16, <2>1, <2>2 DEF WebStep
<1>18. /\ Succeeded(task[t]).status = "succeeded"
       /\ Succeeded(task[t]).claimedBy = h.client
       /\ Succeeded(task[t]).generation = h.generation
  <2>1. task[t].claimedBy = h.client /\ task[t].generation = h.generation
    BY DEF Storable, ActiveLease
  <2> QED
    BY <1>1, <2>1, RowTyped DEF Succeeded, TaskRow, IInv
<1> HIDE DEF h, t
<1>19. RunsInv'
  <2> SUFFICES ASSUME NEW u \in Tasks
               PROVE  /\ run'[u] # NoRow <=> task'[u].status = "succeeded"
                      /\ run'[u] # NoRow <=> /\ attempt'[u] # NoRow
                                             /\ attempt'[u].status = "succeeded"
                      /\ run'[u] # NoRow => attempt'[u].answer = run'[u].answer
                      /\ \A i \in Artifacts :
                           artifact'[i] # NoRow /\ artifact'[i].task = u =>
                             (artifact'[i].status = "attached" <=>
                                /\ run'[u] # NoRow
                                /\ i \in run'[u].evidence
                                /\ artifact'[i].by = task'[u].claimedBy
                                /\ artifact'[i].generation = task'[u].generation)
    BY DEF RunsInv, ArtifactsOf
  <2>1. CASE u = t
    <3>1. ASSUME NEW i \in Artifacts, artifact'[i] # NoRow, artifact'[i].task = t
          PROVE  artifact'[i].status = "attached" <=>
                   /\ i \in h.evidence
                   /\ artifact'[i].by = h.client
                   /\ artifact'[i].generation = h.generation
      <4>1. artifact[i] # NoRow /\ artifact[i].task = t
        BY <1>11, <3>1 DEF SameUpload
      <4>2. artifact[i].status # "attached"
        BY <1>4, <4>1 DEF ArtifactsOf
      <4> QED
        BY <1>10, <1>11, <4>1, <4>2 DEF SameUpload
    <3> QED
      BY <1>5, <1>6, <1>7, <1>16, <1>18, <2>1, <3>1
  <2>2. CASE u # t
    <3>1. ASSUME NEW i \in Artifacts, artifact'[i] # NoRow, artifact'[i].task = u
          PROVE  /\ i \in ArtifactsOf(u)
                 /\ artifact'[i] = artifact[i]
      BY <1>10, <1>11, <2>2, <3>1 DEF ArtifactsOf, SameUpload
    <3> QED
      BY <1>16, <2>2, <3>1 DEF IInv, RunsInv
  <2> QED
    BY <2>1, <2>2
<1>20. ArtifactsInv'
  BY <1>9, <1>11, <1>15, ArtifactsStay
<1>21. KnowsAttempt(k, attempt'[t])
  BY <1>2, <1>5, <1>7, <1>13, <1>16 DEF KnowsAttempt, IInv, RequestsInv, Knows, h, t
<1>22. KnowsAnswer(k, task'[t], run'[t])
  BY <1>2, <1>6, <1>7, <1>13, <1>16 DEF KnowsAnswer
<1> QED
  BY <1>9, <1>12, <1>13, <1>14, <1>15, <1>17, <1>19, <1>20, <1>21, <1>22
     DEF HandlerMove, Becomes, Knows

LEMMA PersistMoves ==
  ASSUME IInv, NEW q \in Requests, Persist(q)
  PROVE  /\ HandlerMove(q)
         /\ UNCHANGED vars \/ (Storable(q) /\ Store(q))
<1>1. Active(q) /\ req[q].step = "persist" /\ req[q].task \in Tasks
  BY TaskTyped DEF Persist, At, IInv
<1>2. UNCHANGED sweep /\ faults \in 0..MaxFaults
  BY DEF Persist, IInv, CompletionTypeOK
<1>3. CASE Storable(q) /\ Store(q) /\ End(q, "ok") /\ UNCHANGED faults
  BY <1>1, <1>2, <1>3, StoreMoves
<1>4. CASE /\ faults < MaxFaults /\ faults' = faults + 1
           /\ Storable(q) /\ Store(q) /\ End(q, "recover")
  <2>1. faults' \in 0..MaxFaults
    BY <1>2, <1>4, CompletionBoundsAssumption
  <2> QED
    BY <1>1, <1>2, <1>4, <2>1, StoreMoves
<1>5. CASE /\ ~Storable(q) \/ faults < MaxFaults
           /\ faults' = IF Storable(q) THEN faults + 1 ELSE faults
           /\ End(q, "recover")
           /\ UNCHANGED <<vars, artifact, attempt, run>>
  <2>1. faults' \in 0..MaxFaults
    BY <1>2, <1>5, CompletionBoundsAssumption
  <2>2. ProtocolStep /\ \A t \in Tasks : task'[t] = task[t]
    BY <1>5, UnchangedMoves
  <2>3. PICK k : Becomes(q, k)
    BY <1>1, <1>5, EndYields DEF IInv
  <2>4. k.step = "recover" /\ k.seen = req[q].seen /\ k.task = req[q].task
    BY <1>1, <1>5, <2>3, EndYields DEF IInv, Becomes, SameRequest
  <2>5. KnowsAttempt(req[q], attempt[req[q].task])
    BY <1>1 DEF IInv, RequestsInv, Knows
  <2>6. KnowsAttempt(k, attempt[k.task])
    BY <1>1, <2>4, <2>5 DEF KnowsAttempt
  <2>7. KnowsAnswer(k, task'[k.task], run[k.task])
    BY <2>4 DEF KnowsAnswer
  <2> QED
    BY <1>1, <1>2, <1>5, <2>1, <2>2, <2>3, <2>6, <2>7, GoesOnMoves
<1> QED
  BY <1>3, <1>4, <1>5 DEF Persist

-----------------------------------------------------------------------------
(* Uploads and the maintenance job *)

\* Whatever comes and goes is staged.
LEMMA StagedOnly ==
  ASSUME IInv, UNCHANGED <<vars, attempt, run, req>>,
         \A i \in Artifacts :
           \/ artifact'[i] = artifact[i]
           \/ artifact'[i] = NoRow
           \/ /\ artifact'[i].status = "staged"
              /\ run[artifact'[i].task] = NoRow
  PROVE  ProtocolStep /\ WebStep /\ RunsInv'
<1>1. ProtocolStep /\ \A t \in Tasks : task'[t] = task[t]
  BY UnchangedMoves
<1>2. WebStep
  BY DEF WebStep, AttemptContinues, IInv, CompletionTypeOK, AttemptRow
<1>3. RunsInv'
  BY <1>1 DEF IInv, RunsInv, ArtifactsOf
<1> QED
  BY <1>1, <1>2, <1>3

\* What an evidence step has to show.
EvidenceMove ==
  /\ ProtocolStep
  /\ CompletionTypeOK'
  /\ WebStep
  /\ UNCHANGED req
  /\ RunsInv'
  /\ ArtifactsInv'

\* Deleting artifacts that are staged.
LEMMA WithoutMoves ==
  ASSUME IInv, NEW S, artifact' = Without(S),
         sweep' \subseteq sweep, UNCHANGED <<vars, attempt, run, req, faults>>
  PROVE  EvidenceMove
<1>1. \A i \in Artifacts : artifact'[i] = NoRow \/ artifact'[i] = artifact[i]
  BY DEF Without
<1>2. ProtocolStep /\ WebStep /\ RunsInv'
  BY <1>1, StagedOnly
<1>3. artifact' \in [Artifacts -> ArtifactRow \cup {NoRow}]
  BY DEF Without, IInv, CompletionTypeOK
<1>4. CompletionTypeOK'
  BY <1>3 DEF IInv, CompletionTypeOK
<1>5. ArtifactsInv'
  BY <1>1, <1>2, <1>4, ArtifactsStay DEF SameUpload
<1> QED
  BY <1>2, <1>4, <1>5 DEF EvidenceMove

LEMMA SelectStaleMoves ==
  ASSUME IInv, SelectStale
  PROVE  EvidenceMove
<1>1. PICK S \in SUBSET {i \in Staged(Artifacts) : InactiveClaim(artifact[i])} :
        sweep' = S
  BY DEF SelectStale
<1>2. UNCHANGED <<vars, artifact, attempt, run, req, faults>>
  BY DEF SelectStale
<1>3. ProtocolStep /\ WebStep /\ RunsInv'
  BY <1>2, StagedOnly
<1>4. CompletionTypeOK'
  BY <1>1, <1>2 DEF IInv, CompletionTypeOK, Staged
<1>5. ArtifactsInv'
  <2> SUFFICES ASSUME NEW i \in Artifacts, artifact[i] # NoRow
               PROVE  /\ artifact[i].generation <= task[artifact[i].task].generation
                      /\ i \in sweep' =>
                           Outlived(artifact[i], task[artifact[i].task], now)
    BY <1>2 DEF ArtifactsInv, vars
  <2>1. /\ artifact[i].generation <= task[artifact[i].task].generation
        /\ artifact[i].task \in Tasks
    BY DEF IInv, ArtifactsInv, CompletionTypeOK, ArtifactRow
  <2>2. /\ task[artifact[i].task].lease \in Int
        /\ now \in Int
    BY <2>1 DEF IInv, RowsInv, CustodyInv, TypeOK, TaskRow, Times, NoTime
  <2>3. i \in sweep' => InactiveClaim(artifact[i])
    BY <1>1
  <2>4. i \in sweep' => Outlived(artifact[i], task[artifact[i].task], now)
    BY <2>2, <2>3 DEF InactiveClaim, Outlived, LiveLease
  <2> QED
    BY <2>1, <2>4
<1> QED
  BY <1>2, <1>3, <1>4, <1>5 DEF EvidenceMove

LEMMA StageEvidenceMoves ==
  ASSUME IInv, NEW t \in Tasks, NEW c \in Clients,
         StageEvidence(t, c, task[t].generation)
  PROVE  EvidenceMove
<1> DEFINE g == task[t].generation
           old == {i \in Staged(ArtifactsOf(t)) : artifact[i].generation # g}
           new == [task |-> t, by |-> c, generation |-> g, status |-> "staged"]
<1>1. PICK i \in Artifacts \ Remembered :
        /\ artifact[i] = NoRow
        /\ artifact' = [Without(old) EXCEPT ![i] = new]
  BY DEF StageEvidence
<1>2. /\ UNCHANGED <<vars, attempt, run, req, sweep, faults>>
      /\ task[t].status = "claimed"
  BY DEF StageEvidence, ActiveClaim, ActiveLease
<1>3. new \in ArtifactRow /\ g \in Nat
  BY RowTyped DEF ArtifactRow, IInv
<1>4. /\ artifact'[i] = new
      /\ \A j \in Artifacts : j # i =>
           artifact'[j] = NoRow \/ artifact'[j] = artifact[j]
  BY <1>1 DEF Without
<1>5. run[t] = NoRow
  BY <1>2 DEF IInv, RunsInv
<1>6. new.task = t /\ new.generation = g /\ new.status = "staged"
  OBVIOUS
<1>7. artifact' \in [Artifacts -> ArtifactRow \cup {NoRow}]
  BY <1>1, <1>3 DEF Without, IInv, CompletionTypeOK
<1> HIDE DEF old, new
<1>8. ProtocolStep /\ WebStep /\ RunsInv'
  BY <1>2, <1>4, <1>5, <1>6, StagedOnly
<1>9. CompletionTypeOK'
  BY <1>2, <1>7 DEF IInv, CompletionTypeOK
<1>10. i \notin sweep
  BY <1>1 DEF Remembered
<1>11. ArtifactsInv'
  <2> SUFFICES ASSUME NEW j \in Artifacts, artifact'[j] # NoRow
               PROVE  /\ artifact'[j].generation <= task[artifact'[j].task].generation
                      /\ j \in sweep =>
                           Outlived(artifact'[j], task[artifact'[j].task], now)
    BY <1>2 DEF ArtifactsInv, vars
  <2>1. CASE j = i
    BY <1>3, <1>4, <1>6, <1>10, <2>1
  <2>2. CASE j # i
    BY <1>4, <2>2 DEF IInv, ArtifactsInv
  <2> QED
    BY <2>1, <2>2
<1> QED
  BY <1>2, <1>8, <1>9, <1>11 DEF EvidenceMove

LEMMA EvidenceMoves ==
  ASSUME IInv, EvidenceStep
  PROVE  EvidenceMove
<1>1. ASSUME NEW t \in Tasks, NEW c \in Clients,
             StageEvidence(t, c, task[t].generation)
      PROVE  EvidenceMove
  BY <1>1, StageEvidenceMoves
<1>2. ASSUME NEW u \in Users, NEW i \in Artifacts, DeleteEvidence(u, i)
      PROVE  EvidenceMove
  BY <1>2, WithoutMoves DEF DeleteEvidence
<1>3. CASE SelectStale
  BY <1>3, SelectStaleMoves
<1>4. CASE DeleteStale
  BY <1>4, WithoutMoves DEF DeleteStale
<1> QED
  BY <1>1, <1>2, <1>3, <1>4 DEF EvidenceStep

\* Uploading, deleting and sweeping leave the protocol alone.
LEMMA EvidenceQuiet ==
  ASSUME EvidenceStep
  PROVE  UNCHANGED vars
<1>1. ASSUME NEW t, NEW c, NEW g, StageEvidence(t, c, g)
      PROVE  UNCHANGED vars
  BY <1>1 DEF StageEvidence
<1> QED
  BY <1>1 DEF EvidenceStep, DeleteEvidence, SelectStale, DeleteStale

-----------------------------------------------------------------------------
(* The invariant *)

\* What a step of a handler is for the protocol: nothing, one of its transactions
\* that store nothing, or the completion of the task under its claim.
CompletesOwn ==
  \E t \in Tasks, c \in Clients :
    /\ Complete(t, c, task[t].generation)
    /\ Next
    /\ task' = [task EXCEPT ![t] = Succeeded(task[t])]

LEMMA HandlerMoves ==
  ASSUME IInv, NEW q \in Requests, HandlerStep(q)
  PROVE  HandlerMove(q) /\ (UNCHANGED vars \/ QuietNext \/ CompletesOwn)
<1>1. ASSUME NEW t \in Tasks, NEW r \in Runners, ReceiveFromRunner(q, t, r)
      PROVE  HandlerMove(q) /\ UNCHANGED vars
  BY <1>1, ReceiveFromRunnerMoves DEF ReceiveFromRunner
<1>2. ASSUME NEW t \in Tasks, NEW u \in Users, ReceiveFromPortal(q, t, u)
      PROVE  HandlerMove(q) /\ UNCHANGED vars
  BY <1>2, ReceiveFromPortalMoves DEF ReceiveFromPortal
<1>3. ASSUME RenewLease(q)
      PROVE  HandlerMove(q) /\ (UNCHANGED vars \/ QuietNext)
  <2>1. req[q].task \in Tasks /\ req[q].client \in Clients
    BY <1>3, TaskTyped DEF RenewLease, At, IInv
  <2> QED
    BY <1>3, <2>1, RenewLeaseMoves, HeartbeatQuiet DEF RenewLease, IInv
<1>4. CASE ListEvidence(q) \/ Crash(q)
  BY <1>4, ListEvidenceMoves, CrashMoves DEF ListEvidence, Crash
<1>5. CASE ClaimAttempt(q) \/ TakeAttempt(q)
  BY <1>5, ClaimAttemptMoves, TakeAttemptMoves DEF ClaimAttempt, TakeAttempt
<1>6. CASE Persist(q)
  <2>1. Active(q) /\ req[q].task \in Tasks /\ req[q].client \in Clients
    BY <1>6, TaskTyped DEF Persist, At, IInv
  <2>2. UNCHANGED vars \/ CompletesOwn
    BY <1>6, <2>1, PersistMoves, StoreCompletes DEF CompletesOwn
  <2> QED
    BY <1>6, <2>2, PersistMoves
<1>7. CASE MarkFailed(q)
  BY <1>7, MarkFailedMoves DEF MarkFailed
<1>8. CASE ReportFailure(q)
  BY <1>8, ReportFailureMoves
<1>9. CASE Finish(q)
  BY <1>9, FinishMoves
<1> QED
  BY <1>1, <1>2, <1>3, <1>4, <1>5, <1>6, <1>7, <1>8, <1>9 DEF HandlerStep

LEMMA OtherMoves ==
  ASSUME IInv, OtherStep
  PROVE  EvidenceMove /\ QuietNext
<1>1. ProtocolStep /\ UNCHANGED webVars /\ QuietNext
  BY NextMoves DEF OtherStep, QuietNext, IInv
<1>2. CompletionTypeOK'
  BY <1>1 DEF webVars, IInv, CompletionTypeOK
<1> QED
  BY <1>1, <1>2, WebUnchanged DEF EvidenceMove, webVars, QuietNext

LEMMA CompletionInductive ==
  ASSUME IInv, [CompletionNext]_completionVars
  PROVE  IInv'
<1>1. ASSUME NEW q \in Requests, HandlerStep(q)
      PROVE  IInv'
  <2>1. HandlerMove(q)
    BY <1>1, HandlerMoves
  <2>2. ASSUME NEW p \in Requests, p # q, req'[p] \notin {NoRow, Over}
        PROVE  Knows(req'[p], task'[req'[p].task], attempt'[req'[p].task],
                     run'[req'[p].task])
    BY <2>1, <2>2, KnowledgeStays DEF HandlerMove, Active
  <2>3. RequestsInv'
    BY <2>1, <2>2 DEF RequestsInv, Active, HandlerMove
  <2> QED
    BY <2>1, <2>3 DEF HandlerMove, ProtocolStep, IInv
<1>2. ASSUME EvidenceMove
      PROVE  IInv'
  <2>1. ASSUME NEW p \in Requests, req'[p] \notin {NoRow, Over}
        PROVE  Knows(req'[p], task'[req'[p].task], attempt'[req'[p].task],
                     run'[req'[p].task])
    BY <1>2, <2>1, KnowledgeStays DEF EvidenceMove, Active
  <2>2. RequestsInv'
    BY <2>1 DEF RequestsInv, Active
  <2> QED
    BY <1>2, <2>2 DEF EvidenceMove, ProtocolStep, IInv
<1>3. CASE UNCHANGED completionVars
  <2>1. UNCHANGED <<vars, artifact, attempt, run, req, sweep, faults>>
    BY <1>3 DEF completionVars, webVars
  <2>2. sweep' \subseteq sweep /\ CompletionTypeOK'
    BY <2>1 DEF IInv, CompletionTypeOK
  <2>3. ProtocolStep /\ \A t \in Tasks : task'[t] = task[t]
    BY <2>1, UnchangedMoves
  <2>4. EvidenceMove
    BY <2>1, <2>2, <2>3, WebUnchanged DEF EvidenceMove
  <2> QED
    BY <1>2, <2>4
<1> QED
  BY <1>1, <1>2, <1>3, EvidenceMoves, OtherMoves DEF CompletionNext

LEMMA CompletionInitially ==
  ASSUME CompletionInit
  PROVE  IInv
<1>1. TypeOK /\ Init
  BY InitTyped DEF CompletionInit
<1>2. RowsInv
  BY <1>1 DEF Init, RowsInv, RowFacts, CustodyInv, AutomationConsistent,
              AutomationStateConsistent
<1>3. CompletionTypeOK
  BY CompletionBoundsAssumption DEF CompletionInit, CompletionTypeOK
<1>4. RequestsInv /\ ArtifactsInv
  BY DEF CompletionInit, RequestsInv, Active, ArtifactsInv
<1>5. RunsInv
  BY <1>1 DEF CompletionInit, Init, RunsInv, ArtifactsOf
<1> QED
  BY <1>2, <1>3, <1>4, <1>5 DEF IInv

LEMMA CompletionStepImplements ==
  ASSUME IInv, [CompletionNext]_completionVars
  PROVE  \/ UNCHANGED vars
         \/ QuietNext
         \/ CompletesOwn
<1>1. CASE UNCHANGED completionVars
  BY <1>1 DEF completionVars
<1>2. CASE CompletionNext
  BY <1>2, HandlerMoves, EvidenceQuiet, OtherMoves DEF CompletionNext
<1> QED
  BY <1>1, <1>2

LEMMA CompletionInvariant == CompletionSpec => []IInv
<1>1. CompletionInit => IInv
  BY CompletionInitially
<1>2. IInv /\ [CompletionNext]_completionVars => IInv'
  BY CompletionInductive
<1> QED
  BY <1>1, <1>2, PTL DEF CompletionSpec

-----------------------------------------------------------------------------
(* What follows from it *)

\* Every value the handlers, the uploads and the maintenance job ever write or
\* remember has its type.
THEOREM CompletionTypeCorrect == CompletionSpec => []CompletionTypeOK
<1>1. IInv => CompletionTypeOK
  BY DEF IInv
<1> QED
  BY <1>1, CompletionInvariant, PTL

\* With the handlers of the web server around its transactions, everything the
\* database goes through is still a behaviour of DeliveryRunner, in which a task
\* is completed by one transaction: whatever holds of that one holds of this one.
THEOREM CompletionImplementsProtocol == CompletionSpec => Spec
<1>1. CompletionInit => Init
  BY DEF CompletionInit
<1>2. IInv /\ [CompletionNext]_completionVars => [Next]_vars
  BY CompletionStepImplements DEF QuietNext, CompletesOwn
<1> QED
  BY <1>1, <1>2, CompletionInvariant, PTL DEF CompletionSpec, Spec

\* So a device keeps what it may have submitted, with the handlers as well.
COROLLARY CompletionKeepsSubmitted == CompletionSpec => PostSubmitStaysWithDevice
BY CompletionImplementsProtocol, SubmittedTasksStay, PTL

\* A task is only ever completed under its live lease, and confirmed by its
\* device or never submitted, by the claim the handler had read.
THEOREM CompletedUnderItsClaim == CompletionSpec => CompletesUnderItsClaim
<1>1. ASSUME IInv, [CompletionNext]_completionVars, NEW t \in Tasks,
             task'[t].status = "succeeded", task[t].status # "succeeded"
      PROVE  \E c \in Clients : Complete(t, c, task[t].generation)
  <2>1. CASE UNCHANGED vars
    BY <1>1, <2>1 DEF vars
  <2>2. CASE QuietNext
    <3>1. RowsStep /\ task'[t].observed = task[t].observed
      BY <1>1, <2>2, QuietMoves DEF ProtocolStep
    <3> QED
      BY <1>1, <3>1, QuietStep DEF IInv
  <2>3. CASE CompletesOwn
    <3>1. PICK u \in Tasks, c \in Clients :
            /\ Complete(u, c, task[u].generation)
            /\ task' = [task EXCEPT ![u] = Succeeded(task[u])]
      BY <2>3 DEF CompletesOwn
    <3>2. u = t
      BY <1>1, <3>1 DEF IInv, RowsInv, CustodyInv, TypeOK
    <3> QED
      BY <3>1, <3>2
  <2> QED
    BY <1>1, <2>1, <2>2, <2>3, CompletionStepImplements
<1>2. IInv /\ [CompletionNext]_completionVars =>
        [\A t \in Tasks :
           task'[t].status = "succeeded" /\ task[t].status # "succeeded" =>
             \E c \in Clients : Complete(t, c, task[t].generation)]_vars
  BY <1>1
<1> QED
  BY <1>2, CompletionInvariant, PTL DEF CompletionSpec, CompletesUnderItsClaim

\* A stored run, a succeeded attempt, a succeeded task and the attached evidence
\* always stand and fall together, whatever fails in between.
THEOREM RunsHaveTheirEvidence == CompletionSpec => []RunHasItsEvidence
<1>1. ASSUME IInv, NEW t \in Tasks
      PROVE  /\ run[t] # NoRow <=> task[t].status = "succeeded"
             /\ run[t] # NoRow <=>
                  attempt[t] # NoRow /\ attempt[t].status = "succeeded"
             /\ run[t] # NoRow => attempt[t].answer = run[t].answer
             /\ ArtifactsOf(t) \ Staged(ArtifactsOf(t)) =
                  IF run[t] = NoRow THEN {}
                  ELSE run[t].evidence \cap
                         ClaimArtifacts(t, task[t].claimedBy, task[t].generation)
  <2>1. \A i \in ArtifactsOf(t) :
          /\ i \in Artifacts /\ artifact[i] # NoRow
          /\ artifact[i].status \in {"staged", "attached"}
    BY <1>1 DEF ArtifactsOf, IInv, CompletionTypeOK, ArtifactRow
  <2>2. \A i \in ArtifactsOf(t) :
          artifact[i].status = "attached" <=>
            /\ run[t] # NoRow
            /\ i \in run[t].evidence
            /\ artifact[i].by = task[t].claimedBy
            /\ artifact[i].generation = task[t].generation
    BY <1>1 DEF IInv, RunsInv
  <2>3. ArtifactsOf(t) \ Staged(ArtifactsOf(t)) =
          {i \in ArtifactsOf(t) : artifact[i].status = "attached"}
    BY <2>1 DEF Staged
  <2>4. ASSUME run[t] # NoRow
        PROVE  {i \in ArtifactsOf(t) : artifact[i].status = "attached"} =
                 run[t].evidence \cap
                   ClaimArtifacts(t, task[t].claimedBy, task[t].generation)
    BY <2>2, <2>4 DEF ClaimArtifacts
  <2> QED
    BY <1>1, <2>2, <2>3, <2>4 DEF IInv, RunsInv
<1>2. IInv => RunHasItsEvidence
  BY <1>1 DEF RunHasItsEvidence
<1> QED
  BY <1>2, CompletionInvariant, PTL

\* Whoever is told that an observation was accepted finds one stored: his own,
\* or for a device the one it had completed the task with.
THEOREM AcceptedAreStored == CompletionSpec => []AcceptedIsStored
<1>1. ASSUME IInv, NEW q \in Requests, At(q, "ok")
      PROVE  /\ run[req[q].task] # NoRow
             /\ \/ run[req[q].task].answer = req[q].answer
                \/ /\ req[q].client \in Runners
                   /\ task[req[q].task].claimedBy = req[q].client
  BY <1>1 DEF At, IInv, RequestsInv, Knows, KnowsAnswer
<1>2. IInv => AcceptedIsStored
  BY <1>1 DEF AcceptedIsStored
<1> QED
  BY <1>2, CompletionInvariant, PTL

\* No handler removes evidence.
LEMMA HandlerKeepsEvidence ==
  ASSUME IInv, NEW q \in Requests, HandlerStep(q),
         NEW i \in Artifacts, artifact[i] # NoRow
  PROVE  artifact'[i] # NoRow
<1>1. CASE UNCHANGED artifact
  BY <1>1
<1>2. CASE Storable(q) /\ Store(q)
  <2>1. artifact[i] \in ArtifactRow
    BY DEF IInv, CompletionTypeOK
  <2>2. [artifact[i] EXCEPT !.status = "attached"] \in ArtifactRow
    BY <2>1 DEF ArtifactRow
  <2>3. artifact'[i] \in ArtifactRow
    BY <1>2, <2>1, <2>2 DEF Store
  <2> QED
    BY <2>3, NoRowAssumption
<1>3. UNCHANGED artifact \/ (Storable(q) /\ Store(q))
  BY DEF HandlerStep, ReceiveFromRunner, ReceiveFromPortal, RenewLease,
         ListEvidence, ClaimAttempt, TakeAttempt, Persist, MarkFailed,
         ReportFailure, Finish, Crash
<1> QED
  BY <1>1, <1>2, <1>3

\* The maintenance job and later uploads only take artifacts of claims that have
\* ended or run out, though the job deletes them without a second look: a lease
\* that ran out is never renewed.
THEOREM LiveEvidenceIsSafe == CompletionSpec => LiveEvidenceStays
<1>1. ASSUME IInv, CompletionNext, NEW i \in Artifacts, artifact[i] # NoRow,
             ActiveLease(artifact[i].task, artifact[i].by, artifact[i].generation),
             artifact'[i] = NoRow
      PROVE  artifact[i].by \in Users /\ DeleteEvidence(artifact[i].by, i)
  <2>1. ASSUME NEW q \in Requests, HandlerStep(q)
        PROVE  FALSE
    BY <1>1, <2>1, HandlerKeepsEvidence
  <2>2. ASSUME NEW t \in Tasks, NEW c \in Clients,
               StageEvidence(t, c, task[t].generation)
        PROVE  FALSE
    <3> DEFINE g == task[t].generation
               old == {j \in Staged(ArtifactsOf(t)) : artifact[j].generation # g}
               new == [task |-> t, by |-> c, generation |-> g, status |-> "staged"]
    <3>1. PICK j \in Artifacts \ Remembered :
            /\ artifact[j] = NoRow
            /\ artifact' = [Without(old) EXCEPT ![j] = new]
      BY <2>2 DEF StageEvidence
    <3>2. artifact'[i] = Without(old)[i]
      BY <1>1, <3>1 DEF Without
    <3>3. i \in old
      BY <1>1, <3>2 DEF Without
    <3>4. artifact[i].task = t /\ artifact[i].generation # g
      BY <3>3 DEF Staged, ArtifactsOf
    <3> QED
      BY <1>1, <3>4 DEF ActiveLease
  <2>3. ASSUME NEW u \in Users, NEW j \in Artifacts, DeleteEvidence(u, j)
        PROVE  artifact[i].by \in Users /\ DeleteEvidence(artifact[i].by, i)
    <3>1. j = i
      BY <1>1, <2>3 DEF DeleteEvidence, Without
    <3>2. artifact[i].by = u
      BY <2>3, <3>1 DEF DeleteEvidence
    <3> QED
      BY <2>3, <3>1, <3>2
  <2>4. CASE SelectStale
    BY <1>1, <2>4 DEF SelectStale
  <2>5. CASE DeleteStale
    <3>1. i \in sweep
      BY <1>1, <2>5 DEF DeleteStale, Without, Staged
    <3>2. Outlived(artifact[i], task[artifact[i].task], now)
      BY <1>1, <3>1 DEF IInv, ArtifactsInv
    <3> QED
      BY <1>1, <3>2 DEF Outlived, ActiveLease
  <2>6. CASE OtherStep
    BY <1>1, <2>6 DEF OtherStep, webVars
  <2> QED
    BY <1>1, <2>1, <2>2, <2>3, <2>4, <2>5, <2>6 DEF CompletionNext, EvidenceStep
<1>2. IInv /\ [CompletionNext]_completionVars =>
        [\A i \in Artifacts :
           /\ artifact[i] # NoRow
           /\ ActiveLease(artifact[i].task, artifact[i].by, artifact[i].generation)
           /\ artifact'[i] = NoRow
           => artifact[i].by \in Users /\ DeleteEvidence(artifact[i].by, i)
        ]_completionVars
  BY <1>1
<1> QED
  BY <1>2, CompletionInvariant, PTL DEF CompletionSpec, LiveEvidenceStays
=============================================================================
