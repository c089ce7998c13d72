--------------------------- MODULE TaskCompletion ---------------------------
(***************************************************************************)
(* How a task comes by its observation: the web server's handlers of a     *)
(* completion (completeRunnerTask for a device, submitSamplingTaskFn for a *)
(* portal user) with the observation attempt they claim, and the evidence  *)
(* artifacts that are uploaded for a claim, attached by the completion or  *)
(* swept away by the maintenance job.  Every transaction of DeliveryRunner *)
(* but the completion itself goes on around them.                          *)
(*                                                                         *)
(* A handler is a chain of transactions; what it read in one it still uses *)
(* in the next ones, when the row may have changed.  An error ends it, and *)
(* so does a crash of the server.  A request whose lease was lost before   *)
(* the handler reads the task changes nothing and is not modelled.  The    *)
(* bytes of an artifact, its kind and the byte limits are left out:        *)
(* uploading a content again returns its row, or fails, and is no step.    *)
(***************************************************************************)
EXTENDS DeliveryRunner

CONSTANTS
  Requests,     \* completion requests, each received at most once
  Answers,      \* observations clients send
  VersionOf,    \* VersionOf[a]: the model version an observation names
  Artifacts,    \* ids of artifacts; one that nobody remembers may be drawn again
  MaxArtifacts, \* artifacts one task may have
  NoRow,        \* no such row, no such request yet
  Over,         \* the handler of a request has failed or stopped
  MaxCount,     \* bound: executions of one attempt
  MaxFaults     \* bound: transactions the database loses

PersistenceFailed == "observation_persistence_failed"

ASSUME CompletionCodesAssumption == PersistenceFailed \in FailureCodes
ASSUME VersionsAssumption == DOMAIN VersionOf = Answers
ASSUME CompletionBoundsAssumption ==
  MaxArtifacts \in Nat /\ MaxCount \in Nat /\ MaxFaults \in Nat

VARIABLES
  artifact, \* artifact[i]: the evidence_artifacts row with this id
  attempt,  \* attempt[t]: the task's observation_attempts row
  run,      \* run[t]: the prompt_runs row of the attempt
  req,      \* req[q]: where the handler of a request is, and what it knows
  sweep,    \* the artifacts the maintenance job has selected
  faults    \* transactions lost so far

webVars == <<artifact, attempt, run, req, sweep, faults>>

completionVars == <<vars, webVars>>

ArtifactRow ==
  [task : Tasks, by : Clients, generation : Nat, status : {"staged", "attached"}]

\* count stands for startedAt: no two executions start at the same instant.
AttemptRow ==
  [status : {"running", "succeeded", "failed"}, answer : Answers, count : Nat]

RunRow == [answer : Answers, evidence : SUBSET Artifacts]

Steps ==
  {"heartbeat", "list", "claim", "take", "persist", "recover", "report",
   "finish", "ok"}

\* What a handler still uses.  open: the task had not succeeded when it was read;
\* seen: the execution of the attempt it has met, or begun itself.
Handler ==
  [step : Steps, task : Tasks, client : Clients, generation : Nat,
   answer : Answers \cup {NoRow}, evidence : SUBSET Artifacts, open : BOOLEAN,
   seen : [status : {"running", "failed"}, count : Nat] \cup {NoRow}]

\* What stands for no row is none.
ASSUME NoRowAssumption ==
  /\ NoRow \notin ArtifactRow \cup AttemptRow \cup RunRow \cup Handler
  /\ Over \notin Handler /\ Over # NoRow

CompletionTypeOK ==
  /\ artifact \in [Artifacts -> ArtifactRow \cup {NoRow}]
  /\ attempt \in [Tasks -> AttemptRow \cup {NoRow}]
  /\ run \in [Tasks -> RunRow \cup {NoRow}]
  /\ req \in [Requests -> Handler \cup {NoRow, Over}]
  /\ sweep \subseteq Artifacts
  /\ faults \in 0..MaxFaults

CompletionInit ==
  /\ Init
  /\ artifact = [i \in Artifacts |-> NoRow]
  /\ attempt = [t \in Tasks |-> NoRow]
  /\ run = [t \in Tasks |-> NoRow]
  /\ req = [q \in Requests |-> NoRow]
  /\ sweep = {}
  /\ faults = 0

-----------------------------------------------------------------------------
(* Evidence *)

\* assertActiveDeliveryClaim: besides the lease it looks at batch and window.
ActiveClaim(t, c, g) == ActiveLease(t, c, g) /\ InProgress /\ InWindow

ArtifactsOf(t) == {i \in Artifacts : artifact[i] # NoRow /\ artifact[i].task = t}

\* The artifacts uploaded under one claim of a task.
ClaimArtifacts(t, c, g) ==
  {i \in ArtifactsOf(t) : artifact[i].by = c /\ artifact[i].generation = g}

Staged(S) == {i \in S : artifact[i] # NoRow /\ artifact[i].status = "staged"}

Without(S) == [i \in Artifacts |-> IF i \in S THEN NoRow ELSE artifact[i]]

Active(q) == req[q] \notin {NoRow, Over}

Remembered ==
  sweep \cup UNION {req[q].evidence : q \in {p \in Requests : Active(p)}}

\* The holder of a claim uploads evidence; what earlier claims of the task left
\* staged goes first.  A full task rolls that back as well.
StageEvidence(t, c, g) ==
  LET old == {i \in Staged(ArtifactsOf(t)) : artifact[i].generation # g}
  IN  /\ ActiveClaim(t, c, g)
      /\ Cardinality(ArtifactsOf(t) \ old) < MaxArtifacts
      /\ \E i \in Artifacts \ Remembered :
           /\ artifact[i] = NoRow
           /\ artifact' = [Without(old) EXCEPT
                ![i] = [task |-> t, by |-> c, generation |-> g, status |-> "staged"]]
      /\ UNCHANGED <<vars, attempt, run, req, sweep, faults>>

\* Only the portal deletes an upload of its own claim.
DeleteEvidence(u, i) ==
  /\ artifact[i] # NoRow
  /\ artifact[i].by = u
  /\ artifact[i].status = "staged"
  /\ ActiveClaim(artifact[i].task, u, artifact[i].generation)
  /\ artifact' = Without({i})
  /\ UNCHANGED <<vars, attempt, run, req, sweep, faults>>

\* Mutant: whatever is old and staged is a leftover.
StagedRow(row) == row.status = "staged"

\* May the maintenance job take the artifact for a leftover?
InactiveClaim(row) ==
  \/ task[row.task].status # "claimed"
  \/ task[row.task].generation # row.generation
  \/ task[row.task].lease <= now

\* The job selects staged leftovers that are old enough.
SelectStale ==
  /\ sweep = {}
  /\ \E S \in SUBSET {i \in Staged(Artifacts) : InactiveClaim(artifact[i])} :
       S # {} /\ sweep' = S
  /\ UNCHANGED <<vars, artifact, attempt, run, req, faults>>

\* It deletes those that are still staged and does not look at the claims again.
DeleteStale ==
  /\ sweep # {}
  /\ artifact' = Without(Staged(sweep))
  /\ sweep' = {}
  /\ UNCHANGED <<vars, attempt, run, req, faults>>

-----------------------------------------------------------------------------
(* The handler of a completion *)

At(q, step) == Active(q) /\ req[q].step = step

Goto(q, step) == req' = [req EXCEPT ![q].step = step]

\* From here on the handler is only about the answer, or about the failure.
End(q, step) ==
  req' = [req EXCEPT ![q].step = step, ![q].evidence = {}, ![q].open = TRUE,
                     ![q].answer = IF step \in {"finish", "ok"} THEN @ ELSE NoRow,
                     ![q].seen = IF step = "recover" THEN @ ELSE NoRow]

\* The answer is an error: nobody waits for the handler any more.
Fails(q) == req' = [req EXCEPT ![q] = Over]

GotoOr(q, step, cond) == IF cond THEN Goto(q, step) ELSE Fails(q)

\* The request of a task's holder is read.  A device's retry of what has succeeded
\* is answered without comparing the observations; one that finds no intent, no
\* confirmation or another session goes on to renew the lease and then fails: that
\* is a heartbeat.
ReceiveFromRunner(q, t, r) ==
  \E s \in Sessions, a \in Answers,
     S \in SUBSET ClaimArtifacts(t, r, task[t].generation) :
    /\ req[q] = NoRow
    /\ task[t].claimedBy = r
    /\ \/ task[t].status = "succeeded"
       \/ /\ task[t].status = "claimed"
          /\ task[t].intent /\ task[t].confirmed /\ task[t].session = s
    /\ req' = [req EXCEPT ![q] =
         [step |-> IF task[t].status = "succeeded" THEN "ok" ELSE "heartbeat",
          task |-> t, client |-> r, generation |-> task[t].generation,
          answer |-> a, open |-> TRUE, seen |-> NoRow,
          evidence |-> IF task[t].status = "succeeded" THEN {} ELSE S]]
    /\ UNCHANGED <<vars, artifact, attempt, run, sweep, faults>>

ReceiveFromPortal(q, t, u) ==
  \E a \in Answers, S \in SUBSET ClaimArtifacts(t, u, task[t].generation) :
    /\ req[q] = NoRow
    /\ S # {}
    /\ task[t].claimedBy = u
    /\ PortalMutationAllowed(task[t])
    /\ task[t].status \in {"claimed", "succeeded"}
    /\ req' = [req EXCEPT ![q] =
         [step |-> IF task[t].status = "succeeded" THEN "claim" ELSE "heartbeat",
          task |-> t, client |-> u, generation |-> task[t].generation,
          answer |-> a, evidence |-> S, open |-> task[t].status = "claimed",
          seen |-> NoRow]]
    /\ UNCHANGED <<vars, artifact, attempt, run, sweep, faults>>

\* A device's handler relies on the submission it has read before.
RenewLease(q) ==
  LET h == req[q]
  IN  /\ At(q, "heartbeat")
      /\ \/ /\ Heartbeat(h.task, h.client, h.generation)
            /\ Goto(q, IF h.client \in Runners THEN "list" ELSE "claim")
         \/ /\ ~(ActiveLease(h.task, h.client, h.generation) /\ now < WindowEnd)
            /\ Fails(q)
            /\ UNCHANGED vars
      /\ UNCHANGED <<artifact, attempt, run, sweep, faults>>

\* A device names artifacts of its claim, staged or not.
ListEvidence(q) ==
  LET h == req[q]
  IN  /\ At(q, "list")
      /\ GotoOr(q, "claim",
           /\ ActiveClaim(h.task, h.client, h.generation)
           /\ h.evidence \subseteq ClaimArtifacts(h.task, h.client, h.generation))
      /\ UNCHANGED <<vars, artifact, attempt, run, sweep, faults>>

\* Mutant: the fingerprint is not compared.
ConflictsByIdentity(t, a, live) == VersionOf[attempt[t].answer] # VersionOf[a]

\* What the identity and the fingerprint of an attempt say of an observation.
Conflicts(t, a, live) ==
  \/ VersionOf[attempt[t].answer] # VersionOf[a]
  \/ attempt[t].answer # a /\ (attempt[t].status = "succeeded" \/ live)

\* Mutant: the state the claim answers with is stored as the attempt's status.
ExecutionState(a, n) == [status |-> "execute", answer |-> a, count |-> n]

Execution(a, n) == [status |-> "running", answer |-> a, count |-> n]

Execute(q, row) ==
  /\ attempt' = [attempt EXCEPT ![req[q].task] = row]
  /\ req' = [req EXCEPT ![q].step = "persist", ![q].open = TRUE,
                        ![q].seen = [status |-> "running", count |-> row.count]]

\* claimImportedObservationAttempt: the attempt is inserted, or read.  A running
\* execution is live for 14 minutes, which the clock of the model does not count:
\* it may be found live or abandoned at any time.
ClaimAttempt(q) ==
  LET h == req[q]
      t == h.task
  IN  /\ At(q, "claim")
      /\ \/ /\ attempt[t] = NoRow
            /\ Execute(q, Execution(h.answer, 1))
         \/ /\ attempt[t] # NoRow
            /\ \E live \in {FALSE, attempt[t].status = "running"} :
                 IF Conflicts(t, h.answer, live) \/ live THEN Fails(q)
                 ELSE IF attempt[t].status = "succeeded"
                 THEN End(q, IF h.open THEN "finish" ELSE "ok")
                 ELSE req' = [req EXCEPT
                        ![q].step = "take",
                        ![q].seen = [status |-> attempt[t].status,
                                     count |-> attempt[t].count]]
            /\ UNCHANGED attempt
      /\ UNCHANGED <<vars, artifact, run, sweep, faults>>

\* A failed or abandoned attempt is executed again, unless it has changed.
TakeAttempt(q) ==
  LET t == req[q].task
  IN  /\ At(q, "take")
      /\ IF /\ attempt[t].status = req[q].seen.status
            /\ attempt[t].count = req[q].seen.count
         THEN /\ attempt[t].count < MaxCount
              /\ Execute(q, Execution(req[q].answer, attempt[t].count + 1))
         ELSE Fails(q) /\ UNCHANGED attempt
      /\ UNCHANGED <<vars, artifact, run, sweep, faults>>

OwnExecution(q) ==
  LET t == req[q].task
  IN  attempt[t].status = "running" /\ attempt[t].count = req[q].seen.count

\* Mutant: owning the attempt is enough to store the observation.
StorableByAttempt(q) ==
  /\ OwnExecution(q)
  /\ req[q].evidence \subseteq Staged(Artifacts)

\* What the storing transaction insists on.
Storable(q) ==
  LET h == req[q]
  IN  /\ OwnExecution(q)
      /\ ActiveLease(h.task, h.client, h.generation)
      /\ h.evidence # {} =>
           /\ ActiveClaim(h.task, h.client, h.generation)
           /\ h.evidence \subseteq
                Staged(ClaimArtifacts(h.task, h.client, h.generation))

\* The attempt succeeds, the evidence is attached, the run is stored and the
\* task completed, all in one transaction, which does not look at the intent or
\* the confirmation again.
Store(q) ==
  LET h == req[q]
      t == h.task
  IN  /\ attempt' = [attempt EXCEPT ![t].status = "succeeded"]
      /\ artifact' = [i \in Artifacts |->
           IF i \in h.evidence THEN [artifact[i] EXCEPT !.status = "attached"]
           ELSE artifact[i]]
      /\ run' = [run EXCEPT ![t] = [answer |-> h.answer, evidence |-> h.evidence]]
      /\ UpdateAndSettle("complete", t, Succeeded(task[t]))
      /\ refused' = "none"

\* The database may lose the transaction, or only its confirmation.
Persist(q) ==
  /\ At(q, "persist")
  /\ \/ /\ Storable(q)
        /\ Store(q)
        /\ End(q, "ok")
        /\ UNCHANGED faults
     \/ /\ faults < MaxFaults
        /\ Storable(q)
        /\ Store(q)
        /\ End(q, "recover")
        /\ faults' = faults + 1
     \/ /\ ~Storable(q) \/ faults < MaxFaults
        /\ faults' = IF Storable(q) THEN faults + 1 ELSE faults
        /\ End(q, "recover")
        /\ UNCHANGED <<vars, artifact, attempt, run>>
  /\ UNCHANGED sweep

\* Mutant: the failure is recorded whoever executes the attempt.
MarkAnyFailed(q) ==
  /\ At(q, "recover")
  /\ attempt' = [attempt EXCEPT ![req[q].task].status = "failed"]
  /\ End(q, "report")
  /\ UNCHANGED <<vars, artifact, run, sweep, faults>>

\* markObservationFailed.
MarkFailed(q) ==
  /\ At(q, "recover")
  /\ attempt' = IF OwnExecution(q)
                THEN [attempt EXCEPT ![req[q].task].status = "failed"]
                ELSE attempt
  /\ End(q, "report")
  /\ UNCHANGED <<vars, artifact, run, sweep, faults>>

\* A device's task is parked, a portal user's is given back, if the claim allows.
ReportFailure(q) ==
  LET h == req[q]
      GivesUp ==
        \/ /\ h.client \in Runners
           /\ RecordFailure(h.task, h.client, h.generation, "post_submit",
                            PersistenceFailed)
        \/ /\ h.client \in Users
           /\ Release(h.task, h.client, h.generation)
      Holds ==
        \/ h.client \in Runners /\ ActiveRunnerLease(h.task, h.client, h.generation)
        \/ /\ h.client \in Users
           /\ ActiveLease(h.task, h.client, h.generation)
           /\ PortalMutationAllowed(task[h.task])
  IN  /\ At(q, "report")
      /\ GivesUp \/ (~Holds /\ UNCHANGED vars)
      /\ Fails(q)
      /\ UNCHANGED <<artifact, attempt, run, sweep, faults>>

\* The attempt had succeeded though the task had not when it was read:
\* completeDeliveryTaskSuccess.
Finish(q) ==
  LET h == req[q]
  IN  /\ At(q, "finish")
      /\ IF ActiveLease(h.task, h.client, h.generation)
         THEN /\ UpdateAndSettle("complete", h.task, Succeeded(task[h.task]))
              /\ End(q, "ok")
         ELSE Fails(q) /\ UNCHANGED vars
      /\ UNCHANGED <<artifact, attempt, run, sweep, faults>>

\* The server stops.
Crash(q) ==
  /\ Active(q)
  /\ req[q].step # "ok"
  /\ Fails(q)
  /\ UNCHANGED <<vars, artifact, attempt, run, sweep, faults>>

-----------------------------------------------------------------------------

HandlerStep(q) ==
  \/ \E t \in Tasks : \/ \E r \in Runners : ReceiveFromRunner(q, t, r)
                      \/ \E u \in Users : ReceiveFromPortal(q, t, u)
  \/ RenewLease(q) \/ ListEvidence(q)
  \/ ClaimAttempt(q) \/ TakeAttempt(q)
  \/ Persist(q) \/ MarkFailed(q) \/ ReportFailure(q)
  \/ Finish(q) \/ Crash(q)

EvidenceStep ==
  \/ \E t \in Tasks, c \in Clients : StageEvidence(t, c, task[t].generation)
  \/ \E u \in Users, i \in Artifacts : DeleteEvidence(u, i)
  \/ SelectStale
  \/ DeleteStale

\* Every transaction of DeliveryRunner that stores no observation.
OtherStep ==
  /\ Next
  /\ \A t \in Tasks : task'[t].observed = task[t].observed
  /\ UNCHANGED webVars

CompletionNext == (\E q \in Requests : HandlerStep(q)) \/ EvidenceStep \/ OtherStep

CompletionSpec == CompletionInit /\ [][CompletionNext]_completionVars

-----------------------------------------------------------------------------

\* The chain of transactions, with all it remembers of rows that have changed
\* since, completes a task as DeliveryRunner's one transaction does: under a live
\* lease, and confirmed by its device or never submitted, though the storing
\* transaction looks at neither the intent nor the confirmation.
CompletesUnderItsClaim ==
  [][\A t \in Tasks :
       task'[t].status = "succeeded" /\ task[t].status # "succeeded" =>
         \E c \in Clients : Complete(t, c, task[t].generation)]_vars

\* A task has succeeded exactly when its attempt has, with one stored run, and
\* the artifacts attached are those the run names, all of the claim that
\* completed the task; a failed or abandoned completion leaves none attached.
RunHasItsEvidence ==
  \A t \in Tasks :
    /\ run[t] # NoRow <=> task[t].status = "succeeded"
    /\ run[t] # NoRow <=> attempt[t] # NoRow /\ attempt[t].status = "succeeded"
    /\ run[t] # NoRow => attempt[t].answer = run[t].answer
    /\ ArtifactsOf(t) \ Staged(ArtifactsOf(t)) =
         IF run[t] = NoRow THEN {}
         ELSE run[t].evidence \cap
                ClaimArtifacts(t, task[t].claimedBy, task[t].generation)

\* A client that is told its observation was accepted finds it stored: its own
\* observation, or for a device the one it had completed the task with before.
AcceptedIsStored ==
  \A q \in Requests : At(q, "ok") =>
    LET h == req[q]
    IN  /\ run[h.task] # NoRow
        /\ \/ run[h.task].answer = h.answer
           \/ h.client \in Runners /\ task[h.task].claimedBy = h.client

\* While a claim is alive its evidence stays, whatever the maintenance job had
\* selected and whoever uploads: only its holder may delete it.
LiveEvidenceStays ==
  [][\A i \in Artifacts :
       /\ artifact[i] # NoRow
       /\ ActiveLease(artifact[i].task, artifact[i].by, artifact[i].generation)
       /\ artifact'[i] = NoRow
       => artifact[i].by \in Users /\ DeleteEvidence(artifact[i].by, i)
    ]_completionVars
=============================================================================
