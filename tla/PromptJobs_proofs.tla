-------------------------- MODULE PromptJobs_proofs --------------------------
(***************************************************************************)
(* Proofs about PromptJobs, for any samples, retry limit and number of     *)
(* faults.                                                                 *)
(*                                                                         *)
(* The inductive invariant says what an execution knows of an attempt it   *)
(* has read and not yet taken: the attempt has not succeeded, and if it    *)
(* was running its lease stays over for as long as status and claimant are *)
(* those that were read.  The last part needs that no execution claims a   *)
(* sample twice, and this needs that no execution is started twice.        *)
(***************************************************************************)
EXTENDS PromptJobs, TLAPS

\* The execution has not claimed the sample.
NotYet(e, s) ==
  /\ exec[e] \in {"off", "begin", "running"}
  /\ iter[e][s].step \in {"claim", "read", "take"}

ClaimedOnce(e, s) ==
  NotYet(e, s) =>
    /\ att[s].by # e
    /\ \A f \in Executions : iter[f][s].step = "take" => iter[f][s].seen.by # e

SeenConsistent(e, s) ==
  iter[e][s].step = "take" =>
    /\ iter[e][s].seen.status # "succeeded"
    /\ iter[e][s].seen.status = "running" /\ Unchanged(att[s], iter[e][s].seen)
         => att[s].lapsed

AnswerOf(e, s) ==
  /\ iter[e][s].step \in {"run", "persist"} /\ att[s].by = e =>
       att[s].status = "running"
  /\ iter[e][s].step = "ok" => s \in saved

\* An execution that has not been started is off.
NotStarted(e) ==
  \/ e > job.retries + 1
  \/ e = job.retries + 1 /\ job.state \in {"created", "retry"}

ExecConsistent(e) ==
  /\ NotStarted(e) => exec[e] = "off"
  /\ exec[e] = "plan" /\ prompt = "active" => saved # {}

IInv ==
  /\ PromptTypeOK
  /\ RunMatchesAttempt
  /\ \A e \in Executions, s \in Samples :
       ClaimedOnce(e, s) /\ SeenConsistent(e, s) /\ AnswerOf(e, s)
  /\ \A e \in Executions : ExecConsistent(e)
  /\ CompletedJobHasRun

-----------------------------------------------------------------------------
(* Iterations *)

\* What every step of an iteration does: it changes itself, and the attempt of
\* its sample - which it claims, or ends if it is its own.
Advances(e, s) ==
  /\ exec[e] = "running"
  /\ UNCHANGED jobVars
  /\ Fault \/ NoFault
  /\ iter' \in [Executions -> [Samples -> Iteration]]
  /\ \A f \in Executions, t \in Samples :
       f # e \/ t # s => iter'[f][t] = iter[f][t]
  /\ att' \in [Samples -> Attempt]
  /\ \A t \in Samples \ {s} : att'[t] = att[t]
  /\ saved' \in {saved, saved \cup {s}}
  /\ s \in saved' <=> att'[s].status = "succeeded"
  /\ AnswerOf(e, s)' /\ SeenConsistent(e, s)'
  /\ NotYet(e, s)' => NotYet(e, s)
  /\ iter'[e][s].step = "take" => iter'[e][s].seen.by = att[s].by
  /\ \/ /\ NotYet(e, s) /\ ~NotYet(e, s)'
        /\ att'[s].by = e
     \/ /\ att'[s].by = att[s].by
        /\ att'[s].status # att[s].status => att[s].by = e
        /\ att'[s].status = "running" =>
             att[s].status = "running" /\ (att[s].lapsed => att'[s].lapsed)

LEMMA AdvanceKeeps ==
  ASSUME IInv, NEW e \in Executions, NEW s \in Samples, Advances(e, s)
  PROVE  IInv'
<1>1. /\ UNCHANGED <<prompt, job, exec, next, maint>>
      /\ saved \subseteq saved'
  BY DEF Advances, jobVars
<1>2. PromptTypeOK'
  BY <1>1, PromptConstants DEF IInv, PromptTypeOK, Advances, Fault, NoFault
<1>3. RunMatchesAttempt'
  BY DEF IInv, RunMatchesAttempt, Advances
<1>4. ASSUME NEW f \in Executions, NEW t \in Samples
      PROVE  ClaimedOnce(f, t)'
  <2>1. ClaimedOnce(f, t) /\ ClaimedOnce(f, s)
    BY DEF IInv
  <2>2. CASE t # s
    BY <1>1, <2>1, <2>2 DEF ClaimedOnce, NotYet, Advances
  <2>3. CASE t = s
    <3>1. NotYet(f, s)' => NotYet(f, s)
      BY <1>1 DEF NotYet, Advances
    <3>2. NotYet(f, s)' => att'[s].by # f
      BY <2>1, <3>1 DEF ClaimedOnce, Advances
    <3> QED
      BY <2>1, <2>3, <3>1, <3>2 DEF ClaimedOnce, Advances
  <2> QED
    BY <2>2, <2>3
<1>5. ASSUME NEW f \in Executions, NEW t \in Samples
      PROVE  SeenConsistent(f, t)'
  <2>1. CASE f = e /\ t = s
    BY <2>1 DEF Advances
  <2>2. CASE f # e \/ t # s
    <3>1. iter'[f][t] = iter[f][t] /\ SeenConsistent(f, t)
      BY <2>2 DEF IInv, Advances
    <3>2. CASE t # s
      BY <3>1, <3>2 DEF SeenConsistent, Advances, Unchanged
    <3>3. CASE t = s /\ NotYet(e, s) /\ att'[s].by = e
      BY <3>1, <3>3 DEF IInv, ClaimedOnce, SeenConsistent, Unchanged
    <3>4. CASE /\ t = s /\ att'[s].by = att[s].by
               /\ att'[s].status = "running" =>
                    att[s].status = "running" /\ (att[s].lapsed => att'[s].lapsed)
      BY <3>1, <3>4 DEF SeenConsistent, Unchanged
    <3> QED
      BY <3>2, <3>3, <3>4 DEF Advances
  <2> QED
    BY <2>1, <2>2
<1>6. ASSUME NEW f \in Executions, NEW t \in Samples
      PROVE  AnswerOf(f, t)'
  <2>1. CASE f = e /\ t = s
    BY <2>1 DEF Advances
  <2>2. CASE f # e \/ t # s
    <3>1. iter'[f][t] = iter[f][t] /\ AnswerOf(f, t)
      BY <2>2 DEF IInv, Advances
    <3> QED
      BY <1>1, <2>2, <3>1 DEF AnswerOf, Advances
  <2> QED
    BY <2>1, <2>2
<1>7. /\ \A f \in Executions : ExecConsistent(f)'
      /\ CompletedJobHasRun'
  BY <1>1 DEF IInv, ExecConsistent, NotStarted, CompletedJobHasRun
<1> QED
  BY <1>2, <1>3, <1>4, <1>5, <1>6, <1>7 DEF IInv

\* The frame of an iteration that goes on as i.
LEMMA IterationFrame ==
  ASSUME PromptTypeOK, NEW e \in Executions, NEW s \in Samples, NEW i \in Iteration,
         iter' = [iter EXCEPT ![e][s] = i]
  PROVE  /\ iter' \in [Executions -> [Samples -> Iteration]]
         /\ iter'[e][s] = i
         /\ \A f \in Executions, t \in Samples :
              f # e \/ t # s => iter'[f][t] = iter[f][t]
<1>1. iter \in [Executions -> [Samples -> Iteration]]
  BY DEF PromptTypeOK
<1> QED
  BY <1>1

\* The same for a step that keeps what was read.
LEMMA GoesTo ==
  ASSUME PromptTypeOK, NEW e \in Executions, NEW s \in Samples,
         NEW step \in IterSteps, Goto(e, s, step)
  PROVE  /\ iter' \in [Executions -> [Samples -> Iteration]]
         /\ iter'[e][s].step = step
         /\ \A f \in Executions, t \in Samples :
              f # e \/ t # s => iter'[f][t] = iter[f][t]
<1> DEFINE i == [iter[e][s] EXCEPT !.step = step]
<1>1. iter[e][s] \in Iteration
  BY DEF PromptTypeOK
<1>2. i \in Iteration /\ i.step = step
  BY <1>1 DEF Iteration
<1>3. iter' = [iter EXCEPT ![e][s] = i]
  BY DEF Goto
<1> HIDE DEF i
<1>4. /\ iter' \in [Executions -> [Samples -> Iteration]]
      /\ iter'[e][s] = i
      /\ \A f \in Executions, t \in Samples :
           f # e \/ t # s => iter'[f][t] = iter[f][t]
  BY <1>2, <1>3, IterationFrame
<1> QED
  BY <1>2, <1>4

\* The frame of an attempt that becomes a.
LEMMA AttemptFrame ==
  ASSUME PromptTypeOK, NEW s \in Samples, NEW a \in Attempt,
         att' = [att EXCEPT ![s] = a]
  PROVE  /\ att' \in [Samples -> Attempt]
         /\ att'[s] = a
         /\ \A t \in Samples \ {s} : att'[t] = att[t]
BY DEF PromptTypeOK

LEMMA AttemptKept ==
  ASSUME IInv, NEW s \in Samples, UNCHANGED <<att, saved>>
  PROVE  /\ att' \in [Samples -> Attempt]
         /\ att'[s] = att[s]
         /\ \A t \in Samples \ {s} : att'[t] = att[t]
         /\ s \in saved' <=> att'[s].status = "succeeded"
BY DEF IInv, PromptTypeOK, RunMatchesAttempt

LEMMA ClaimTyped ==
  ASSUME NEW e \in Executions
  PROVE  /\ ClaimedBy(e) \in Attempt
         /\ ClaimedBy(e).status = "running" /\ ClaimedBy(e).by = e
BY DEF ClaimedBy, Attempt

LEMMA InsertKeeps ==
  ASSUME IInv, NEW e \in Executions, NEW s \in Samples, Insert(e, s)
  PROVE  IInv'
<1>1. PromptTypeOK /\ NotYet(e, s) /\ exec[e] = "running"
  BY DEF IInv, Insert, At, Doing, NotYet
<1>2. UNCHANGED jobVars /\ UNCHANGED saved /\ (Fault \/ NoFault)
  BY DEF Insert, NoFault
<1>3. CASE /\ att[s].status = "none"
           /\ att' = [att EXCEPT ![s] = ClaimedBy(e)]
           /\ Goto(e, s, "run")
  <2>1. /\ iter' \in [Executions -> [Samples -> Iteration]]
        /\ iter'[e][s].step = "run"
        /\ \A f \in Executions, t \in Samples :
             f # e \/ t # s => iter'[f][t] = iter[f][t]
    BY <1>1, <1>3, GoesTo DEF IterSteps
  <2>2. /\ att' \in [Samples -> Attempt]
        /\ att'[s] = ClaimedBy(e)
        /\ \A t \in Samples \ {s} : att'[t] = att[t]
    BY <1>1, <1>3, ClaimTyped, AttemptFrame
  <2>3. s \notin saved
    BY <1>3 DEF IInv, RunMatchesAttempt
  <2>4. Advances(e, s)
    BY <1>1, <1>2, <2>1, <2>2, <2>3, ClaimTyped
       DEF Advances, AnswerOf, SeenConsistent, NotYet
  <2> QED
    BY <2>4, AdvanceKeeps
<1>4. ASSUME NEW step \in {"read", "failed"}, Goto(e, s, step), UNCHANGED att
      PROVE  IInv'
  <2>1. /\ iter' \in [Executions -> [Samples -> Iteration]]
        /\ iter'[e][s].step = step
        /\ \A f \in Executions, t \in Samples :
             f # e \/ t # s => iter'[f][t] = iter[f][t]
    BY <1>1, <1>4, GoesTo DEF IterSteps
  <2>2. Advances(e, s)
    BY <1>1, <1>2, <1>4, <2>1, AttemptKept
       DEF Advances, AnswerOf, SeenConsistent, NotYet
  <2> QED
    BY <2>2, AdvanceKeeps
<1> QED
  BY <1>3, <1>4 DEF Insert

LEMMA ReadKeeps ==
  ASSUME IInv, NEW e \in Executions, NEW s \in Samples, Read(e, s)
  PROVE  IInv'
<1> DEFINE i == IF att[s].status = "succeeded" THEN [iter[e][s] EXCEPT !.step = "ok"]
                ELSE IF Leased(att[s]) THEN [iter[e][s] EXCEPT !.step = "failed"]
                ELSE [step |-> "take", seen |-> att[s]]
<1>1. PromptTypeOK /\ NotYet(e, s) /\ exec[e] = "running"
  BY DEF IInv, Read, At, Doing, NotYet
<1>2. iter[e][s] \in Iteration /\ att[s] \in Attempt
  BY <1>1 DEF PromptTypeOK
<1>3. /\ i \in Iteration
      /\ \/ i.step = "ok" /\ att[s].status = "succeeded"
         \/ i.step = "failed"
         \/ /\ i.step = "take" /\ i.seen = att[s]
            /\ att[s].status # "succeeded" /\ ~Leased(att[s])
  BY <1>2 DEF Iteration, IterSteps
<1>4. iter' = [iter EXCEPT ![e][s] = i]
  BY DEF Read
<1> HIDE DEF i
<1>5. /\ iter' \in [Executions -> [Samples -> Iteration]]
      /\ iter'[e][s] = i
      /\ \A f \in Executions, t \in Samples :
           f # e \/ t # s => iter'[f][t] = iter[f][t]
  BY <1>1, <1>3, <1>4, IterationFrame
<1>6. UNCHANGED jobVars /\ UNCHANGED <<att, saved>> /\ (Fault \/ NoFault)
  BY DEF Read, NoFault
<1>7. AnswerOf(e, s)' /\ SeenConsistent(e, s)'
  BY <1>2, <1>3, <1>5, <1>6, AttemptKept
     DEF AnswerOf, SeenConsistent, Leased, Attempt
<1>8. Advances(e, s)
  BY <1>1, <1>3, <1>5, <1>6, <1>7, AttemptKept DEF Advances
<1> QED
  BY <1>8, AdvanceKeeps

LEMMA TakeOverKeeps ==
  ASSUME IInv, NEW e \in Executions, NEW s \in Samples, TakeOver(e, s)
  PROVE  IInv'
<1>1. /\ PromptTypeOK /\ NotYet(e, s) /\ exec[e] = "running"
      /\ iter[e][s].step = "take" /\ SeenConsistent(e, s)
  BY DEF IInv, TakeOver, At, Doing, NotYet
<1>2. UNCHANGED jobVars /\ UNCHANGED saved /\ (Fault \/ NoFault)
  BY DEF TakeOver, NoFault
<1>3. ASSUME NEW step \in {"run", "failed"},
             iter' = [iter EXCEPT ![e][s] = [step |-> step, seen |-> NoAttempt]]
      PROVE  /\ iter' \in [Executions -> [Samples -> Iteration]]
             /\ iter'[e][s].step = step
             /\ \A f \in Executions, t \in Samples :
                  f # e \/ t # s => iter'[f][t] = iter[f][t]
  <2> DEFINE i == [step |-> step, seen |-> NoAttempt]
  <2>1. i \in Iteration /\ i.step = step /\ iter' = [iter EXCEPT ![e][s] = i]
    BY <1>3 DEF Iteration, IterSteps, NoAttempt, Attempt
  <2> HIDE DEF i
  <2> QED
    BY <1>1, <2>1, IterationFrame
<1>4. CASE /\ Unchanged(att[s], iter[e][s].seen)
           /\ att' = [att EXCEPT ![s] = ClaimedBy(e)]
           /\ iter' = [iter EXCEPT ![e][s] = [step |-> "run", seen |-> NoAttempt]]
  <2>1. /\ att' \in [Samples -> Attempt]
        /\ att'[s] = ClaimedBy(e)
        /\ \A t \in Samples \ {s} : att'[t] = att[t]
    BY <1>1, <1>4, ClaimTyped, AttemptFrame
  <2>2. s \notin saved
    BY <1>1, <1>4 DEF IInv, RunMatchesAttempt, SeenConsistent, Unchanged
  <2>3. Advances(e, s)
    BY <1>1, <1>2, <1>3, <1>4, <2>1, <2>2, ClaimTyped
       DEF Advances, AnswerOf, SeenConsistent, NotYet
  <2> QED
    BY <2>3, AdvanceKeeps
<1>5. CASE /\ iter' = [iter EXCEPT ![e][s] = [step |-> "failed", seen |-> NoAttempt]]
           /\ UNCHANGED att
  <2>1. Advances(e, s)
    BY <1>1, <1>2, <1>3, <1>5, AttemptKept
       DEF Advances, AnswerOf, SeenConsistent, NotYet
  <2> QED
    BY <2>1, AdvanceKeeps
<1> QED
  BY <1>4, <1>5 DEF TakeOver

LEMMA RunProviderKeeps ==
  ASSUME IInv, NEW e \in Executions, NEW s \in Samples, RunProvider(e, s)
  PROVE  IInv'
<1>1. /\ PromptTypeOK /\ exec[e] = "running" /\ iter[e][s].step = "run"
      /\ AnswerOf(e, s)
  BY DEF IInv, RunProvider, At, Doing
<1>2. PICK step \in {"persist", "reject"} : Goto(e, s, step)
  BY DEF RunProvider
<1>3. /\ iter' \in [Executions -> [Samples -> Iteration]]
      /\ iter'[e][s].step = step
      /\ \A f \in Executions, t \in Samples :
           f # e \/ t # s => iter'[f][t] = iter[f][t]
  BY <1>1, <1>2, GoesTo DEF IterSteps
<1>4. UNCHANGED jobVars /\ UNCHANGED <<att, saved>> /\ (Fault \/ NoFault)
  BY DEF RunProvider, NoFault
<1>5. Advances(e, s)
  BY <1>1, <1>3, <1>4, AttemptKept DEF Advances, AnswerOf, SeenConsistent, NotYet
<1> QED
  BY <1>5, AdvanceKeeps

LEMMA PersistKeeps ==
  ASSUME IInv, NEW e \in Executions, NEW s \in Samples, Persist(e, s)
  PROVE  IInv'
<1>1. /\ PromptTypeOK /\ exec[e] = "running" /\ iter[e][s].step = "persist"
  BY DEF IInv, Persist, At, Doing
<1>2. UNCHANGED jobVars /\ (Fault \/ NoFault)
  BY DEF Persist, NoFault
<1>3. CASE /\ Mine(e, s)
           /\ att' = [att EXCEPT ![s].status = "succeeded", ![s].lapsed = FALSE]
           /\ saved' = saved \cup {s}
           /\ Goto(e, s, "ok") \/ Goto(e, s, "reject")
  <2> DEFINE a == [att[s] EXCEPT !.status = "succeeded", !.lapsed = FALSE]
  <2>1. a \in Attempt /\ a.status = "succeeded" /\ a.by = e
    BY <1>1, <1>3 DEF PromptTypeOK, Attempt, Mine
  <2>2. att' = [att EXCEPT ![s] = a]
    BY <1>1, <1>3 DEF PromptTypeOK
  <2> HIDE DEF a
  <2>3. /\ att' \in [Samples -> Attempt]
        /\ att'[s] = a
        /\ \A t \in Samples \ {s} : att'[t] = att[t]
    BY <1>1, <2>1, <2>2, AttemptFrame
  <2>4. PICK step \in {"ok", "reject"} : Goto(e, s, step)
    BY <1>3
  <2>5. /\ iter' \in [Executions -> [Samples -> Iteration]]
        /\ iter'[e][s].step = step
        /\ \A f \in Executions, t \in Samples :
             f # e \/ t # s => iter'[f][t] = iter[f][t]
    BY <1>1, <2>4, GoesTo DEF IterSteps
  <2>6. Advances(e, s)
    BY <1>1, <1>2, <1>3, <2>1, <2>3, <2>5
       DEF Advances, AnswerOf, SeenConsistent, NotYet, Mine
  <2> QED
    BY <2>6, AdvanceKeeps
<1>4. CASE Goto(e, s, "reject") /\ UNCHANGED <<att, saved>>
  <2>1. /\ iter' \in [Executions -> [Samples -> Iteration]]
        /\ iter'[e][s].step = "reject"
        /\ \A f \in Executions, t \in Samples :
             f # e \/ t # s => iter'[f][t] = iter[f][t]
    BY <1>1, <1>4, GoesTo DEF IterSteps
  <2>2. Advances(e, s)
    BY <1>1, <1>2, <1>4, <2>1, AttemptKept DEF Advances, AnswerOf, SeenConsistent, NotYet
  <2> QED
    BY <2>2, AdvanceKeeps
<1> QED
  BY <1>3, <1>4 DEF Persist

LEMMA RejectKeeps ==
  ASSUME IInv, NEW e \in Executions, NEW s \in Samples, Reject(e, s)
  PROVE  IInv'
<1>1. /\ PromptTypeOK /\ exec[e] = "running" /\ iter[e][s].step = "reject"
  BY DEF IInv, Reject, At, Doing
<1>2. UNCHANGED jobVars /\ UNCHANGED saved /\ (Fault \/ NoFault)
  BY DEF Reject
<1>3. /\ iter' \in [Executions -> [Samples -> Iteration]]
      /\ iter'[e][s].step = "failed"
      /\ \A f \in Executions, t \in Samples :
           f # e \/ t # s => iter'[f][t] = iter[f][t]
  BY <1>1, GoesTo DEF IterSteps, Reject
<1>4. CASE Mine(e, s) /\ att' = [att EXCEPT ![s].status = "failed", ![s].lapsed = FALSE]
  <2> DEFINE a == [att[s] EXCEPT !.status = "failed", !.lapsed = FALSE]
  <2>1. a \in Attempt /\ a.status = "failed" /\ a.by = e
    BY <1>1, <1>4 DEF PromptTypeOK, Attempt, Mine
  <2>2. att' = [att EXCEPT ![s] = a]
    BY <1>1, <1>4 DEF PromptTypeOK
  <2> HIDE DEF a
  <2>3. /\ att' \in [Samples -> Attempt]
        /\ att'[s] = a
        /\ \A t \in Samples \ {s} : att'[t] = att[t]
    BY <1>1, <2>1, <2>2, AttemptFrame
  <2>4. s \notin saved
    BY <1>4 DEF IInv, RunMatchesAttempt, Mine
  <2>5. Advances(e, s)
    BY <1>1, <1>2, <1>3, <1>4, <2>1, <2>3, <2>4
       DEF Advances, AnswerOf, SeenConsistent, NotYet, Mine
  <2> QED
    BY <2>5, AdvanceKeeps
<1>5. CASE UNCHANGED att
  <2>1. Advances(e, s)
    BY <1>1, <1>2, <1>3, <1>5, AttemptKept DEF Advances, AnswerOf, SeenConsistent, NotYet
  <2> QED
    BY <2>1, AdvanceKeeps
<1> QED
  BY <1>4, <1>5 DEF Reject

-----------------------------------------------------------------------------
(* The job and its executions *)

\* A step of the job: the attempts stay, up to a lapse; an execution starts, or
\* ends and forgets its iterations.
Turns ==
  /\ UNCHANGED <<prompt, saved>>
  /\ \A s \in Samples : /\ att'[s].status = att[s].status
                        /\ att'[s].by = att[s].by
                        /\ att[s].lapsed => att'[s].lapsed
  /\ \A e \in Executions, s \in Samples :
       /\ iter'[e][s] \in {iter[e][s], Unclaimed}
       /\ NotYet(e, s)' => NotYet(e, s)

LEMMA TurnKeeps ==
  ASSUME IInv, Turns, PromptTypeOK', \A e \in Executions : ExecConsistent(e)',
         CompletedJobHasRun'
  PROVE  IInv'
<1>1. RunMatchesAttempt'
  BY DEF IInv, RunMatchesAttempt, Turns
<1>2. ASSUME NEW e \in Executions, NEW s \in Samples
      PROVE  ClaimedOnce(e, s)' /\ SeenConsistent(e, s)' /\ AnswerOf(e, s)'
  <2>1. \A f \in Executions :
          /\ iter'[f][s].step \in {"take", "run", "persist", "ok"} =>
               iter'[f][s] = iter[f][s]
    BY DEF Turns, Unclaimed
  <2>2. ClaimedOnce(e, s) /\ SeenConsistent(e, s) /\ AnswerOf(e, s)
    BY DEF IInv
  <2>3. ClaimedOnce(e, s)'
    BY <2>1, <2>2 DEF ClaimedOnce, Turns
  <2>4. SeenConsistent(e, s)'
    BY <2>1, <2>2 DEF SeenConsistent, Turns, Unchanged
  <2>5. AnswerOf(e, s)'
    BY <2>1, <2>2 DEF AnswerOf, Turns
  <2> QED
    BY <2>3, <2>4, <2>5
<1> QED
  BY <1>1, <1>2 DEF IInv

LEMMA Counted ==
  ASSUME PromptTypeOK, Fault \/ NoFault
  PROVE  faults' \in 0..MaxFaults
BY PromptConstants DEF PromptTypeOK, Fault, NoFault

LEMMA RetriedTyped ==
  ASSUME PromptTypeOK
  PROVE  /\ Retried \in Job
         /\ \/ Retried.state = "failed" /\ Retried.retries = job.retries
            \/ Retried.state = "retry" /\ Retried.retries = job.retries + 1
<1>1. job \in Job /\ RetryLimit \in Nat
  BY PromptConstants DEF PromptTypeOK
<1>2. CASE job.retries < RetryLimit
  BY <1>1, <1>2 DEF Retried, Job, Pending
<1>3. CASE ~(job.retries < RetryLimit)
  <2>1. Retried = [job EXCEPT !.state = "failed"]
    BY <1>3 DEF Retried
  <2> QED
    BY <1>1, <2>1 DEF Job, JobOver
<1> QED
  BY <1>2, <1>3

LEMMA LeaseLapsesKeeps ==
  ASSUME IInv, NEW s \in Samples, LeaseLapses(s)
  PROVE  IInv'
<1> DEFINE a == [att[s] EXCEPT !.lapsed = TRUE]
<1>1. PromptTypeOK
  BY DEF IInv
<1>2. /\ a \in Attempt /\ a.status = att[s].status /\ a.by = att[s].by /\ a.lapsed
      /\ att' = [att EXCEPT ![s] = a]
  BY <1>1 DEF LeaseLapses, PromptTypeOK, Attempt
<1> HIDE DEF a
<1>3. /\ att' \in [Samples -> Attempt]
      /\ att'[s] = a
      /\ \A t \in Samples \ {s} : att'[t] = att[t]
  BY <1>1, <1>2, AttemptFrame
<1>4. UNCHANGED <<prompt, job, exec, next, maint, iter, saved, faults>>
  BY DEF LeaseLapses, jobVars
<1>5. Turns
  BY <1>2, <1>3, <1>4 DEF Turns, NotYet
<1>6. PromptTypeOK'
  BY <1>1, <1>3, <1>4 DEF PromptTypeOK
<1> QED
  BY <1>4, <1>5, <1>6, TurnKeeps
     DEF IInv, ExecConsistent, NotStarted, CompletedJobHasRun

LEMMA MaintenanceKeeps ==
  ASSUME IInv, Maintain \/ MaintenanceFails
  PROVE  IInv'
<1>1. UNCHANGED <<prompt, job, exec, iter, att, saved>>
  BY DEF Maintain, FindOverdue, SendJob, MaintenanceFails
<1>2. Turns
  BY <1>1 DEF Turns, NotYet
<1>3. PromptTypeOK'
  BY <1>1, Counted
     DEF IInv, PromptTypeOK, Maintain, FindOverdue, SendJob, MaintenanceFails
<1> QED
  BY <1>1, <1>2, <1>3, TurnKeeps
     DEF IInv, ExecConsistent, NotStarted, CompletedJobHasRun

LEMMA ExpireKeeps ==
  ASSUME IInv, Expire
  PROVE  IInv'
<1>1. /\ PromptTypeOK /\ job.state = "active" /\ job' = Retried
      /\ UNCHANGED <<prompt, exec, iter, att, saved, next, maint, faults>>
  BY DEF IInv, Expire
<1>2. Turns
  BY <1>1 DEF Turns, NotYet
<1>3. PromptTypeOK'
  BY <1>1, RetriedTyped DEF PromptTypeOK
<1>4. ASSUME NEW e \in Executions PROVE ExecConsistent(e)'
  <2>1. e \in Nat /\ job.retries \in Nat
    BY <1>1, PromptConstants DEF Executions, PromptTypeOK, Job
  <2>2. NotStarted(e)' => NotStarted(e)
    BY <1>1, <2>1, RetriedTyped DEF NotStarted
  <2> QED
    BY <1>1, <2>2 DEF IInv, ExecConsistent
<1>5. CompletedJobHasRun'
  BY <1>1, RetriedTyped DEF CompletedJobHasRun
<1> QED
  BY <1>2, <1>3, <1>4, <1>5, TurnKeeps

LEMMA FetchKeeps ==
  ASSUME IInv, NEW e \in Executions, Fetch(e)
  PROVE  IInv'
<1>1. /\ PromptTypeOK /\ job.state \in {"created", "retry"} /\ e = job.retries + 1
      /\ UNCHANGED <<prompt, iter, att, saved, next, maint, faults>>
  BY DEF IInv, Fetch
<1>2. exec[e] = "off"
  BY <1>1 DEF IInv, ExecConsistent, NotStarted
<1>3. /\ exec' \in [Executions -> ExecSteps]
      /\ exec'[e] = "begin"
      /\ \A f \in Executions \ {e} : exec'[f] = exec[f]
  BY <1>1 DEF Fetch, PromptTypeOK, ExecSteps
<1>4. job' \in Job /\ job'.state = "active" /\ job'.retries = job.retries
  BY <1>1 DEF Fetch, PromptTypeOK, Job, Pending
<1>5. Turns
  BY <1>1, <1>2, <1>3 DEF Turns, NotYet
<1>6. PromptTypeOK'
  BY <1>1, <1>3, <1>4 DEF PromptTypeOK
<1>7. ASSUME NEW f \in Executions PROVE ExecConsistent(f)'
  <2>1. f \in Nat /\ job.retries \in Nat
    BY <1>1, PromptConstants DEF Executions, PromptTypeOK, Job
  <2>2. NotStarted(f)' => NotStarted(f) /\ f # e
    BY <1>1, <1>4, <2>1 DEF NotStarted
  <2> QED
    BY <1>1, <1>3, <2>2 DEF IInv, ExecConsistent
<1>8. CompletedJobHasRun'
  BY <1>4 DEF CompletedJobHasRun
<1> QED
  BY <1>5, <1>6, <1>7, <1>8, TurnKeeps

\* A started execution goes on or ends: the job stays, or this execution has
\* decided over it.
LEMMA ExecutionKeeps ==
  ASSUME IInv, NEW e \in Executions, exec[e] \in {"begin", "running", "plan"},
         NEW step \in {"running", "plan", "done", "dead"},
         exec' = [exec EXCEPT ![e] = step],
         step = "running" => exec[e] = "begin",
         step = "plan" /\ prompt = "active" => saved # {},
         \/ UNCHANGED job
         \/ Current(e) /\ job' = Retried
         \/ Current(e) /\ job' = [job EXCEPT !.state = "completed"],
         job'.state = "completed" /\ prompt = "active" => saved # {},
         UNCHANGED iter \/ (step # "running" /\ Forget(e)),
         Fault \/ NoFault, next' \in BOOLEAN,
         UNCHANGED <<prompt, att, saved, maint>>
  PROVE  IInv'
<1>1. PromptTypeOK
  BY DEF IInv
<1>2. /\ exec' \in [Executions -> ExecSteps]
      /\ exec'[e] = step
      /\ \A f \in Executions \ {e} : exec'[f] = exec[f]
  BY <1>1 DEF PromptTypeOK, ExecSteps
<1>3. /\ iter' \in [Executions -> [Samples -> Iteration]]
      /\ \A f \in Executions, s \in Samples : iter'[f][s] \in {iter[f][s], Unclaimed}
      /\ step = "running" => UNCHANGED iter
      /\ \A f \in Executions \ {e} : iter'[f] = iter[f]
  <2>1. Unclaimed \in Iteration
    BY DEF Unclaimed, Iteration, IterSteps, NoAttempt, Attempt
  <2>2. [s \in Samples |-> Unclaimed] \in [Samples -> Iteration]
    BY <2>1
  <2>3. iter \in [Executions -> [Samples -> Iteration]]
    BY <1>1 DEF PromptTypeOK
  <2>4. CASE UNCHANGED iter
    BY <2>3, <2>4
  <2>5. CASE step # "running" /\ Forget(e)
    <3>1. /\ iter'[e] = [s \in Samples |-> Unclaimed]
          /\ \A f \in Executions \ {e} : iter'[f] = iter[f]
          /\ iter' \in [Executions -> [Samples -> Iteration]]
      BY <2>2, <2>3, <2>5 DEF Forget
    <3>2. ASSUME NEW f \in Executions, NEW s \in Samples
          PROVE  iter'[f][s] \in {iter[f][s], Unclaimed}
      <4>1. CASE f = e
        BY <3>1, <4>1
      <4>2. CASE f # e
        BY <3>1, <4>2
      <4> QED
        BY <4>1, <4>2
    <3> QED
      BY <2>5, <3>1, <3>2
  <2> QED
    BY <2>4, <2>5
<1>4. Turns
  <2>1. ASSUME NEW f \in Executions, NEW s \in Samples, NotYet(f, s)'
        PROVE  NotYet(f, s)
    <3>1. CASE f = e
      BY <1>2, <1>3, <2>1, <3>1 DEF NotYet
    <3>2. CASE f # e
      BY <1>2, <1>3, <2>1, <3>2 DEF NotYet
    <3> QED
      BY <3>1, <3>2
  <2> QED
    BY <1>3, <2>1 DEF Turns
<1>5. /\ job' \in Job
      /\ \/ UNCHANGED job
         \/ job.state = "active" /\ job'.retries = job.retries /\ job'.state \in JobOver
         \/ job.state = "active" /\ job'.retries = job.retries + 1
  <2>1. CASE Current(e) /\ job' = [job EXCEPT !.state = "completed"]
    BY <1>1, <2>1 DEF PromptTypeOK, Job, JobOver, Current
  <2>2. CASE Current(e) /\ job' = Retried
    BY <1>1, <2>2, RetriedTyped DEF Current, JobOver
  <2>3. CASE UNCHANGED job
    BY <1>1, <2>3 DEF PromptTypeOK
  <2> QED
    BY <2>1, <2>2, <2>3
<1>6. PromptTypeOK'
  BY <1>1, <1>2, <1>3, <1>5, Counted DEF PromptTypeOK
<1>7. ASSUME NEW f \in Executions PROVE ExecConsistent(f)'
  <2>1. f \in Nat /\ job.retries \in Nat
    BY <1>1, PromptConstants DEF Executions, PromptTypeOK, Job
  <2>2. NotStarted(f)' => NotStarted(f)
    BY <1>5, <2>1 DEF NotStarted, JobOver
  <2>3. ExecConsistent(f) /\ (NotStarted(f) => f # e)
    BY DEF IInv, ExecConsistent
  <2> QED
    BY <1>2, <2>2, <2>3 DEF ExecConsistent
<1>8. CompletedJobHasRun'
  BY DEF CompletedJobHasRun
<1> QED
  BY <1>4, <1>6, <1>7, <1>8, TurnKeeps

\* What an end means for the job.
LEMMA EndOfExecution ==
  ASSUME IInv, NEW e \in Executions, Throws(e) \/ Returns(e)
  PROVE  /\ exec' = [exec EXCEPT ![e] = "done"]
         /\ \/ UNCHANGED job
            \/ Current(e) /\ job' = Retried
            \/ Current(e) /\ job' = [job EXCEPT !.state = "completed"]
         /\ Throws(e) =>
              (job'.state = "completed" /\ prompt = "active" => saved # {})
<1>1. ~Current(e) => (job.state = "completed" /\ prompt = "active" => saved # {})
  BY DEF IInv, CompletedJobHasRun
<1>2. PromptTypeOK
  BY DEF IInv
<1> QED
  BY <1>1, <1>2, RetriedTyped DEF Throws, Returns

LEMMA BeginKeeps ==
  ASSUME IInv, NEW e \in Executions, Begin(e)
  PROVE  IInv'
<1>1. /\ exec[e] = "begin" /\ (Fault \/ NoFault) /\ next' \in BOOLEAN
      /\ UNCHANGED <<prompt, iter, att, saved, maint>>
      /\ job.state = "completed" /\ prompt = "active" => saved # {}
  BY DEF Begin, Doing, NoFault, IInv, PromptTypeOK, CompletedJobHasRun
<1>2. CASE Throws(e)
  BY <1>1, <1>2, EndOfExecution, ExecutionKeeps
<1>3. CASE prompt = "active" /\ Do(e, "running")
  BY <1>1, <1>3, ExecutionKeeps DEF Do
<1>4. CASE prompt = "disabled" /\ Do(e, "plan")
  BY <1>1, <1>4, ExecutionKeeps DEF Do
<1>5. CASE prompt = "dropped" /\ Returns(e)
  BY <1>1, <1>5, EndOfExecution, ExecutionKeeps
<1> QED
  BY <1>2, <1>3, <1>4, <1>5 DEF Begin

LEMMA GatherKeeps ==
  ASSUME IInv, NEW e \in Executions, Gather(e)
  PROVE  IInv'
<1>1. /\ exec[e] = "running" /\ (Fault \/ NoFault) /\ next' \in BOOLEAN
      /\ UNCHANGED <<prompt, att, saved, maint>> /\ Forget(e)
      /\ job.state = "completed" /\ prompt = "active" => saved # {}
  BY DEF Gather, Doing, NoFault, IInv, PromptTypeOK, CompletedJobHasRun
<1>2. CASE Throws(e)
  BY <1>1, <1>2, EndOfExecution, ExecutionKeeps
<1>3. CASE ~AllFailed(e) /\ Do(e, "plan")
  <2>1. PICK s \in Samples : iter[e][s].step = "ok"
    BY <1>3 DEF Gather, Finished, AllFailed
  <2>2. saved # {}
    BY <2>1 DEF IInv, AnswerOf
  <2> QED
    BY <1>1, <1>3, <2>2, ExecutionKeeps DEF Do
<1> QED
  BY <1>2, <1>3 DEF Gather

LEMMA ScheduleNextRunKeeps ==
  ASSUME IInv, NEW e \in Executions, ScheduleNextRun(e)
  PROVE  IInv'
<1>1. /\ exec[e] = "plan" /\ (Fault \/ NoFault) /\ next' \in BOOLEAN
      /\ UNCHANGED <<prompt, iter, att, saved, maint>>
      /\ prompt = "active" => saved # {}
  BY DEF ScheduleNextRun, Doing, NoFault, IInv, PromptTypeOK, ExecConsistent
<1> QED
  BY <1>1, EndOfExecution, ExecutionKeeps DEF ScheduleNextRun

LEMMA CrashKeeps ==
  ASSUME IInv, NEW e \in Executions, Crash(e)
  PROVE  IInv'
<1>1. /\ exec[e] \in {"begin", "running", "plan"}
      /\ (Fault \/ NoFault) /\ next' \in BOOLEAN
      /\ UNCHANGED <<prompt, att, saved, maint>> /\ Forget(e)
      /\ exec' = [exec EXCEPT ![e] = "dead"] /\ UNCHANGED job
      /\ job.state = "completed" /\ prompt = "active" => saved # {}
  BY DEF Crash, Do, IInv, PromptTypeOK, CompletedJobHasRun
<1> QED
  BY <1>1, ExecutionKeeps

-----------------------------------------------------------------------------
LEMMA InitHolds == PromptInit => IInv
<1> SUFFICES ASSUME PromptInit PROVE IInv
  OBVIOUS
<1>1. NoAttempt \in Attempt /\ NoAttempt.by = 0 /\ NoAttempt.status = "none"
  BY DEF NoAttempt, Attempt
<1>2. Unclaimed \in Iteration /\ Unclaimed.step = "claim"
  BY <1>1 DEF Unclaimed, Iteration, IterSteps
<1>3. /\ iter = [e \in Executions |-> [s \in Samples |-> Unclaimed]]
      /\ att = [s \in Samples |-> NoAttempt]
      /\ exec = [e \in Executions |-> "off"] /\ saved = {}
  BY DEF PromptInit
<1> HIDE DEF NoAttempt, Unclaimed
<1>4. PromptTypeOK
  <2>1. job \in Job
    BY PromptConstants DEF PromptInit, Job, Pending
  <2>2. iter \in [Executions -> [Samples -> Iteration]] /\ att \in [Samples -> Attempt]
    BY <1>1, <1>2, <1>3
  <2>3. exec \in [Executions -> ExecSteps] /\ faults \in 0..MaxFaults
    BY <1>3, PromptConstants DEF PromptInit, ExecSteps
  <2> QED
    BY <1>3, <2>1, <2>2, <2>3 DEF PromptInit, PromptTypeOK
<1>5. \A e \in Executions, s \in Samples :
        ClaimedOnce(e, s) /\ SeenConsistent(e, s) /\ AnswerOf(e, s)
  <2>1. \A e \in Executions : e # 0
    BY PromptConstants DEF Executions
  <2> QED
    BY <1>1, <1>2, <1>3, <2>1 DEF ClaimedOnce, SeenConsistent, AnswerOf
<1>6. RunMatchesAttempt /\ CompletedJobHasRun
  BY <1>1, <1>3 DEF RunMatchesAttempt, CompletedJobHasRun, PromptInit
<1>7. \A e \in Executions : ExecConsistent(e)
  BY <1>3 DEF ExecConsistent
<1> QED
  BY <1>4, <1>5, <1>6, <1>7 DEF IInv

LEMMA StepKeeps == IInv /\ [PromptNext]_promptVars => IInv'
<1> SUFFICES ASSUME IInv, [PromptNext]_promptVars PROVE IInv'
  OBVIOUS
<1>1. CASE UNCHANGED promptVars
  BY <1>1 DEF promptVars, IInv, PromptTypeOK, RunMatchesAttempt, ClaimedOnce, NotYet,
     SeenConsistent, Unchanged, AnswerOf, ExecConsistent, NotStarted, CompletedJobHasRun
<1>2. ASSUME NEW e \in Executions, NEW s \in Samples, Iterate(e, s)
      PROVE  IInv'
  BY <1>2, InsertKeeps, ReadKeeps, TakeOverKeeps, RunProviderKeeps, PersistKeeps,
     RejectKeeps DEF Iterate
<1>3. ASSUME NEW e \in Executions, Handle(e) \/ Crash(e)
      PROVE  IInv'
  BY <1>2, <1>3, FetchKeeps, BeginKeeps, GatherKeeps, ScheduleNextRunKeeps, CrashKeeps
     DEF Handle
<1>4. CASE Expire
  BY <1>4, ExpireKeeps
<1>5. ASSUME NEW s \in Samples, LeaseLapses(s)
      PROVE  IInv'
  BY <1>5, LeaseLapsesKeeps
<1>6. CASE Maintain \/ MaintenanceFails
  BY <1>6, MaintenanceKeeps
<1> QED
  BY <1>1, <1>3, <1>4, <1>5, <1>6 DEF PromptNext

THEOREM Invariance == PromptSpec => []IInv
BY InitHolds, StepKeeps, PTL DEF PromptSpec

-----------------------------------------------------------------------------
(* Theorems *)

\* Type correctness.
THEOREM PromptTypeCorrect == PromptSpec => []PromptTypeOK
<1>1. IInv => PromptTypeOK
  BY DEF IInv
<1> QED
  BY <1>1, Invariance, PTL

\* A sample has a prompt run exactly when its attempt succeeded.
THEOREM RunsMatch == PromptSpec => []RunMatchesAttempt
<1>1. IInv => RunMatchesAttempt
  BY DEF IInv
<1> QED
  BY <1>1, Invariance, PTL

\* A late execution never throws away the answer of the one that took over.
THEOREM AnswersAreKept == PromptSpec => []AnswerIsKept
<1>1. IInv => AnswerIsKept
  BY DEF IInv, AnswerIsKept, AnswerOf
<1> QED
  BY <1>1, Invariance, PTL

\* A completed job of an active prompt has a run.
THEOREM CompletedJobsHaveRuns == PromptSpec => []CompletedJobHasRun
<1>1. IInv => CompletedJobHasRun
  BY DEF IInv
<1> QED
  BY <1>1, Invariance, PTL

\* A sample is taken over only from a failed attempt or a lapsed lease.
THEOREM LeasesAreRespected == PromptSpec => LeaseIsRespected
<1>1. ASSUME IInv, NEW e \in Executions, NEW t \in Samples, TakeOver(e, t),
             NEW s \in Samples, Leased(att[s])
      PROVE  att'[s].by = att[s].by
  <2>1. SeenConsistent(e, t) /\ iter[e][t].step = "take" /\ att \in [Samples -> Attempt]
    BY <1>1 DEF IInv, TakeOver, At, PromptTypeOK
  <2>2. Leased(att[t]) => ~Unchanged(att[t], iter[e][t].seen)
    BY <2>1 DEF SeenConsistent, Unchanged, Leased
  <2> QED
    BY <1>1, <2>1, <2>2 DEF TakeOver
<1>2. ASSUME IInv, NEW e \in Executions, NEW t \in Samples,
             Insert(e, t) \/ Persist(e, t) \/ Reject(e, t) \/ LeaseLapses(t),
             NEW s \in Samples, Leased(att[s])
      PROVE  att'[s].by = att[s].by
  <2>1. att \in [Samples -> Attempt]
    BY <1>2 DEF IInv, PromptTypeOK
  <2> QED
    BY <1>2, <2>1 DEF Insert, Persist, Reject, LeaseLapses, Leased, Attempt
<1>3. ASSUME IInv, NEW e \in Executions, Handle(e) \/ Crash(e),
             NEW s \in Samples, Leased(att[s])
      PROVE  att'[s].by = att[s].by
  <2>1. ASSUME NEW t \in Samples, Iterate(e, t)
        PROVE  att'[s].by = att[s].by
    <3>1. CASE UNCHANGED att
      BY <3>1
    <3> QED
      BY <1>1, <1>2, <1>3, <2>1, <3>1 DEF Iterate, Read, RunProvider
  <2>2. CASE UNCHANGED att
    BY <2>2
  <2> QED
    BY <1>3, <2>1, <2>2 DEF Handle, Fetch, Begin, Gather, ScheduleNextRun, Crash
<1>4. ASSUME IInv, [PromptNext]_promptVars, NEW s \in Samples, Leased(att[s])
      PROVE  att'[s].by = att[s].by
  <2>1. CASE UNCHANGED att
    BY <2>1
  <2>2. ASSUME NEW t \in Samples, LeaseLapses(t)
        PROVE  att'[s].by = att[s].by
    <3>1. 1 \in Executions
      BY PromptConstants DEF Executions
    <3> QED
      BY <1>2, <1>4, <2>2, <3>1
  <2> QED
    BY <1>3, <1>4, <2>1, <2>2
       DEF PromptNext, promptVars, Expire, Maintain, FindOverdue, SendJob,
           MaintenanceFails
<1>5. IInv /\ [PromptNext]_promptVars =>
        [\A s \in Samples : Leased(att[s]) => att'[s].by = att[s].by]_att
  BY <1>4
<1> QED
  BY <1>5, Invariance, PTL DEF PromptSpec, LeaseIsRespected

=============================================================================
