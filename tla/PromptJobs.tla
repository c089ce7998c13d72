----------------------------- MODULE PromptJobs -----------------------------
(***************************************************************************)
(* One scheduled job of a prompt, from its first execution to the job that *)
(* follows it.                                                             *)
(*                                                                         *)
(* pg-boss runs the job, and runs it again when it throws or has not ended *)
(* within 15 minutes - without stopping the handler that was late, so that *)
(* several executions work on the same samples.  They meet in the          *)
(* observation attempts: an attempt is claimed by inserting it, or by      *)
(* taking over one that has failed or whose 14-minute lease is over, and   *)
(* it may be ended only by the execution that claimed it last.  A handler  *)
(* that reaches its end plans the next job; the maintenance job plans one  *)
(* for a prompt that has none.                                             *)
(*                                                                         *)
(* A statement or a transaction is one step.  Time is the flags its        *)
(* passing sets: a lease lapses, a job expires, a cadence passes.  An      *)
(* execution claims a sample once, so the execution stands for the         *)
(* attempt's started_at.  Nobody changes the prompt meanwhile.             *)
(***************************************************************************)
EXTENDS Naturals, FiniteSets

CONSTANTS
  Samples,     \* the targets of the prompt, times the runs of each
  RetryLimit,  \* pg-boss retries a job so often (3 in the code)
  MaxFaults    \* bound: crashes and failing queries, together

ASSUME PromptConstants ==
  /\ IsFiniteSet(Samples) /\ Samples # {}
  /\ RetryLimit \in Nat /\ MaxFaults \in Nat

VARIABLES
  prompt,   \* "active"; "disabled", or without targets; "dropped": deleted, or
            \* manual-only
  job,      \* the state of the job and how often it was retried
  exec,     \* exec[e]: what the e-th execution is doing
  iter,     \* iter[e][s]: its iteration for sample s
  att,      \* att[s]: the observation attempt of sample s
  saved,    \* the samples with a prompt run
  next,     \* there is a job planned after this one
  maint,    \* what the maintenance job is doing
  faults    \* what MaxFaults counts

promptVars ==
  <<prompt, job, exec, iter, att, saved, next, maint, faults>>

Executions == 1..(RetryLimit + 1)

Pending == {"created", "retry", "active"}
JobOver == {"completed", "failed"}
Job == [state : Pending \cup JobOver, retries : 0..RetryLimit]

ExecSteps == {"off", "begin", "running", "plan", "done", "dead"}

\* lapsed: the lease is over.  An attempt that is not there is by nobody.
Attempt ==
  [status : {"none", "running", "failed", "succeeded"},
   by : {0} \cup Executions, lapsed : BOOLEAN]
NoAttempt == [status |-> "none", by |-> 0, lapsed |-> FALSE]
ClaimedBy(e) == [status |-> "running", by |-> e, lapsed |-> FALSE]

IterSteps == {"claim", "read", "take", "run", "persist", "reject", "ok", "failed"}
\* seen: the attempt as it was read.
Iteration == [step : IterSteps, seen : Attempt]
Unclaimed == [step |-> "claim", seen |-> NoAttempt]

PromptInit ==
  /\ prompt \in {"active", "disabled", "dropped"}
  /\ job = [state |-> "created", retries |-> 0]
  /\ exec = [e \in Executions |-> "off"]
  /\ iter = [e \in Executions |-> [s \in Samples |-> Unclaimed]]
  /\ att = [s \in Samples |-> NoAttempt]
  /\ saved = {}
  /\ next = FALSE
  /\ maint = "off"
  /\ faults = 0

Fault == faults < MaxFaults /\ faults' = faults + 1
NoFault == UNCHANGED faults

-----------------------------------------------------------------------------
(***************************************************************************)
(* pg-boss.                                                                *)
(***************************************************************************)
\* The execution whose end decides over the job.
Current(e) == job.state = "active" /\ e = job.retries + 1

\* Mutant: the retry limit is off by one.
RetriedOnceMore ==
  IF job.retries <= RetryLimit
  THEN [state |-> "retry", retries |-> job.retries + 1]
  ELSE [job EXCEPT !.state = "failed"]

Retried ==
  IF job.retries < RetryLimit
  THEN [state |-> "retry", retries |-> job.retries + 1]
  ELSE [job EXCEPT !.state = "failed"]

Fetch(e) ==
  /\ job.state \in {"created", "retry"}
  /\ e = job.retries + 1
  /\ job' = [job EXCEPT !.state = "active"]
  /\ exec' = [exec EXCEPT ![e] = "begin"]
  /\ UNCHANGED <<prompt, iter, att, saved, next, maint, faults>>

\* The handler may go on after this.
Expire ==
  /\ job.state = "active"
  /\ job' = Retried
  /\ UNCHANGED <<prompt, exec, iter, att, saved, next, maint, faults>>

\* The end of a late execution is not heard.
Returns(e) ==
  /\ exec' = [exec EXCEPT ![e] = "done"]
  /\ job' = IF Current(e) THEN [job EXCEPT !.state = "completed"] ELSE job

Throws(e) ==
  /\ exec' = [exec EXCEPT ![e] = "done"]
  /\ job' = IF Current(e) THEN Retried ELSE job

-----------------------------------------------------------------------------
(***************************************************************************)
(* The handler.                                                            *)
(***************************************************************************)
Doing(e, step) == exec[e] = step
Do(e, step) == exec' = [exec EXCEPT ![e] = step] /\ UNCHANGED job

\* A disabled prompt keeps its schedule, a dropped one loses it; a target that
\* is not available throws, and so does a query that fails.
Begin(e) ==
  /\ Doing(e, "begin")
  /\ \/ Throws(e)
     \/ prompt = "active" /\ Do(e, "running")
     \/ prompt = "disabled" /\ Do(e, "plan")
     \/ prompt = "dropped" /\ Returns(e)
  /\ UNCHANGED <<prompt, iter, att, saved, next, maint, faults>>

\* What an execution that is over was doing is of no consequence.
Forget(e) == iter' = [iter EXCEPT ![e] = [s \in Samples |-> Unclaimed]]

Finished(e) == \A s \in Samples : iter[e][s].step \in {"ok", "failed"}
AllFailed(e) == \A s \in Samples : iter[e][s].step = "failed"

\* One success is enough: only when all samples failed is the job retried.
Gather(e) ==
  /\ Doing(e, "running")
  /\ Finished(e)
  /\ \/ AllFailed(e) /\ Throws(e)
     \/ ~AllFailed(e) /\ Do(e, "plan")
  /\ Forget(e)
  /\ UNCHANGED <<prompt, att, saved, next, maint, faults>>

\* The send may fail, which is passed over, or be dropped as a duplicate of a
\* job of the same cadence.
ScheduleNextRun(e) ==
  /\ Doing(e, "plan")
  /\ next' \in {next, TRUE}
  /\ Returns(e)
  /\ UNCHANGED <<prompt, iter, att, saved, maint, faults>>

Crash(e) ==
  /\ exec[e] \in {"begin", "running", "plan"}
  /\ Do(e, "dead")
  /\ Forget(e)
  /\ Fault
  /\ UNCHANGED <<prompt, att, saved, next, maint>>

-----------------------------------------------------------------------------
(***************************************************************************)
(* The iteration of an execution for a sample.                             *)
(***************************************************************************)
At(e, s, step) == Doing(e, "running") /\ iter[e][s].step = step
Goto(e, s, step) == iter' = [iter EXCEPT ![e][s].step = step]

jobVars == <<prompt, job, exec, next, maint>>

\* The snapshot storage may be unconfigured or full before, or the insert fail.
Insert(e, s) ==
  /\ At(e, s, "claim")
  /\ \/ /\ att[s].status = "none"
        /\ att' = [att EXCEPT ![s] = ClaimedBy(e)]
        /\ Goto(e, s, "run")
     \/ att[s].status # "none" /\ Goto(e, s, "read") /\ UNCHANGED att
     \/ Goto(e, s, "failed") /\ UNCHANGED att
  /\ UNCHANGED <<jobVars, saved, faults>>

Leased(a) == a.status = "running" /\ ~a.lapsed

\* Mutant: only a running attempt is left alone.
ReadForgetfully(e, s) ==
  /\ At(e, s, "read")
  /\ iter' = [iter EXCEPT ![e][s] =
                IF Leased(att[s]) THEN [@ EXCEPT !.step = "failed"]
                ELSE [step |-> "take", seen |-> att[s]]]
  /\ UNCHANGED <<jobVars, att, saved, faults>>

\* Mutant: a sample that is in progress is none of this execution's business.
ReadLeniently(e, s) ==
  /\ At(e, s, "read")
  /\ iter' = [iter EXCEPT ![e][s] =
                IF att[s].status = "succeeded" \/ Leased(att[s])
                THEN [@ EXCEPT !.step = "ok"]
                ELSE [step |-> "take", seen |-> att[s]]]
  /\ UNCHANGED <<jobVars, att, saved, faults>>

\* A succeeded sample counts as done; one in progress throws.
Read(e, s) ==
  /\ At(e, s, "read")
  /\ iter' = [iter EXCEPT ![e][s] =
                IF att[s].status = "succeeded" THEN [@ EXCEPT !.step = "ok"]
                ELSE IF Leased(att[s]) THEN [@ EXCEPT !.step = "failed"]
                ELSE [step |-> "take", seen |-> att[s]]]
  /\ UNCHANGED <<jobVars, att, saved, faults>>

\* Mutant: whatever became of the attempt since it was read.
Unconditionally(a, seen) == TRUE

\* The update compares status and started_at with what was read.
Unchanged(a, seen) == a.status = seen.status /\ a.by = seen.by

TakeOver(e, s) ==
  /\ At(e, s, "take")
  /\ \/ /\ Unchanged(att[s], iter[e][s].seen)
        /\ att' = [att EXCEPT ![s] = ClaimedBy(e)]
        /\ iter' = [iter EXCEPT ![e][s] = [step |-> "run", seen |-> NoAttempt]]
     \/ /\ ~Unchanged(att[s], iter[e][s].seen)
        /\ iter' = [iter EXCEPT ![e][s] = [step |-> "failed", seen |-> NoAttempt]]
        /\ UNCHANGED att
  /\ UNCHANGED <<jobVars, saved, faults>>

LeaseLapses(s) ==
  /\ Leased(att[s])
  /\ att' = [att EXCEPT ![s].lapsed = TRUE]
  /\ UNCHANGED <<jobVars, iter, saved, faults>>

\* The route may not support the scope, and the provider may throw.
RunProvider(e, s) ==
  /\ At(e, s, "run")
  /\ Goto(e, s, "persist") \/ Goto(e, s, "reject")
  /\ UNCHANGED <<jobVars, att, saved, faults>>

Mine(e, s) == att[s].status = "running" /\ att[s].by = e

\* The unique index on the attempt's prompt run, and the execution's claim.
Persist(e, s) ==
  /\ At(e, s, "persist")
  /\ \/ /\ Mine(e, s) /\ s \notin saved
        /\ att' = [att EXCEPT ![s].status = "succeeded", ![s].lapsed = FALSE]
        /\ saved' = saved \cup {s}
        /\ \/ Goto(e, s, "ok") /\ NoFault
           \/ Goto(e, s, "reject") /\ Fault
     \/ /\ ~(Mine(e, s) /\ s \notin saved)
        /\ Goto(e, s, "reject")
        /\ UNCHANGED <<att, saved, faults>>
     \/ Goto(e, s, "reject") /\ Fault /\ UNCHANGED <<att, saved>>
  /\ UNCHANGED jobVars

\* Mutant: any running attempt is marked as failed.
RejectAnyRunning(e, s) ==
  /\ At(e, s, "reject")
  /\ att' = [att EXCEPT ![s].status = IF @ = "running" THEN "failed" ELSE @,
                        ![s].lapsed = FALSE]
  /\ Goto(e, s, "failed")
  /\ UNCHANGED <<jobVars, saved, faults>>

\* markObservationFailed passes over an attempt that is not this execution's;
\* its own failure is reported and passed over.
Reject(e, s) ==
  /\ At(e, s, "reject")
  /\ \/ /\ Mine(e, s)
        /\ att' = [att EXCEPT ![s].status = "failed", ![s].lapsed = FALSE]
        /\ NoFault
     \/ ~Mine(e, s) /\ UNCHANGED att /\ NoFault
     \/ Fault /\ UNCHANGED att
  /\ Goto(e, s, "failed")
  /\ UNCHANGED <<jobVars, saved>>

-----------------------------------------------------------------------------
(***************************************************************************)
(* The maintenance job, every five minutes.                                *)
(***************************************************************************)
\* Mutant: a job that has ended is taken for a pending one.
PendingJobInAnyState == TRUE

PendingJob == job.state \in Pending \/ next

\* The last run or ended attempt of the prompt is a cadence old: no step keeps a
\* cadence from passing.  Only prompts whose automatic execution is activated
\* are looked at, and pulling a job forward that is due already changes nothing.
FindOverdue ==
  /\ prompt = "active"
  /\ maint = "off"
  /\ ~PendingJob
  /\ maint' = "send"
  /\ UNCHANGED <<prompt, job, exec, iter, att, saved, next, faults>>

SendJob ==
  /\ maint = "send"
  /\ next' = TRUE
  /\ maint' = "off"
  /\ UNCHANGED <<prompt, job, exec, iter, att, saved, faults>>

MaintenanceFails ==
  /\ maint = "send"
  /\ maint' = "off"
  /\ Fault
  /\ UNCHANGED <<prompt, job, exec, iter, att, saved, next>>

-----------------------------------------------------------------------------
Iterate(e, s) ==
  \/ Insert(e, s) \/ Read(e, s) \/ TakeOver(e, s) \/ RunProvider(e, s)
  \/ Persist(e, s) \/ Reject(e, s)

Handle(e) ==
  \/ Fetch(e) \/ Begin(e) \/ Gather(e) \/ ScheduleNextRun(e)
  \/ \E s \in Samples : Iterate(e, s)

Maintain == FindOverdue \/ SendJob

PromptNext ==
  \/ \E e \in Executions : Handle(e) \/ Crash(e)
  \/ Expire
  \/ \E s \in Samples : LeaseLapses(s)
  \/ Maintain \/ MaintenanceFails

PromptSpec == PromptInit /\ [][PromptNext]_promptVars

\* The worker polls, an execution that is alive goes on, time passes and the
\* maintenance is started every five minutes.
PromptFairSpec ==
  /\ PromptSpec
  /\ \A e \in Executions : WF_promptVars(Handle(e))
  /\ WF_promptVars(Expire)
  /\ WF_promptVars(Maintain)

-----------------------------------------------------------------------------
PromptTypeOK ==
  /\ prompt \in {"active", "disabled", "dropped"}
  /\ job \in Job
  /\ exec \in [Executions -> ExecSteps]
  /\ iter \in [Executions -> [Samples -> Iteration]]
  /\ att \in [Samples -> Attempt]
  /\ saved \subseteq Samples
  /\ next \in BOOLEAN
  /\ maint \in {"off", "send"}
  /\ faults \in 0..MaxFaults

\* An attempt has a prompt run exactly when it succeeded: no execution reopens
\* a sample that another one has answered.
RunMatchesAttempt ==
  \A s \in Samples : s \in saved <=> att[s].status = "succeeded"

\* An execution that is asking the provider, or has its answer, can still save
\* it unless another has taken the sample over: the failure of a late execution
\* never throws away the answer of the one that replaced it.
AnswerIsKept ==
  \A e \in Executions, s \in Samples :
    iter[e][s].step \in {"run", "persist"} /\ att[s].by = e =>
      att[s].status = "running"

\* A job that ends as completed has given its prompt at least one run.
CompletedJobHasRun ==
  job.state = "completed" /\ prompt = "active" => saved # {}

\* A running attempt is taken over only when its lease is over, although the
\* lease is read in one statement and the attempt taken in another.
LeaseIsRespected ==
  [][\A s \in Samples :
       Leased(att[s]) => att'[s].by = att[s].by]_att

\* However the last execution of a job ends - planned, unplanned because the
\* send failed, out of retries or dead - an active prompt gets a next job.
NextJobIsPlanned ==
  prompt = "active" /\ job.state \in JobOver ~> next
=============================================================================
