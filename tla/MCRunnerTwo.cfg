\* Two tasks of one batch: the transactions that look at all of them, and a
\* settlement that leases must not hold off for ever (no symmetry: liveness).
\* The clock stops at MaxTime, where a closed batch has nothing left to do.
CONSTANTS
  ExecutionModes = {"browser_runner", "manual"}
  Tasks = {t1, t2}
  Runners = {r1}
  Users = {u1}
  Nobody = Nobody
  Sessions = {s1}
  NoSession = NoSession
  FailureCodes <- TwoTaskCodes
  WindowStart = 0
  WindowEnd = 3
  LeaseDuration = 2
  DayLength = 2
  Noon = 0
  MaxTime = 4
  MaxGeneration = 3
SPECIFICATION FairSpec
INVARIANTS ProtocolNeverRefused CompletedWithLastTask
PROPERTIES LiveLeaseShield RefusalsExplained LeasesDoNotBlockSettlement
CHECK_DEADLOCK FALSE
