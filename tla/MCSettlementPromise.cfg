\* The daily settlement as its design promises it (no symmetry: liveness).
\* The clock stops at MaxTime, where a closed batch has nothing left to do.
CONSTANTS
  ExecutionModes = {"browser_runner"}
  Tasks = {t1, t2}
  Runners = {r1}
  Users = {u1}
  Nobody = Nobody
  Sessions = {s1}
  NoSession = NoSession
  FailureCodes <- OneCode
  WindowStart = 0
  WindowEnd = 3
  LeaseDuration = 2
  DayLength = 2
  Noon = 0
  MaxTime = 4
  MaxGeneration = 2
SPECIFICATION FairSpec
PROPERTIES StartedIsSettled
CHECK_DEADLOCK FALSE
