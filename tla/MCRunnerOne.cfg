\* One task, two devices and two portal users: the deepest histories of one slot.
\* The clock stops at MaxTime, where a closed batch has nothing left to do.
CONSTANTS
  ExecutionModes = {"browser_runner", "manual"}
  Tasks = {t1}
  Runners = {r1, r2}
  Users = {u1, u2}
  Nobody = Nobody
  Sessions = {s1, s2}
  NoSession = NoSession
  FailureCodes <- BasicCodes
  WindowStart = 1
  WindowEnd = 5
  LeaseDuration = 2
  DayLength = 4
  Noon = 1
  MaxTime = 7
  MaxGeneration = 6
SPECIFICATION Spec
SYMMETRY Interchangeable
INVARIANTS TypeOK QueuedIsClaimable HonestFailureCode
PROPERTIES PostSubmitStaysWithDevice WorkOnlyInsideWindow
CHECK_DEADLOCK FALSE
