\* A portal user takes a parked task over and ends it.
CONSTANTS
  ExecutionModes = {"browser_runner"}
  Tasks = {t1}
  Runners = {r1}
  Users = {u1}
  Nobody = Nobody
  Sessions <- DrawnSessions
  NoSession = NoSession
  FailureCodes <- OwnCode
  BlockingCodes = {}
  WindowStart = 0
  WindowEnd = 3
  LeaseDuration = 1
  DayLength = 2
  Noon = 0
  MaxTime = 2
  MaxGeneration = 2
  NoTask = NoTask
  NoEntry = NoEntry
  MaxInFlight = 0
  MaxRestarts = 0
SPECIFICATION ExtFairSpec
PROPERTIES SurfaceNotStranded
CHECK_DEADLOCK FALSE
