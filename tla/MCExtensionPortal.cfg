\* One device and a portal user: codes that are retried and codes that block.
\* The clock stops and generations run out: the model ends.
CONSTANTS
  ExecutionModes = {"browser_runner"}
  Tasks = {t1}
  Runners = {r1}
  Users = {u1}
  Nobody = Nobody
  Sessions <- DrawnSessions
  NoSession = NoSession
  FailureCodes <- PageCodes
  BlockingCodes <- Captcha
  WindowStart = 0
  WindowEnd = 3
  LeaseDuration = 2
  DayLength = 2
  Noon = 0
  MaxTime = 3
  MaxGeneration = 2
  NoTask = NoTask
  NoEntry = NoEntry
  MaxInFlight = 0
  MaxRestarts = 0
SPECIFICATION ExtFairSpec
PROPERTIES OwnEntriesDrain
CHECK_DEADLOCK FALSE
