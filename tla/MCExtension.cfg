\* One device and one task: a crash of the worker and a late request anywhere
\* around one submission.  The clock stops and generations run out: the model ends.
CONSTANTS
  ExecutionModes = {"browser_runner"}
  Tasks = {t1}
  Runners = {r1}
  Users = {}
  Nobody = Nobody
  Sessions <- DrawnSessions
  NoSession = NoSession
  FailureCodes <- RetriedCodes
  BlockingCodes = {}
  WindowStart = 0
  WindowEnd = 3
  LeaseDuration = 1
  DayLength = 2
  Noon = 0
  MaxTime = 2
  MaxGeneration = 2
  NoTask = NoTask
  NoEntry = NoEntry
  MaxInFlight = 1
  MaxRestarts = 1
SPECIFICATION ExtSpec
INVARIANTS ExtTypeOK JournalBrackets PollMeetsNoOldEntry RecoversAtMostTwice
PROPERTIES SendsAtMostOnce
CHECK_DEADLOCK FALSE
