\* One task, two requests at a time.
CONSTANTS
  ExecutionModes = {"browser_runner"}
  Tasks = {t1}
  Runners = {r1}
  Users = {u1}
  Nobody = Nobody
  Sessions = {s1}
  NoSession = NoSession
  FailureCodes <- ServerCode
  WindowStart = 0
  WindowEnd = 2
  LeaseDuration = 1
  DayLength = 2
  Noon = 0
  MaxTime = 2
  MaxGeneration = 2
  Requests = {q1, q2}
  Answers = {a1, a2}
  VersionOf <- OneVersion
  Artifacts = {i1, i2}
  MaxArtifacts = 1
  NoRow = NoRow
  Over = Over
  MaxCount = 2
  MaxFaults = 1
SPECIFICATION CompletionSpec
SYMMETRY Alike
INVARIANTS CompletionTypeOK RunHasItsEvidence AcceptedIsStored
PROPERTIES CompletesUnderItsClaim LiveEvidenceStays
CHECK_DEADLOCK FALSE
