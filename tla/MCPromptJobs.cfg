\* One sample, three executions and two faults.  A prompt that nobody maintains
\* may stop.
CONSTANTS
  Samples = {s1}
  RetryLimit = 2
  MaxFaults = 2
SPECIFICATION PromptFairSpec
INVARIANTS PromptTypeOK RunMatchesAttempt AnswerIsKept CompletedJobHasRun
PROPERTIES LeaseIsRespected NextJobIsPlanned
CHECK_DEADLOCK FALSE
