\* Two calls for two slots, and one fault: enough for a job that is sent twice
\* and for an answer to a commit that is lost.  When every call has ended
\* nothing need happen.
CONSTANTS
  Calls = {c1, c2}
  Workers = {w1, w2}
  Handlers = {h1}
  Nobody = Nobody
  MaxFaults = 1
SPECIFICATION OverseasFairSpec
INVARIANTS OverseasTypeOK SuccessIsArchived CohortStatusIsEarned DispatchedHasJob
PROPERTIES EndsAreFinal PaysOnce DispatchedCallsEnd
CHECK_DEADLOCK FALSE
