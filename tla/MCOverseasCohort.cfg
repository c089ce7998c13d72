\* Two slots end the two calls of a cohort at the same time; nothing fails.
CONSTANTS
  Calls = {c1, c2}
  Workers = {w1, w2}
  Handlers = {h1}
  Nobody = Nobody
  MaxFaults = 0
SPECIFICATION OverseasSpec
INVARIANT CohortCompletes
CHECK_DEADLOCK FALSE
