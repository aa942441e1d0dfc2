CONSTANTS
  Request = {r1, r2}
  Probe = {r2}
  Nobody = Nobody
  Queries = 2
  Timeouts = {1}
  WriteTimeout = 2
  HeaderTimeout = 1
  Grace = 3
SPECIFICATION Spec
INVARIANT LiveAnswers
CHECK_DEADLOCK FALSE
