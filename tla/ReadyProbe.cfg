CONSTANTS
  Probe = {p1, p2, p3, p4}
  cacheTTL = 2
  MaxTime = 6
SPECIFICATION Spec
INVARIANT PingsSpaced
INVARIANT AnswersRecent
SYMMETRY ProbeSymmetry
CHECK_DEADLOCK FALSE
