CONSTANTS
  Token = {t1, t2}
  Durations = {0, 1, 2}
  MaxTime = 5
SPECIFICATION FairSpec
PROPERTY ImplementsRevocationList
PROPERTY ExpiredIsReclaimed
CHECK_DEADLOCK TRUE
