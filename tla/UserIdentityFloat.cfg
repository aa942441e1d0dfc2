CONSTANTS
  User = {u1, u2}
  MachineBits = 1
  StepBits = 1
  MaxTime = 5
  MaxId = 23
  Exact <- McExact
  Float64 <- McFloat64
SPECIFICATION Spec
INVARIANT OwnData
SYMMETRY UserSymmetry
CHECK_DEADLOCK FALSE
