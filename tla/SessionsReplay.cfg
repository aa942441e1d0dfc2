CONSTANTS
  User = {u1}
  Request = {r1, r2, r3}
  NoToken = NoToken
  Second = 2
  AccessLifetime = 2
  RefreshLifetime = 4
  MaxTime = 6
SPECIFICATION Spec
INVARIANT ReplayPrevented
SYMMETRY Symmetry
