CONSTANTS
  User = {u1, u2}
  Request = {r1, r2, r3}
  NoToken = NoToken
  Second = 2
  AccessLifetime = 2
  RefreshLifetime = 4
  MaxTime = 5
SPECIFICATION Spec
INVARIANT TypeOK
INVARIANT RevokedStaysRejected
INVARIANT GoodUntilRevoked
INVARIANT SingleUse
PROPERTY ImplementsTokenLedger
PROPERTY RejectionIsFinal
SYMMETRY Symmetry
