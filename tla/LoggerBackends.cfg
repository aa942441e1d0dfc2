CONSTANTS
  Logger = {l1, l2, l3}
  Settable = {2, 3, 4}
SPECIFICATION Spec
INVARIANT BackendsAgree
INVARIANT ShouldLogTruthful
INVARIANT FieldsAgree
PROPERTY SlogIsolated
PROPERTY ZerologImplementsContract
CHECK_DEADLOCK FALSE
