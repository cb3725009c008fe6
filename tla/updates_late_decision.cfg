\* Two people decide two updates at the same time.
CONSTANTS
  x1 = x1
  r1 = r1
  r2 = r2
  Doc = {}
  PatchKinds <- AnyKind
  MaxUpdates = 2
  Request <- TwoRequests
SPECIFICATION Spec
CHECK_DEADLOCK FALSE
PROPERTY
  NoDecisionGoesBack
