CONSTANTS
  x1 = x1
  r1 = r1
  r2 = r2
  Doc <- OneDoc
  PatchKinds <- AnyKind
  MaxUpdates = 3
  Request <- TwoRequests
SPECIFICATION Spec
SYMMETRY Symmetric
INVARIANTS
  LagHasReason
PROPERTIES
  NeverGoesBack
\* A demand that ended, with every update decided, is the end of the model.
CHECK_DEADLOCK FALSE
