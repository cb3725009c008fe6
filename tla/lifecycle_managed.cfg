CONSTANTS
  d1 = d1
  u1 = u1
  u2 = u2
  r1 = r1
  r2 = r2
  NoUser = NoUser
  NoDemand = NoDemand
  Demand <- OneDemand
  User <- TwoPeople
  Manager <- TheManager
  Admin <- TheAdmin
  Request <- TwoRequests
  MaxCrashes = 1
  MaxLost = 0
SPECIFICATION Spec
SYMMETRY Symmetric
INVARIANTS
  CancellationCoherent
  OneProject
  OpenOnlyWhileConcluding
  OneEnding
PROPERTIES
  ProjectFollowsAssignee
  ImplementsContract
\* A demand that was purged, with nobody in flight, is the end of the model.
CHECK_DEADLOCK FALSE
