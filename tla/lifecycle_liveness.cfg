CONSTANTS
  d1 = d1
  u1 = u1
  u2 = u2
  r1 = r1
  r2 = r2
  NoUser = NoUser
  NoDemand = NoDemand
  Demand <- OneDemand
  User <- OnePerson
  Manager <- TheManager
  Admin <- TheAdmin
  Request <- TwoRequests
  MaxCrashes = 0
  MaxLost = 1
SPECIFICATION FairSpec
PROPERTIES
  EndIsTold
  CompletionSettles
\* A demand that was purged, with nobody in flight, is the end of the model.
CHECK_DEADLOCK FALSE
