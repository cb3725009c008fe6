\* Two requests and two bodies under a key; two keys of the pair and two addresses, a POST
\* and a call; a heartbeat and a poll; two heartbeats that bring an entry.
CONSTANTS
  q1 = q1
  q2 = q2
  Request = {q1, q2}
  Payload = {1, 2}
  MaxMishaps = 2
  g1 = g1
  n1 = n1
  LastKey = 2
  Address = {1, 2}
  Home <- HomeOfKey
  Presenter = {g1}
  Caller = {n1}
  MaxPairTrouble = 1
  h1 = h1
  p1 = p1
  Beat = {h1}
  Poll = {p1}
  MaxLogs = 1
  MaxBeatTrouble = 1
  b1 = b1
  b2 = b2
  Bearer = {b1, b2}
  MaxDeliveryTrouble = 1
SPECIFICATION DoorFairSpec
\* An entry that was delivered is at rest.
CHECK_DEADLOCK FALSE
INVARIANTS
  DoorTypeOK
  CreatedOnce
  OnceUndisturbed
  SameAnswer
  CalledIsHome
  UnreportedIsBetween
PROPERTIES
  KeyNotBuried
  KeyInForceIsStored
  LicenceFollows
