\* Two approvers of two stages decide at the same time.
CONSTANTS
  h1 = h1
  h2 = h2
  s1 = s1
  s2 = s2
  Handler = {h1, h2}
  Stage = {s1, s2}
  Mandatory = {{s1, s2}}
  MaxVersions = 1
  MaxFiles = 1
  MaxMishaps = 0
SPECIFICATION Spec
CHECK_DEADLOCK FALSE
INVARIANT SubmittedAwaitsStage
