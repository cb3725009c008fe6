\* Two handlers at a time over two versions of a proposal; any two handlers at a time on
\* one POC, with a report of two questions.
CONSTANTS
  h1 = h1
  h2 = h2
  s1 = s1
  s2 = s2
  Handler = {h1, h2}
  Stage = {s1, s2}
  Mandatory = {{s1, s2}}
  MaxVersions = 2
  MaxFiles = 3
  MaxMishaps = 1
  q1 = q1
  q2 = q2
  e1 = e1
  PocHandler = {h1, h2}
  Question = {q1, q2}
  Entry = {e1}
SPECIFICATION FlowSpec
SYMMETRY Symmetry
\* An approved proposal, and a POC that was deleted, are at rest.
CHECK_DEADLOCK FALSE
INVARIANTS
  TypeOK
  ApprovedByAll
  DocumentIsCurrent
  StatusFollowsDecisions
PROPERTIES
  HumanWorkSurvives
  FrozenOnceCompleted
