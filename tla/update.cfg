\* Two attempts at most and two requests for them, with two mishaps.
CONSTANTS
  Moving = {"update"}
  w1 = w1
  w2 = w2
  Demand <- OneDemand
  Refusing <- OneDemand
  Drainer = {w1, w2}
  MaxItems = 2
  MaxAttempts = 2
  MaxFaults = 2
  MaxCrashes = 1
  d1 = d1
  d2 = d2
  SlaDemand = {d1, d2}
  Sweep = {w1, w2}
  Missable = {"analysis"}
  MaxSlaMishaps = 1
  t1 = t1
  t2 = t2
  Trigger = {t1, t2}
  MaxAsked = 2
  MaxMishaps = 2
  c1 = c1
  c2 = c2
  Call = {c1, c2}
  Cap = 4
  Worst = 2
  MaxExtra = 1
  a1 = a1
  a2 = a2
  Work = {a1, a2}
  bom = bom
  risks = risks
  Section = {bom, risks}
  MaxTrouble = 2
SPECIFICATION UpdateAloneSpec
\* An installation with no attempts left is at rest.
CHECK_DEADLOCK FALSE
INVARIANTS
  TypeOK
  CodeAndDatabaseInStep
PROPERTY
  AttemptEnds
