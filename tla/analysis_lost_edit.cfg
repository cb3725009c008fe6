\* Three works on one project: the analysis that makes the row, and two that meet.
CONSTANTS
  Work = {a1, a2, a3}
  Section = {bom, risks}
  MaxTrouble = 0
SPECIFICATION WorkSpec
CHECK_DEADLOCK FALSE
PROPERTY
  OthersAsTheyWere
