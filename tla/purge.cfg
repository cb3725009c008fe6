\* Two documents, of which one may be purged alone, on either storage.
CONSTANTS
  x1 = x1
  x2 = x2
  Doc = {x1, x2}
  Named = {x1}
  Providers = {"local", "s3"}
  MaxFiles = 2
  MaxMishaps = 1
SPECIFICATION FairSpec
\* A company that was purged is the end of the model.
CHECK_DEADLOCK FALSE
INVARIANTS
  TypeOK
  FileBeforeRow
  PurgedForGood
PROPERTY RepeatedPurgeFinishes
