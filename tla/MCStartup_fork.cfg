SPECIFICATION FairSpec
INVARIANTS
  TypeOK
  ParentIsTruthful
  DisplayAgrees
PROPERTY ParentReturns
CHECK_DEADLOCK FALSE
