SPECIFICATION FairSpec
CONSTANTS
  Tools = {t1, t2}
  Views = {v1}
  Timeouts = {1, 3}
  Grace = 1
  ReadTime = 1
  Width = 4
  StallMax = 2
INVARIANTS
  TypeOK
  Punctual
  GivesUpOnlyWhenStalled
PROPERTIES
  ImplementsService
  EveryCallReturns
CHECK_DEADLOCK FALSE
