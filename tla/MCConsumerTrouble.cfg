\* The application may stop calling; requests may be lost for good.
CHECK_DEADLOCK FALSE
SPECIFICATION Spec
CONSTANTS
  r1 = r1
  r2 = r2
  r3 = r3
  r4 = r4
  k1 = k1
  k2 = k2
  full = full
  narrow = narrow
  NoKey = NoKey
  NoFanout = NoFanout
  Request <- MCRequest
  Ck <- MCCk
  CkOf <- MCCkOf
  DKey <- MCDKey
  Opens <- MCOpens
  ProcessKeys <- MCOther
  Trouble <- MCAll
  MaxDkeyFetches = 1
INVARIANTS OneFetchPerCk OpenedInProcess
PROPERTIES AnswersOnce WalkEnds
