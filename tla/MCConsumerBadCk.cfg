\* Everything may come to rest with a stranded waiter.
CHECK_DEADLOCK FALSE
SPECIFICATION Spec
CONSTANTS
  r1 = r1
  r2 = r2
  r3 = r3
  r4 = r4
  k1 = k1
  k2 = k2
  full = full
  narrow = narrow
  NoKey = NoKey
  NoFanout = NoFanout
  Request <- MCRequest
  Ck <- MCCk
  CkOf <- MCCkOf
  DKey <- MCDKey
  Opens <- MCOpens
  ProcessKeys <- MCNobody
  Trouble <- MCBadCk
  MaxDkeyFetches = 1
INVARIANT NoWaiterStranded
