SPECIFICATION Spec
CONSTANTS
  c1 = c1
  c2 = c2
  both = both
  member = member
  open = open
  secret = secret
  junk = junk
  n = n
  nx = nx
  Consumer = {c1, c2}
  Process = {both, c1, c2}
  Placement <- MCPlacement
  Grant = {member}
  Unset = Unset
  Rule = {open, secret, junk}
  Unusable = {junk}
  Satisfies <- MCSatisfies
  Name = {n, nx}
  Under <- MCUnder
  Asked = {n}
  Word = {w}
  Producer = producer
  NoParams = NoParams
  NoKey = NoKey
  NacAlgoError = NacAlgoError
  Garbled = Garbled
  Garbage = Garbage
  MaxRestarts = 1
  MaxSpread = 2
  MaxWaiters = 2
  MaxMade = 2
SYMMETRY MCSymmetry
INVARIANTS TypeOK GarbageHasCause RefusalHasCause OneKeyPerName
PROPERTIES ImplementsGuardedStore
\* At the bounds the consumers may stop asking and everything comes to rest.
CHECK_DEADLOCK FALSE
