\* The violation is found before the Producer can stop.
CHECK_DEADLOCK FALSE
SPECIFICATION ProducerSpec
CONSTANTS
  a = a
  b = b
  c = c
  p1 = p1
  p2 = p2
  ck1 = ck1
  ck2 = ck2
  NoRule = NoRule
  Unset = Unset
  NoCk = NoCk
  Component <- MCComponent
  Prefix <- MCPrefix
  DataName <- MCDataName
  Rule <- MCRule
  Ck <- MCCk
  Caching = TRUE
INVARIANT RootRuleFound
