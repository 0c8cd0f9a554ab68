\* A Producer of an unsupported authority can do nothing once its keys are gone.
CHECK_DEADLOCK FALSE
SPECIFICATION ProducerSpec
CONSTANTS
  a = a
  b = b
  c = c
  p1 = p1
  p2 = p2
  ck1 = ck1
  ck2 = ck2
  NoRule = NoRule
  Unset = Unset
  NoCk = NoCk
  Component <- MCComponent
  Prefix <- MCPrefix
  DataName <- MCDataName
  Rule <- MCRule
  Ck <- MCCk
  Caching = TRUE
INVARIANTS ProducerTypeOK PrefixesUnique MatchIsLongest DataUnderItsRule
PROPERTY ImplementsPolicyTable
