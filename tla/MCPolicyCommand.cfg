\* Both sides may stop once every command is concluded.
CHECK_DEADLOCK FALSE
SPECIFICATION FairSpec
CONSTANTS
  a = a
  b = b
  p1 = p1
  p2 = p2
  c1 = c1
  c2 = c2
  c3 = c3
  NoRule = NoRule
  Unset = Unset
  NoCk = NoCk
  Component <- MCComponent
  Prefix <- MCPrefix
  DataName <- MCDataName
  Rule <- MCRule
  Ck <- MCCk
  Caching = FALSE
  Command <- MCCommand
  PrefixOf <- MCPrefixOf
  RuleOf <- MCRuleOf
  MaxDisturbances = 1
INVARIANTS CommandTypeOK AnswersAreTrue TableFollowsCommands AckedInForce OwnerKnowsMatch
PROPERTY EveryCommandConcludes
