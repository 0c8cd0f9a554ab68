\* The system stops once every holder has parameters or has thrown.
CHECK_DEADLOCK FALSE
SPECIFICATION FairSpec
CONSTANTS
  h1 = h1
  h2 = h2
  cpPub = cpPub
  kpPub = kpPub
  oddPub = oddPub
  NoPub = NoPub
  Holder <- MCHolder
  Pub <- MCPub
  TypeOf <- MCTypeOf
  Supported <- MCSupported
  MaxRetries = 10
INVARIANTS TypeOK ParamsFromOneAnswer RetryBudget NoSilentFailure
PROPERTIES Settles FetchAdvances ImplementsPublicParams
