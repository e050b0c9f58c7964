SPECIFICATION Spec
CONSTANTS
  Funding = 7
  BondFunding = 2
  BondHold = 1
  Asset = "trnm"
  Chain = "c"
  Executes <- MCExecutes
  Previews <- MCPreviews
  BlockHeight <- MCHeight
  Genesis = "g"
  ContextsOf <- MCContexts
  Configs <- MCConfigs
  Mortal = {"p2"}
  MarketCaller = {"p1", "p2"}
INVARIANTS
  StoresReopen
  MarketConserved
  VotedIsExecuted
  OneCertifiedBatch
  ResponseVerifies
  VaultReplays
PROPERTIES
  KeptWhileNeeded
CHECK_DEADLOCK FALSE
