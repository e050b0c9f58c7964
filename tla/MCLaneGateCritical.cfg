SPECIFICATION MCSpec
CONSTANTS
  Machines = {"lanes"}
  TxId = {t1, t2, t3}
  Checkpoint <- MCCheckpoint
  Scopes <- MCScopes
  NoCheckpoint = "none"
  ScopeOf <- MCScopeOf
  Generation <- MCGeneration
  Predecessor <- MCPredecessor
  Proc = {p1}
  NoProc = NoProc
  Anchor = "a0"
  MaxRecords = 1
PROPERTIES
  CriticalIsServed
