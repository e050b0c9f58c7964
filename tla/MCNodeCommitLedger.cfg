SPECIFICATION MCSpec
CONSTANTS
  Machines = {"ledger", "lanes"}
  TxId = {t1, t2, t3, t4}
  Checkpoint <- MCCheckpoint
  Scopes <- MCScopes
  NoCheckpoint = "none"
  ScopeOf <- MCScopeOf
  Generation <- MCGeneration
  Predecessor <- MCPredecessor
  Proc = {p1, p2}
  NoProc = NoProc
  Anchor = "a0"
  MaxRecords = 2
INVARIANTS
  RecoveryAccepts
  AckedIsDurable
  SnapshotIsHonest
PROPERTIES
  ImplementsRegister
  LockIsReturned
  NormalIsServed
