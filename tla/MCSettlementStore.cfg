SPECIFICATION MCSpec
CONSTANTS
  Machines = {"store", "engine"}
  MaxAmount = 10
  MaxU64 = 6
  MaxReceipts = 3
  Resource = {"cpu", "gpu", "disk"}
  Price <- MCPrice
  Certificate = {"e1"}
  EscrowFunding = 6
  EscrowVersion = 2
  ResultRevision = 5
  OpeningBalance <- MCOpeningBalance
  FeeNumerator = 1
  FeeDenominator = 3
  ChallengeBlocks = 1
  Block <- MCBlock
  HeightOf <- MCHeightOf
  GenesisBlock = "g"
  Usage <- MCUsage
  Submitted <- MCOneReceipt
  StartHeights = {0, 1, 2}
  p1 = p1
  p2 = p2
  Caller = {p1, p2}
  PreviewBlock = {"a1", "b1"}
  CommandBlock = {"a1", "a2"}
  EmptyBlock = {"b1"}
  Bundle <- MCBundle
  Creating = {"s", "same key"}
  Reopening = {"s", "t", "same account"}
  MaxPreview = 1
  MaxActive = 2
SYMMETRY CallerSymmetry
INVARIANTS
  AckedAsRequested
  PreviewIsCommit
  ValueConserved
  SettlementNeverStuck
PROPERTIES
  ImplementsEngine
CHECK_DEADLOCK FALSE
