SPECIFICATION Spec
CONSTANTS
  Machines = {"pon", "mvcc", "block", "ledger", "groups", "research",
    "worker", "identity", "bridge", "relay", "admission", "governance", "challenge",
    "session", "ingress", "gate", "metadata", "control", "oracle"}
  Users = {"a", "b", "c"}
  Evaluators = {"b", "c"}
  Miner = "a"
  Funding = 9
  Par <- MCPar
  Menus <- MCMenus
  MaxBlocks = 4
INVARIANTS
  AgreesWithSerial
  PonAccounts
  StoredIsServed
  GroupsAreOrdered
  ChallengesEnd
  AcknowledgedOnce
  AcceptedIsOnChain
  HistoryExplains
  FiledIsProvable
  AdmissionKept
  ReportsStand
PROPERTIES
  EndsAreFinal
CHECK_DEADLOCK FALSE
