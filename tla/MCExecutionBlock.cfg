SPECIFICATION Spec
CONSTANTS
  Machines = {"block"}
  Users = {"a", "b", "c"}
  Evaluators = {"b", "c"}
  Miner = "a"
  Funding = 9
  Par <- MCPar
  Menus <- MCMenus
  MaxBlocks = 4
INVARIANTS
  CanonicalIsAccepted
CHECK_DEADLOCK FALSE
