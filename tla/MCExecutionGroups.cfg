SPECIFICATION Spec
CONSTANTS
  Machines = {"groups"}
  Users = {"a", "b", "c"}
  Evaluators = {"b", "c"}
  Miner = "a"
  Funding = 9
  Par <- MCPar
  Menus <- MCMenus
  MaxBlocks = 4
INVARIANTS
  GroupsAreParallel
CHECK_DEADLOCK FALSE
