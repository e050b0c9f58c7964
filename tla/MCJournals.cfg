SPECIFICATION Spec
CONSTANTS
  p1 = p1
  p2 = p2
  Process = {p1, p2}
  Reserved = {9}
  MaxRows = 3
  MaxDeltaRows = 4
  Contexts <- MCContexts
  FirstContext <- MCFirst
  Vouched <- MCVouched
  Exports <- MCExports
  Planned <- MCPlanned
  RollbackFloor = 1
  Readiness <- MCReadiness
  ProjectedKey <- MCTarget
  SignerWeight <- MCWeights
  RequiredWeight = 2
  MaxGeneration = 2
  c1 = c1
  c2 = c2
  Machines = {"import", "replay", "bodies", "owner", "authority"}
  Client = {c1, c2}
  MaxAttempts = 2
  MaxQueue = 2
SYMMETRY Symmetry
INVARIANTS
  ReceiptsStand
  PublicationsHold
  ImportsInstalled
  AppliedSurvives
  AbsentIsFinal
PROPERTIES
  AuthorityImplementsRegister
CHECK_DEADLOCK FALSE
