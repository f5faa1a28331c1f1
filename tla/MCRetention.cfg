SPECIFICATION Spec
CONSTANTS
  g1 = g1
  g2 = g2
  d1 = d1
  d2 = d2
  Runners = {r1, r2}
  Tokens = {t1, t2, t3}
  Games = {g1, g2}
  Dirs = {d1}
  SaveDirectory <- SomeSaves
  Requests = {q1}
  MaxRetained = 2
  MaxCommands = 5
  LateRequests = FALSE
  None = None
SYMMETRY Interchangeable
INVARIANTS
  ClaimsMatchWriters
  OneControllerPerToken
  StopLeavesNoGame
  WithinCapacity
PROPERTIES
  OwnershipSpec
  ParkedGamesAreKept
CHECK_DEADLOCK FALSE
