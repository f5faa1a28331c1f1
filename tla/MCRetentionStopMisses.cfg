SPECIFICATION Spec
CONSTANTS
  g1 = g1
  g2 = g2
  d1 = d1
  d2 = d2
  Runners = {r1}
  Tokens = {t1}
  Games = {g1, g2}
  Dirs = {d1, d2}
  SaveDirectory <- OwnSaves
  Requests = {q1}
  MaxRetained = 1
  MaxCommands = 1
  LateRequests = FALSE
  None = None
INVARIANTS StopEndsEveryGame
CHECK_DEADLOCK FALSE
