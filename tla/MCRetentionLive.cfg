SPECIFICATION FairSpec
CONSTANTS
  g1 = g1
  g2 = g2
  d1 = d1
  d2 = d2
  Runners = {r1, r2}
  Tokens = {t1, t2}
  Games = {g1, g2}
  Dirs = {d1}
  SaveDirectory <- SomeSaves
  Requests = {q1}
  MaxRetained = 1
  MaxCommands = 3
  LateRequests = FALSE
  None = None
PROPERTIES LostPagesAreLeft StopCompletes HandoffsAreAnswered
CHECK_DEADLOCK FALSE
