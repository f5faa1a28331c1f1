SPECIFICATION PartsSpec
CONSTANTS
  t1 = t1
  t2 = t2
  Nil = Nil
  Generations = {g1, g2, g3, g4, g5}
  None = None
  Partial = Partial
  Slots = {q}
  Callers = {t1, t2}
  Timers = {"T1", "T2"}
  Workers = {"w1", "w2"}
  Idle = None
  MaxTime = 2
  Schedules <- ThreeSchedules
  Data = {"low", "high", "out"}
  Matches = {"low", "high"}
  Rank <- DataRank
  MaxRecords = 3
  Threads = {t1, t2}
  Small = {1}
  Large = {3}
  Weight <- TwoForOne
  Limit = 4
  MaxDraw = 2
  MaxRow = 3
  MaxCharge = 4
INVARIANTS
  RecoveryIsRight
  MovesAreWhole
  WalkIsComplete
  OneRoundPerTask
  BudgetIsKept
  TicksDoNotMatter
PROPERTIES
  FirstRefusalIsTrue
SYMMETRY ThreadSymmetry
\* A title or a worker may have nothing more to do.
CHECK_DEADLOCK FALSE
