SPECIFICATION Spec
CONSTANTS
  carried = carried
  Threads = {t1, t2}
  Names = {carried}
  Data = {"x"}
  Carried <- MCCarried
  Nil = Nil
  None = None
  Index = Index
  MaxRecords = 2
  RefusedReads = {"index", "carried", "open"}
  Careless = FALSE
  MaxChanges = 2
  MaxRefusals = 2
  MaxSessions = 2
  MaxObjects = 2
  MaxOpen = 2
INVARIANTS
  CarriedStoresAreServed
SYMMETRY ThreadSymmetry
CHECK_DEADLOCK FALSE
