SPECIFICATION Spec
CONSTANTS
  t1 = t1
  t2 = t2
  t3 = t3
  Threads = {t1, t2, t3}
  lock = lock
  Monitors = {lock}
  None = None
  Programs <- SafetyPrograms
  MaxInterrupts = 1
INVARIANTS
  MonitorsAreKept
  WaitersAreWaiting
  InterruptsAreAnsweredOnce
PROPERTIES
  WaitsEndForAReason
  BarrierFreezesGuests
SYMMETRY ThreadSymmetry
\* Every thread may have ended, or wait.
CHECK_DEADLOCK FALSE
