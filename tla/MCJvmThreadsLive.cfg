SPECIFICATION FairSpec
CONSTANTS
  t1 = t1
  t2 = t2
  t3 = t3
  Threads = {t1, t2}
  lock = lock
  Monitors = {lock}
  None = None
  Programs <- LivePrograms
  MaxInterrupts = 0
PROPERTIES
  
  CloseReleasesThreads
