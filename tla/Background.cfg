SPECIFICATION FairSpec
CONSTANTS
  Keep = 2
  Subs = 2
  Tries = 2
  MaxJobs = 3
  MaxNow = 3
  MaxStops = 1
  Trace = {t1, t2, t3, t4, t5}
  Batch = 2
INVARIANTS RetentionSound DeliveriesDrained PurgeComplete
PROPERTIES EveryoneAsked GoesOnAndEnds
CHECK_DEADLOCK FALSE
