\* The target waits for the probes and the ring buffer has room for every record; --tid t1.
CONSTANTS
  t1 = t1  t2 = t2  f = f  g = g  h = h
  Threads = {t1, t2}
  WatchTids = {t1}
  Offsets = {f, g, h}
  Tracked = {f, g}
  RingCap = 8
  DepthCap = 2
  UretCap = 4
  AttachErrors = FALSE
  TargetWaits = TRUE
  MaxCalls = 3
SPECIFICATION FairSpec
INVARIANT EveryReturnPaired
PROPERTIES EveryRecordRead ExactTrace
CHECK_DEADLOCK FALSE
