\* The target waits for the probes, nothing fails to attach: only the ring buffer is short.
CONSTANTS
  t1 = t1  t2 = t2  f = f  g = g  h = h
  Threads = {t1, t2}
  WatchTids = {t1, t2}
  Offsets = {f, g, h}
  Tracked = {f, g}
  RingCap = 2
  DepthCap = 2
  UretCap = 4
  AttachErrors = FALSE
  TargetWaits = TRUE
  MaxCalls = 3
SPECIFICATION Spec
INVARIANT NestedCallsPair
CHECK_DEADLOCK FALSE
