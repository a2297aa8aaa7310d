\* Everything may go wrong: a ring buffer of three records, attach errors, a target that
\* runs while the probes are attached, a depth map with room for one of two threads.
CONSTANTS
  t1 = t1  t2 = t2  f = f  g = g  h = h
  Threads = {t1, t2}
  WatchTids = {t1, t2}
  Offsets = {f, g, h}
  Tracked = {f, g}
  RingCap = 3
  DepthCap = 1
  UretCap = 2
  AttachErrors = TRUE
  TargetWaits = FALSE
  MaxCalls = 3
SPECIFICATION Spec
SYMMETRY Symmetry
INVARIANTS TypeOK NeverMispaired PairedWhenMapped FrameUsedOnce DepthCountsFrames IInv
PROPERTY LossyTrace
CHECK_DEADLOCK FALSE
