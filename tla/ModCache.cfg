\* A library that comes and goes at two addresses while two events are handled.
CONSTANTS
  Addrs = {1, 2}
  Libs = {"lib"}
  StartMaps <- MCStart
  MaxChanges = 3
  MaxEvents = 2
SPECIFICATION FairSpec
INVARIANTS TypeOK NotOlderThanReload MissIsNamedNow FrameOfOneSnapshot
PROPERTIES CatchesUp EventsAnswered
CHECK_DEADLOCK FALSE
