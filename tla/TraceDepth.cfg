\* One thread with up to three nested calls under --max-depth 1 and --run, a command at any
\* moment.
CONSTANTS
  t1 = t1  t2 = t2
  Threads = {t1}
  Slots <- MCSlots
  CallSlots = {"CallVoidMethod", "CallObjectMethod"}
  AlwaysWatch = {"GetMethodID"}
  VoidSlots = {"CallVoidMethod"}
  Cat <- MCOneCat
  CallWords <- MCCallWords
  RetWords <- MCRetWords
  Modules = {}
  StartFilters <- NoFilters
  SlotLists = {{{"CallVoidMethod"}}}
  ModuleLists = {{}}
  Words = {}
  NoReturns = FALSE
  Verbose = FALSE
  Count = FALSE
  MaxDepth = 1
  RunSec = TRUE
  MaxCalls = 3
  MaxCmds = 1
SPECIFICATION FairSpec
INVARIANTS FramesAreOpenCalls ReturnShowsItsCall LinesComeInPairs
PROPERTY RunEnds
CHECK_DEADLOCK FALSE
