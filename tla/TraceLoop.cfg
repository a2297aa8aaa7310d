\* Two threads, --count, a command at any moment, no depth limit.
CONSTANTS
  t1 = t1  t2 = t2
  Threads = {t1, t2}
  Slots <- MCSlots
  CallSlots = {"CallVoidMethod", "CallObjectMethod"}
  AlwaysWatch = {"GetMethodID"}
  VoidSlots = {"CallVoidMethod"}
  Cat <- MCCat
  CallWords <- MCCallWords
  RetWords <- MCRetWords
  Modules = {"so"}
  StartFilters <- MCFilters
  SlotLists <- MCSlotLists
  ModuleLists <- MCModuleLists
  Words = {"w"}
  NoReturns = FALSE
  Verbose = FALSE
  Count = TRUE
  MaxDepth = 0
  RunSec = FALSE
  MaxCalls = 2
  MaxCmds = 1
SPECIFICATION Spec
SYMMETRY Symmetry
INVARIANTS TypeOK FramesAreOpenCalls ReturnShowsItsCall LinesComeInPairs
CHECK_DEADLOCK FALSE
