\* --count, and stats typed at any moment.
CONSTANTS
  t1 = t1  t2 = t2
  Threads = {t1}
  Slots <- MCSlots
  CallSlots = {"CallVoidMethod", "CallObjectMethod"}
  AlwaysWatch = {"GetMethodID"}
  VoidSlots = {"CallVoidMethod"}
  Cat <- MCCat
  CallWords <- MCCallWords
  RetWords <- MCRetWords
  Modules = {"so"}
  StartFilters <- NoFilters
  SlotLists <- MCSlotLists
  ModuleLists <- MCModuleLists
  Words = {"w"}
  NoReturns = FALSE
  Verbose = FALSE
  Count = TRUE
  MaxDepth = 0
  RunSec = FALSE
  MaxCalls = 3
  MaxCmds = 1
SPECIFICATION Spec
INVARIANT StatsSafe
CHECK_DEADLOCK FALSE
