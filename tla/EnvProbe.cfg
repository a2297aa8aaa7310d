\* Two processes, one with two threads; room for two dumps and one process in seen.
CONSTANTS
  t1 = t1  t2 = t2  t3 = t3  p1 = p1  p2 = p2
  Threads = {t1, t2, t3}
  Pids = {p1, p2}
  PidOf <- MCPidOf
  LnlArgs <- MCLnlArgs
  CntArgs <- MCCntArgs
  Env = {"env"}
  Words <- MCWords
  Losses <- MCLosses
  N = 4
  envSlots = 6
  ExecLo = 20
  ExecHi = 30
  Base = 10
  RingCap = 2
  SeenCap = 1
  MaxCalls = 3
SPECIFICATION FairSpec
INVARIANTS TypeOK FileIsTable LoadedIsTable
PROPERTY DumpsEndInFile
CHECK_DEADLOCK FALSE
