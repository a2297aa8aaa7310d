\* Tables of 7 slots, code at 20..29, libart at 10; an exit of the target at any time.
CONSTANTS
  Memories <- MCMemories
  Files <- MCFiles
  NoFile = NoFile
  N = 7
  ExecLo = 20
  ExecHi = 30
  Base = 10
  WordSize = 64
  MinOffsets = 3
SPECIFICATION FairSpec
INVARIANTS TypeOK EveryTableProbed OnlyTablesProbed TablesCounted
PROPERTY Resolves
CHECK_DEADLOCK FALSE
