\* Five general registers of which four are read, two vector registers, snapshots of five
\* words: signatures of up to eight parameters overflow each of them.
CONSTANTS
  Variants = {"A", "V", "C"}
  Params <- MCParams
  MaxParams = 8
  Named = {2, 3, 5}
  NGR = 5
  NVR = 2
  NARGS = 4
  NCAP = 5
  GBack = 5
  Losses <- MCLosses
SPECIFICATION Spec
INVARIANTS TypeOK ShownRight
CHECK_DEADLOCK FALSE
