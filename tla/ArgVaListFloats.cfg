\* Every word is read and fits the snapshots; floats among the arguments.
CONSTANTS
  Variants = {"V"}
  Params <- MCParams
  MaxParams = 6
  Named = {3}
  NGR = 4
  NVR = 2
  NARGS = 4
  NCAP = 8
  GBack = 8
  Losses = {{}}
SPECIFICATION Spec
INVARIANT ShownPerABI
CHECK_DEADLOCK FALSE
