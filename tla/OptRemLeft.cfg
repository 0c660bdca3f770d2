\* Remainders of a constant too.
SPECIFICATION Spec
CONSTANTS
  W = 3
  Ops = {"add", "sub", "mul", "sdiv", "srem"}
  Literals = {0, 2, 7}
  Size = 1
  ChainOps = {}
  Programs <- AllPrograms
INVARIANT MeaningKept
CHECK_DEADLOCK FALSE
