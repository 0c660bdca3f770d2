\* Two instructions of the operators that EmitIR emits, and three where one
\* replacement may use another.
SPECIFICATION Spec
CONSTANTS
  W = 3
  Ops = {"add", "sub", "mul", "sdiv", "srem"}
  Literals = {0, 2, 7}
  Size = 2
  ChainOps = {"mul", "srem"}
  Programs <- RemsByConstants
INVARIANTS MeaningKept DefsDominate FoldingComplete
CHECK_DEADLOCK FALSE
