\* Functions with one variable and up to three commands in a block, and with two, over
\* graphs with joins, loops, double edges and blocks that nothing reaches; allocas are
\* chosen by what the header says.  The pass stops when it is done.
SPECIFICATION Spec
CONSTANTS
  Shapes = {"line", "if", "both", "diamond", "while", "do", "break", "dead", "dead entry", "dead loop"}
  Graphs <- AllShapes
  CodeOf <- CodeOfGraph
  AsDocumented = TRUE
  PathLength = 5
INVARIANTS MeaningKept SSAWellFormed LookupAgrees 
PROPERTY PassEnds
CHECK_DEADLOCK FALSE
