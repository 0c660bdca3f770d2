SPECIFICATION TaskSpec
CONSTANTS
  MaxStmts = 4
  MaxNested = 0
  SmallStmts = 0
  Docs <- MCDocs
INVARIANT JumpsLinkEnclosingLoop
\* The process is over when the walk is.
CHECK_DEADLOCK FALSE
