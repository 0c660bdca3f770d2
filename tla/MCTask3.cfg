SPECIFICATION TaskSpec
CONSTANTS
  MaxStmts = 4
  MaxNested = 5
  SmallStmts = 2
  Docs <- MCDocs
INVARIANTS
  JumpsLinkInward
  ReturnsLinkUnlessPrototype
  VerifierAccepts
PROPERTY Task3Ends
\* The process is over when the walk is.
CHECK_DEADLOCK FALSE
