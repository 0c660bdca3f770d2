\* Every function of at most 4 statements over atoms, and of at most 2 over
\* short-circuit operators; of those with links as Json2Asg
\* makes them, where these are wrong, up to 5.
SPECIFICATION RunSpec
CONSTANTS
  MaxStmts = 4
  MaxOpStmts = 2
  MaxProtoStmts = 2
  MaxNested = 5
  Inputs <- MCInputs
INVARIANTS
  TypeOK
  OpenBlocksAccounted
  EveryBlockEnds
  BranchesStayInside
  PhisMatchPreds
  AllocaBeforeStore
PROPERTIES
  TerminatorsAreFinal
  NoCodeAfterEnd
  EmissionEnds
  ImplementsC
\* The process is over when the called function has returned.
CHECK_DEADLOCK FALSE
