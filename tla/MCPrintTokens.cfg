\* Every lexeme, and line markers, spaces and newlines in any order.
CONSTANT Files <- MCFiles
SPECIFICATION Spec
INVARIANT PrintedAsClang
\* The process is over when all is printed.
CHECK_DEADLOCK FALSE
