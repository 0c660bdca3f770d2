\* Expressions of one and two operators over shared types, and initialisers.
CONSTANT Programs <- MCPrograms
SPECIFICATION T2Spec
CHECK_DEADLOCK FALSE
INVARIANT TypedAsInC
INVARIANT InitsLandAsInC
INVARIANT RejectsRightly
INVARIANT JsonAsClang
