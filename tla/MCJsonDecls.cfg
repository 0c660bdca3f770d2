\* Types of up to three derivations; initialisers with and without inner braces.
CONSTANTS
  Blocks <- MCLegalBlocks
  Ids <- MCIds
SPECIFICATION Spec
CHECK_DEADLOCK FALSE
INVARIANT TypesReadBack
INVARIANT MemoryAsInC
