SPECIFICATION Spec
CHECK_DEADLOCK FALSE
CONSTANTS
  Identifiers = {"x", "y", "f"}
  Constants = {"1"}
  StringLiterals = {}
  Programs <- MCPrograms
  Text <- StmtText
  FewOps = {"=", "?:", "<", "-", "*", "cast", "p-", "()"}
INVARIANT ReadsAsC
