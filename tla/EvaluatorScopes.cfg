CONSTANTS
  a = a
  b = b
  e1 = e1
  Labels <- LabelsOne
  Exceptions <- ExceptionsOne
  Kinds <- EveryKind
  MaxDepth = 4
  Jumps = "any"
SPECIFICATION Spec
INVARIANTS
  TypeOK
  ScopeDiscipline
PROPERTIES
  FinalizerAlwaysRuns
