CONSTANTS
  a = a
  b = b
  e1 = e1
  Labels <- LabelsOne
  Exceptions <- ExceptionsOne
  Kinds <- TryInFinalizer
  MaxDepth = 4
  Jumps = "taken"
SPECIFICATION Spec
INVARIANTS
  CatchFindsException
