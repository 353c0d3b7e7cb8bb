CONSTANTS
  a = a
  b = b
  e1 = e1
  Labels <- LabelsTwo
  Exceptions <- ExceptionsOne
  Kinds <- NoFinalizer
  MaxDepth = 5
  Jumps = "taken"
SPECIFICATION Spec
INVARIANTS
  StartsNormal
  ExceptionPending
