CONSTANTS
  a = a
  b = b
  e1 = e1
  Labels <- LabelsTwo
  Exceptions <- ExceptionsOne
  Kinds <- JumpKinds
  MaxDepth = 5
  Jumps = "taken"
SPECIFICATION FairSpec
PROPERTIES
  ImplementsStructuredControl
  DestinationKept
  JumpsLand
