CONSTANTS
  base = base
  derived = derived
  name1 = name1
  name2 = name2
  datum = datum
  function1 = function1
  Object <- Pair
  Proto <- Protos
  Name <- TwoNames
  Data <- OneDatum
  Functions <- OneFunction
  NoObject = NoObject
  Undefined = Undefined
  Nil = Nil
  Thrown = Thrown
  Crashed = Crashed
  Hash <- HashCodes
  HASH_SIZE <- OneBucket
  Spare = 0
  Uses <- NoUses
  MaxCalls = 1
SPECIFICATION Spec
INVARIANTS
  TypeOK
  ExceptionsMatch
PROPERTIES
  ReadOnlyKept
  ImplementsPropertyModel
SYMMETRY NameSymmetry
CONSTRAINT Collisions
