CONSTANTS
  base = base
  derived = derived
  name1 = name1
  name2 = name2
  datum = datum
  function1 = function1
  Object <- Alone
  Proto <- NoProtos
  Name <- TwoNames
  Data <- NoData
  Functions <- OneFunction
  NoObject = NoObject
  Undefined = Undefined
  Nil = Nil
  Thrown = Thrown
  Crashed = Crashed
  Hash <- HashCodes
  HASH_SIZE <- OneBucket
  Spare = 0
  Uses <- AllUses
  MaxCalls = 2
SPECIFICATION Spec
SYMMETRY NameSymmetry
CONSTRAINT LiteralAlone
INVARIANT
  StorageSound
PROPERTY
  ReadOnlyKept
CHECK_DEADLOCK FALSE
