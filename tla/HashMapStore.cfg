SPECIFICATION Spec
CONSTANTS
  j = j
  k = k
  l = l
  m = m
  zero = zero
  v = v
  Key <- Keys
  Value <- Values
  Zero = zero
  Hash <- HashCodes
  HASH_SIZE <- Buckets
  Spare = 1
INVARIANTS
  TypeOK
  KeysPlaced
  WalkComplete
PROPERTY
  ImplementsMap
