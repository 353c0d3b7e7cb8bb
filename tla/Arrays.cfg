CONSTANTS
  item1 = item1
  item2 = item2
  Datum <- TwoItems
  Undefined = Undefined
  NoValue = NoValue
  AccessorPair = AccessorPair
  ThisArray = ThisArray
  MaxLength = 3
  MaxItems = 2
  MaxArguments = 2
  Width = 3
  MaxAccessors = 0
  MaxNested = 1
SPECIFICATION Spec
INVARIANTS
  ElementsBelowLength
PROPERTY
  ImplementsContract
