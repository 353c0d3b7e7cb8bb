CONSTANTS
  item1 = item1
  item2 = item2
  Datum <- OneItem
  Undefined = Undefined
  NoValue = NoValue
  AccessorPair = AccessorPair
  ThisArray = ThisArray
  MaxLength = 2
  MaxItems = 1
  MaxArguments = 2
  Width = 3
  MaxAccessors = 1
  MaxNested = 1
SPECIFICATION Spec
INVARIANTS
  TypeOK
  ReportsExceptions
