CONSTANTS
  Width = 8
  Precision = 2
  LeastExponent <- LeastPlainExponent
  ObjectIds <- AllObjects
  NoObjectId <- Nobody
  ValueOfGives <- ValueOfs
  ToStringGives <- ToStrings
  DateIds <- Dates
  FunctionIds <- Callables
  WrapperProto <- Wrappers
  ProtoOf <- Protos
  PrototypeProperty <- PrototypeProperties
  OwnNames <- NamesOwned
  Operands <- AllOperands
  MaxDigits = 3
  Parts <- SomeParts
  Keys <- SomeKeys
  MaxParts = 2
  GetGives <- Reads
  PutGives <- Writes
  CallGives <- Runs
SPECIFICATION ExpressionSpec
INVARIANTS
  EqualityAsES5
  OperatorsAsES5
  ConversionOrder
  RepresentationIrrelevant
  IndexNames
  ExpressionsAsES5
  EventsInOrder
