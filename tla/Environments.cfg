CONSTANTS
  n1 = n1
  n2 = n2
  datum = datum
  globalObject = globalObject
  withObject = withObject
  Name <- OneName
  Arguments = Arguments
  Data <- OneDatum
  Function = Function
  Undefined = Undefined
  Object <- Objects
  Global = globalObject
  Nil = Nil
  Crashed = Crashed
  Uses <- NoUses
  MaxEnvs = 4
  MaxCalls = 3
  MaxPending = 1
SPECIFICATION Spec
INVARIANTS
  TypeOK
  ScopesNest
  ReferencesHold
PROPERTIES
  CompoundLands
  StaticScoping
