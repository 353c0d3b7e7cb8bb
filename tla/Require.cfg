CONSTANTS
  fileA = fileA
  fileB = fileB
  fileC = fileC
  constructorName = constructorName
  Ids <- FilesAndName
  Inherited <- NameOnly
  MaxEntries = 5
SYMMETRY FileSymmetry
SPECIFICATION Spec
INVARIANTS
  LoadedOnce
  EntryStillThere
  AnswersLive
  DeadExportsInside
PROPERTY
  CompleteForEver
