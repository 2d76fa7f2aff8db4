SPECIFICATION Spec
CONSTANTS
  MaxItems = 4
  MaxObjects = 3
  Null = 0
  NoName = NoName
  NoText = NoText
  Fold <- MCFold
  Names = {"a"}
  MaxOwned = 1
  MaxTraversed = 1
  OneSpelling = {"a"}
  Indices = {0, 1}
  ShiftCached = FALSE
  AddMissed = FALSE
  Docs <- MCDocs
INVARIANTS ListsLinked Coherent KeysFresh
PROPERTY OneEdit
VIEW View
