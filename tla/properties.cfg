\* Two handles of the application, small trees, any allocation fails.
CONSTANTS
  Slots = {a, b}
  Query = Query
  Message = Message
  Stored = Stored
  New = New
  k1 = k1
  k2 = k2
  Keys = {k1}
  Kinds = {"string"}
  Messages <- MCMessages
  NULL = NULL
  WILD = WILD
  Unusable = Unusable
  MaxBlocks = 40
  MaxElements = 2
  MaxLost = 1
SPECIFICATION Spec
VIEW View
INVARIANTS
  TypeOK
  NoSharedBlock
  NoLeak
  DeadNeverUsed
PROPERTIES
  TreesAreValues
