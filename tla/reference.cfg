\* Two processes, three scenes saved, every failure but a record without value.
CONSTANTS
  Processes = {p1, p2}
  Nobody = Nobody
  Calls <- MCCalls
  Saves <- MCSaves
  OutputValues = {1}
  MIN_VALUE = 0
  MAX_VALUE = 2
  DEC_STEP = 2
  INC_STEP = 2
  NoMessage = NoMessage
  Unset = Unset
  Empty = Empty
  MayFail = {"open", "new", "property", "store", "fetch"}
SPECIFICATION FairSpec
INVARIANTS
  TypeOK
  LightInRange
PROPERTIES
  SceneTableHolds
  Stops
