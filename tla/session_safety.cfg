\* Two connections, one announcement by a thread and one by a callback.
CONSTANTS
  Conns = {c1, c2}
  AppCalls = {a1}
  CbCalls = {k1}
  MaxRequestId = 2
  MaxInbox = 1
  FrameTypes = {"hello", "bye", "ignored", "response"}
  MsgTimeout = 1
  CheckInterval = 2
  NoConn = NoConn
  ReannounceInCleanup = TRUE
SPECIFICATION Spec
SYMMETRY Symmetry
INVARIANTS
  TypeOK
  SessionOfItsConnection
  MutexReleased
  NoLeakedConnection
  ExactlyOneCallback
  AnswerBelongsToCall
  RequestsOfThisConnection
  GivenUpOnlyIfUnanswered
PROPERTIES
  SessionContractHolds
  TimeoutIsGenuine
