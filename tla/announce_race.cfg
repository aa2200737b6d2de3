\* An answer that overtakes the bookkeeping of its request.
CONSTANTS
  Conns = {c1}
  AppCalls = {a1}
  CbCalls = {}
  MaxRequestId = 1
  MaxInbox = 1
  FrameTypes = {"hello", "response"}
  MsgTimeout = 1
  CheckInterval = 2
  NoConn = NoConn
  ReannounceInCleanup = FALSE
SPECIFICATION Spec
INVARIANT
  TimeoutMeansNoAnswer
