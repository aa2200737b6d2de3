\* Fair worker and clock; no announcement from inside dsvdc_cleanup.
CONSTANTS
  Conns = {c1, c2}
  AppCalls = {a1}
  CbCalls = {}
  MaxRequestId = 1
  MaxInbox = 1
  FrameTypes = {"hello", "notify", "empty", "response"}
  MsgTimeout = 1
  CheckInterval = 2
  NoConn = NoConn
  ReannounceInCleanup = FALSE
SPECIFICATION FairSpec
INVARIANT
  CleanupLeavesNothing
PROPERTIES
  AnnounceContractHolds
  DepartureNoticed
