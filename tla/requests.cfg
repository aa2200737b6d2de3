\* Two requests of any kind, a connection and its successor, a thread.
CONSTANTS
  Conns = {c1, c2}
  NoConn = NoConn
  Requests = {r1, r2}
  NoRequest = NoRequest
  Kinds = {"hello", "get", "set", "remove", "ping", "selfping", "notify", "bye"}
  Settable = {"get", "set"}
  Threads = {t1}
  MaxSends = 1
  Sizes = {3}
  LengthModulus = 4
  Leftover = {"null", "wild"}
SPECIFICATION Spec
SYMMETRY Symmetry
INVARIANTS
  TypeOK
  FramesWhole
  SingleAnswer
  NotificationsUnanswered
  LockDiscipline
PROPERTIES
  ConnectionStable
