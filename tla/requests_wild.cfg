\* The member dsvdc_setup_handle leaves out, with whatever malloc() returned.
CONSTANTS
  Conns = {c1}
  NoConn = NoConn
  Requests = {r1}
  NoRequest = NoRequest
  Kinds = {"get", "set"}
  Settable = {"get", "set"}
  Threads = {t1}
  MaxSends = 0
  Sizes = {3}
  LengthModulus = 4
  Leftover = {"null", "wild"}
SPECIFICATION Spec
INVARIANT
  NoWildCall
