\* The Avahi daemon stops, and is still down when the worker notices.
CONSTANTS
  Instances = {i1}
  DefaultPort = 1
  MaxPort = 3
  FixedPorts = {}
  ForeignPorts = {}
  Names = {vdc}
  vdc = vdc
  DefaultName = default
  default = default
  NULL = NoName
  NoName = NoName
  OtherLabels = {}
  MayFail = {"outage"}
  MaxFaults = 0
  MaxRestarts = 1
  MaxHostChanges = 0
SPECIFICATION Spec
INVARIANT
  ReleasedNeverUsed
