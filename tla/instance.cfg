\* Two processes, one daemon restarted once, every call may fail once but for
\* those whose failure the code does not survive.
CONSTANTS
  Instances = {i1, i2}
  DefaultPort = 1
  MaxPort = 4
  FixedPorts = {1}
  ForeignPorts = {1}
  Names = {vdc}
  vdc = vdc
  DefaultName = default
  default = default
  NULL = NoName
  NoName = NoName
  OtherLabels <- MCOtherLabels
  MayFail = {"bind", "listen", "poll", "name", "client", "group", "txt", "add", "commit", "register"}
  MaxFaults = 1
  MaxRestarts = 1
  MaxHostChanges = 1
SPECIFICATION FairSpec
INVARIANTS
  TypeOK
  WhatIsAdvertised
  
  ReleasedNeverUsed
  NothingLeftBehind
PROPERTIES
  ServiceContractHolds
  Advertised
