\* Three devices, a line and a one-way cycle, two chunks.
SPECIFICATION Spec
CONSTANTS
  c1 = c1
  c2 = c2
  line = line
  cycle = cycle
  npus_count = 2
  devices_count = 3
  Chunk <- MCChunk
  TopoId <- MCTopoId
  Bandwidth <- MCBandwidth
  Latency <- MCLatency
  SetIds <- MCSetIds
  Stamped <- MCStamped
  Routes <- MCRoutes
  Size <- MCSize
  ReconfigTimes = {2}
  UninitializedTime = {0}
  UndefinedDelay = {0, 3}
  LastCall = 1
  MaxSettings = 1
  MaxIteration = 2
INVARIANTS
  TypeOK
  OnePlacePerChunk
  BusyWillBeFreed
  NothingSentAhead
  EveryLinkIsCounted
  PendingIsLookedAtAgain
  DevicesFollowManager
  ShortRoutesEndAtDestination
PROPERTIES
  DrainEnds
  EveryChunkEnds
CHECK_DEADLOCK FALSE
