SPECIFICATION Spec
CONSTANTS
  c1 = c1
  c2 = c2
  line = line
  cycle = cycle
  npus_count = 2
  devices_count = 4
  Chunk <- MCChunk
  TopoId <- MCTopoId
  Bandwidth <- MCBandwidth
  Latency <- MCLatency
  SetIds <- MCSetIds
  Stamped <- MCStamped
  Routes <- MCRoutes
  Size <- MCSize
  ReconfigTimes = {2}
  UninitializedTime = {0}
  UndefinedDelay = {0}
  LastCall = 1
  MaxSettings = 0
  MaxIteration = 1
INVARIANT CallbackAtDestination
CHECK_DEADLOCK FALSE
