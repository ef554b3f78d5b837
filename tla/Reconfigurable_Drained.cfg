\* Three devices, two chunks; the program gives no chunk an iteration itself.
SPECIFICATION Spec
CONSTANTS
  c1 = c1
  c2 = c2
  line = line
  cycle = cycle
  npus_count = 3
  devices_count = 3
  Chunk <- MCChunk
  TopoId <- MCTopoId
  Bandwidth <- MCBandwidth
  Latency <- MCLatency
  SetIds <- MCSetIds
  Stamped = {}
  Routes <- MCRoutes
  Size <- MCSize
  ReconfigTimes = {2}
  UninitializedTime = {0}
  UndefinedDelay = {0}
  LastCall = 2
  MaxSettings = 0
  MaxIteration = 2
PROPERTY ReconfiguredLinksAreFree
CHECK_DEADLOCK FALSE
