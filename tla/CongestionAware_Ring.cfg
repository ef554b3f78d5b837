\* Three chunks on a ring of three devices, sent at any time up to 2 ns.
SPECIFICATION Spec
CONSTANTS
  c1 = c1
  c2 = c2
  c3 = c3
  Chunk <- MCChunk
  Link <- MCRingLink
  Routes <- MCRingRoutes
  Size <- MCSize
  Bandwidth <- MCBandwidth
  Latency <- MCLatency
  Resolution = 1
  LastSend = 2
INVARIANTS
  TypeOK
  CalendarOK
  BusyUntilFreed
  PendingOnlyBehindBusy
  OnePlacePerChunk
  CallbackOnceAtDestination
  NothingStranded
PROPERTY
  EveryChunkDelivered
\* The simulation is over once the queue is empty.
CHECK_DEADLOCK FALSE
