\* Three chunks through a switch with three NPUs, sent at any time up to 1 ns.
SPECIFICATION SpecH
CONSTANTS
  c1 = c1
  c2 = c2
  c3 = c3
  Chunk <- MCChunk
  Link <- MCSwitchLink
  Routes <- MCSwitchRoutes
  Size <- MCSize
  Bandwidth <- MCBandwidth
  Latency <- MCLatency
  Resolution = 2
  LastSend = 1
INVARIANTS
  ServedInOrder
  WorkConserving
  OvertakesByRounding
PROPERTY
  ImplementsDelivery
\* The simulation is over once the queue is empty.
CHECK_DEADLOCK FALSE
