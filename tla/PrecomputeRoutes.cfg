\* All 4096 directed graphs over four devices.
SPECIFICATION Spec
CONSTANTS
  devices_count = 4
  Bandwidths <- MCBandwidths
INVARIANTS
  TypeOK
  SearchIsExact
  RoutesAreShortest
PROPERTY
  AllRoutesComputed
\* The function has returned.
CHECK_DEADLOCK FALSE
