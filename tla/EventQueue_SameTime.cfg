\* Two events are enough: the callback of the first asks for the second at the
\* current time.
SPECIFICATION Spec
CONSTANTS
  Horizon = 2
  MaxEvents = 3
PROPERTY
  ProceedLeavesNoneAtCurrentTime
CHECK_DEADLOCK FALSE
