\* Five events at times 0..3: every insertion point (before, between, after and
\* into an existing list) occurs, from inside callbacks and between proceeds.
SPECIFICATION Spec
CONSTANTS
  Horizon = 3
  MaxEvents = 5
INVARIANTS
  TypeOK
  QueueWellFormed
PROPERTIES
  ImplementsCalendar
  ClockMovesForward
  EveryEventRuns
\* The simulation is over once the queue is empty and nothing more is scheduled.
CHECK_DEADLOCK FALSE
