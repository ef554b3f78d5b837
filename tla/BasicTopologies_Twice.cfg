\* A ring of two NPUs is enough.
SPECIFICATION Spec
CONSTANT MaxNPUs = 3
PROPERTY ConnectedOnce
CHECK_DEADLOCK FALSE
