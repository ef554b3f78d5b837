\* Every shape with two to seven NPUs, every pair of NPUs.
SPECIFICATION Spec
CONSTANT MaxNPUs = 7
INVARIANTS
  TypeOK
  RoutesAreShortestPaths
  BackendsAgreeOnHops
  MeshIsComplete
CHECK_DEADLOCK FALSE
