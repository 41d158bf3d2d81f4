CONSTANTS
  address = address
  device = device
  proxy = proxy
  k1 = k1
  k2 = k2
  k3 = k3
  Limiter = {address, device}
  Key = {proxy, k1, k2, k3}
  Requests <- MCRequests
  NoKey = NoKey
  MaximumCost = 3
  WindowMs = 2
  MaximumKeys = 2
  Costs = {1, 2}
  MaxTime = 5
  MaxStepBack = 1
SPECIFICATION Spec
SYMMETRY Symmetry
INVARIANTS
  TypeOK
  WindowRespected
CHECK_DEADLOCK FALSE
PROPERTIES
  ForgetsOnlyTheIdlest
