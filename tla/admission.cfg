SPECIFICATION Spec
CONSTANTS
  Workers <- MCWorkers
  r1 = r1
  r2 = r2
  r3 = r3
  r4 = r4
  p1 = p1
  p2 = p2
  Requests <- MCRequests
  Peers = {p1, p2}
  PeerOf <- MCPeerOf
  MaxConcurrency = 1
  RequestsPerMinute = 2
  Window = 2
  LeaseTime = 3
  RequestTime = 2
  Backends = {"local", "redis"}
  MaxNow = 4
  w1 = w1
  w2 = w2
INVARIANTS
  SlotsAccounted
  LimitsEnforced
PROPERTY
  AdmissionPromiseSpec
CHECK_DEADLOCK FALSE
SYMMETRY MCSymmetry
