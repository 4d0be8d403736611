SPECIFICATION MCSpec
CONSTANTS
  o1 = o1
  o2 = o2
  c1 = c1
  c2 = c2
  i1 = i1
  r1 = r1
  NoOp = NoOp
  NoInput = NoInput
  Ops <- MCOps
  Calls <- MCCalls
  Inputs <- OneInput
  Resources <- OneResource
  MaxFaults = 2
  peerIdentity = input
  MaxPeerCalls = 3
  MaxPeerFaults = 3
  BufItems <- TwoItems
  MaxBufOwners = 2
  MaxBatches = 2
  MaxBufScopes = 2
  MaxBufFaults = 2
  steerMessage = message
  MaxSteerCalls = 3
  MaxSteerFaults = 3
SYMMETRY Symmetry
INVARIANTS ToldIsDurable HandoffIsExclusive CreateIsRecorded BufKept
PROPERTIES WritesAtMostOnce PeerHandoff SteerPromise
CHECK_DEADLOCK FALSE
