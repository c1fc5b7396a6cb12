SPECIFICATION Spec
CONSTANTS
  Socks = {s1, s2}
  Cpus = {c1}
  Flows = {f1, f2}
  NoContext = NoContext
  CounterModulus = 16
  MaxProps = 1
  MaxStats = 1
  MaxBytes = 1
  MaxEvents = 0
  StartTime = 3
  MaxTime = 3
  MaxSockEntries = 1
  MaxSamplingInterval = 2
  NoTrack = 2
  MaxFlows = 1
  NatTables <- MCNoNat
SYMMETRY MCSockFlowSymmetry
INVARIANT ClosedSocketFullyCounted
PROPERTY ContextFreedOnceCached
