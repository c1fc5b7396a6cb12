SPECIFICATION Spec
CONSTANTS
  Socks = {s1}
  Cpus = {c1, c2}
  Flows = {f1}
  NoContext = NoContext
  CounterModulus = 16
  MaxProps = 2
  MaxStats = 4
  MaxBytes = 2
  MaxEvents = 0
  StartTime = 3
  MaxTime = 3
  MaxSockEntries = 2
  MaxSamplingInterval = 2
  NoTrack = 2
  MaxFlows = 2
  NatTables <- MCNoNat
SYMMETRY MCCpuSymmetry
INVARIANT InductiveInvariant
INVARIANT EvictionFindsEntries
INVARIANT BytesDoNotWrap
INVARIANT NoDoubleCounting
INVARIANT ClosedSocketFullyCounted
PROPERTY ImplementsLedger
