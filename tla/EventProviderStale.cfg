SPECIFICATION Spec
CONSTANTS
  Socks = {s1}
  Cpus = {c1}
  Flows = {f1}
  NoContext = NoContext
  CounterModulus = 16
  MaxProps = 2
  MaxStats = 4
  MaxBytes = 2
  MaxEvents = 0
  StartTime = 1
  MaxTime = 4
  MaxSockEntries = 2
  MaxSamplingInterval = 2
  NoTrack = 2
  MaxFlows = 2
  NatTables <- MCNoNat
INVARIANT CompletedOnce
PROPERTY LiveSocketKept
