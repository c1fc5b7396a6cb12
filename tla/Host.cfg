SPECIFICATION Spec
CONSTANTS
  eth0 = eth0
  eth1 = eth1
  veth = veth
  eni0 = eni0
  eni1 = eni1
  Unknown = Unknown
  web = web
  hostA = hostA
  hostB = hostB
  hostC = hostC
  svc = svc
  ip1 = ip1
  ip2 = ip2
  NoInfo = NoInfo
  pod1 = pod1
  pod2 = pod2
  con1 = con1
  con2 = con2
  Idle = Idle
  MAX_ENTRIES_SK_PROPS_LO = 2
  MAX_ENTRIES_SK_PROPS_HI = 5
  SK_STATS_TO_PROPS_RATIO = 3
  divisor = 4
  MaxMemory = 14
  NSEC_PER_SEC = 3
  num_cpus = 2
  MaxTime = 8
  Enis = {eni0, eni1}
  AtStart = {eni0}
  MaxCount = 3
  MaxChanges = 2
INVARIANTS
  StartsWholeOrNot
  DecidesMembership
  UsageIsExact
  GaugesAreTraffic
  VerdictIsRight
PROPERTIES
  DeltasAreGrowth
  ReadersAreIndependent
  LabelsFollowCluster
CHECK_DEADLOCK FALSE
