SPECIFICATION MCSpec
CONSTANTS
  NumEvents = 3
  Period <- MCPeriod
  Jitter <- MCJitter
  Delay <- MCDelay
  Fragment = 2
  BootTimes = {0, 1, 9}
  SafeUptime = 2
  MaxWork = 1
  MaxOversleep = 1
  f1 = f1
  c1 = c1
  c2 = c2
  NoHandle = NoHandle
  NoClient = NoClient
  web = web
  hostA = hostA
  svc = svc
  ip1 = ip1
  ip2 = ip2
  NoInfo = NoInfo
  t1 = t1
  t2 = t2
  t3 = t3
  p1 = p1
  p2 = p2
  NoPort = NoPort
PROPERTIES
  MainLoopGoesOn
  ServerStops
  PodsBecomeKnown
  ClientsFinish
CHECK_DEADLOCK FALSE
