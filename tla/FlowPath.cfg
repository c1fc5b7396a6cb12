SPECIFICATION Spec
SYMMETRY Symmetry
CONSTANTS
  MaxU32 = 7
  MaxU64 = 10
  a = a
  p = p
  service = service
  b1 = b1
  b2 = b2
  node = node
  v6 = v6
  Unparsable = Unparsable
  None = None
  Messages <- MCMessages
  VpcIps <- MCVpcIps
  SOCKET_RX_BUF = 1
  MaxDrain = 2
  Ips <- MCIps
  Ipv6s <- MCIpv6s
  Socks = {1, 2, 3}
  Context <- MCContext
  Connection <- MCConnection
  c1 = c1
  c2 = c2
  Stats <- MCStats
  MaxItems = 2
  MaxLen = 3
  Flows = {f1, f2}
  top_k = 1
  log_reports = TRUE
  MaxBytes = 2
  MaxLossEvents = 1
  MaxReports = 2
  Usages = {1, 2}
  f1 = f1
  f2 = f2
  e1 = e1
  Idle = Idle
INVARIANTS
  FindsOwnConnection
  MeasuredOnce
  FlowsNameTheirSockets
  KeepsWorstFlows
  ReportsAreHonest
  NumbersArrive
PROPERTIES
  DrainReturnsNat
  ImplementsNatTable
CHECK_DEADLOCK FALSE
