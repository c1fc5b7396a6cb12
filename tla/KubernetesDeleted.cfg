SPECIFICATION Spec
CONSTANTS
  web = web
  hostA = hostA
  svc = svc
  ip1 = ip1
  ip2 = ip2
  NoInfo = NoInfo
  TcpPorts <- MCTcpPorts
  Services = {svc}
  ServicePort <- MCServicePort
  Pods = {web, hostA}
  IpOf <- MCIpOf
  NameOf <- MCNameOf
  Flows = {}
  Deletes = TRUE
  Shrinks = TRUE
  MaxChanges = 3
  MaxBreaks = 0
  MaxReports = 0
INVARIANT GoneWhenDeleted
CHECK_DEADLOCK FALSE
