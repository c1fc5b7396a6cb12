SPECIFICATION Spec
CONSTANTS
  eth0 = eth0
  eth1 = eth1
  veth = veth
  eni0 = eni0
  eni1 = eni1
  Names <- MCNames
  Enis = {eni0, eni1}
  IsVirtual <- MCIsVirtual
  Boot <- MCBoot
  Modulus = 16
  Unknown = Unknown
  MaxFaults = 1
  MaxChanges = 1
  MaxCount = 2
  Faults = {}
  HotUnplug = "any"
INVARIANT DeltasAreGrowth
