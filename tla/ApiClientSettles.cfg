\* Every failure, none of them for ever; health checks go on.
SPECIFICATION FairSpec
CONSTANTS
  a1 = a1
  e1 = e1
  e2 = e2
  k1 = k1
  k2 = k2
  Threads = {t1, t2}
  Addresses = {a1}
  Endpoints = {e1}
  Home <- OneHome
  Certs <- OneBad
  Configs <- Services
  None = None
  Ops = {"do", "raw", "probe"}
  MaxConfigs = 1
  Faults = {"slow", "alert", "drop", "save", "logout"}
PROPERTIES
  ReachabilitySettles
  RefusalLeavesFlag
