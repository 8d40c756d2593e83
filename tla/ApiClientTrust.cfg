\* Two goroutines, one address, two keys, three configurations.
SPECIFICATION Spec
CONSTANTS
  a1 = a1
  e1 = e1
  e2 = e2
  k1 = k1
  k2 = k2
  Threads = {t1, t2}
  Addresses = {a1}
  Endpoints = {e1, e2}
  Home <- OneHome
  Certs <- Good
  Configs <- Callers
  None = None
  Ops = {"public"}
  MaxConfigs = 2
  Faults = {}
CONSTRAINT PublicOnly
SYMMETRY Symmetry
INVARIANTS
  TypeOK
  CacheMatchesConfig
  OneClientPerConfig
  AnsweredUnderCurrentTrust
  AnsweredKeyReported
