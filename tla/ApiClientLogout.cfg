\* The token is cleared while a request is being prepared.
SPECIFICATION Spec
CONSTANTS
  a1 = a1
  e1 = e1
  e2 = e2
  k1 = k1
  k2 = k2
  Threads = {t1}
  Addresses = {a1}
  Endpoints = {e1}
  Home <- OneHome
  Certs <- Good
  Configs <- Services
  None = None
  Ops = {"do", "public", "raw", "probe"}
  MaxConfigs = 1
  Faults = {"logout"}
SYMMETRY Symmetry
INVARIANTS
  SentWithToken
