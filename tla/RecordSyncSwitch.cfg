\* Two vaults, one edit, two calls at a time on one device; every failure.
SPECIFICATION Spec
CONSTANTS
  d1 = d1
  d2 = d2
  v1 = v1
  c1 = c1
  c2 = c2
  Devices = {d1, d2}
  Slots = {s1, s2}
  Ids = {c1}
  Vaults = {v1, v2}
  None = None
  Creator <- OnePerVault
  Mode <- MixedModes
  Careful = {}
  Promises = {"window", "once"}
  Faults = {"net", "local", "crash"}
SYMMETRY Symmetry
CONSTRAINT OneOverlaps
INVARIANTS
  RecordsStayInVault
