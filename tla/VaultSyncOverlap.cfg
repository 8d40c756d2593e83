\* A device whose callers overlap two service calls.
SPECIFICATION Spec
CONSTANTS
  d1 = d1
  d2 = d2
  s1 = s1
  Devices = {d1, d2}
  Slots = {s1, s2}
  Ids = {c1, c2}
  Vaults = {v1, v2}
  None = None
  Mode <- AllAuto
  Promises = {"all", "window", "known", "keep"}
  Faults = {}
SYMMETRY Symmetry
CONSTRAINT SerialPeer
INVARIANTS
  OverlapLosesOnlyRaced
