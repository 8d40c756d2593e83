\* The program stops at any step; the daemon's answer lists only what is new.
SPECIFICATION FairSpec
CONSTANTS
  d1 = d1
  d2 = d2
  s1 = s1
  Devices = {d1, d2}
  Slots = {s1}
  Ids = {c1, c2}
  Vaults = {v1}
  None = None
  Mode <- AllAuto
  Promises = {"all", "window", "keep"}
  Faults = {"crash"}
PROPERTIES
  Converges
