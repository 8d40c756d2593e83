\* Failed and lost requests and crashes; one vault, two edits.
SPECIFICATION FairSpec
CONSTANTS
  d1 = d1
  d2 = d2
  v1 = v1
  c1 = c1
  c2 = c2
  Devices = {d1, d2}
  Slots = {s1}
  Ids = {c1, c2}
  Vaults = {v1}
  None = None
  Creator <- AllByFirst
  Mode <- MixedModes
  Careful = {d1, d2}
  Promises = {"window", "once"}
  Faults = {"net", "crash"}
CONSTRAINT InOrder
INVARIANTS
  TypeOK
  NothingSkipped
  CausalOrder
  AutoEditAcked
PROPERTIES
  ManualCheckSound
  Replicates
  Converges
