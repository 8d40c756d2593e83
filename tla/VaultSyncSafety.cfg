\* Every failure, crashes included; two edits.
SPECIFICATION Spec
CONSTANTS
  d1 = d1
  d2 = d2
  s1 = s1
  Devices = {d1, d2}
  Slots = {s1}
  Ids = {c1, c2}
  Vaults = {v1, v2}
  None = None
  Mode <- MixedModes
  Promises = {"all", "window", "known", "keep"}
  Faults = {"net", "local", "crash"}
SYMMETRY Symmetry
INVARIANTS
  TypeOK
  NothingUnsentBehindCursor
  NothingUnseenBehindCursor
  BlobBeforeCursor
  AutoEditAcked
  PendingCreatesUploadable
PROPERTIES
  ManualCheckSound
  Replicates
