\* Two callers, one source; every failure.
SPECIFICATION Spec
CONSTANTS
  Callers = {c1, c2}
  Pollers = {c2}
  Sources = {i1}
  Addrs = {a1}
  Keys = {k1, k2}
  Groups = {g1}
  None = None
  Faults = {"store", "groups", "net", "open", "crash"}
  MaxAbuse = 1
CONSTRAINT FewAbuses
SYMMETRY Symmetry
INVARIANTS
  TypeOK
  PinKept
  GroupKeyWhole
  GroupSynced
  NoOrphans
