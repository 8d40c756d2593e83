\* A local and two remote sources, three passwords, every failure.
SPECIFICATION Spec
CONSTANTS
  Sources = {1, 2, 3}
  Local = 2
  Passwords = {p1, p2, p3}
  Faults = {"fail", "crash"}
  None = None
SYMMETRY Symmetry
INVARIANTS
  TypeOK
  OnePassword
  LocalListed
