\* A host that may be silent, two workers, two places for answers; a deadline at any
\* time or never.  Subnets: every address and mask of 6 bits.
SPECIFICATION FairSpec
CONSTANTS
  h1 = h1
  h2 = h2
  h3 = h3
  Hosts <- Overlapping
  Workers = 2
  Cap = 2
  Keys = {k1, k2}
  MaySilent = {h1}
  None = None
  Width = 6
  ScanBits = 4
INVARIANTS
  TypeOK
  NoWorkerAfterClose
  EarlyResultComplete
  HostsExact
PROPERTIES
  Terminates
  EveryHostAsked
  EndsEarly
