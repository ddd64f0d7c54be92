CONSTANTS
  AddrBits = 3
  HostBits = 1
  Copies = 3
  MaxLoads = 0
  Source = {0, 6}
  Ttl = {64, 60}
  History <- MCHistory
  Node <- MCNode
  Slab <- LowestFree
  Task = {t1, t2}
  Reader = {r1}
  NULL = NULL
SPECIFICATION FailSpec
INVARIANTS TypeOK OneOwner
PROPERTIES PublishedImmutable ImplementsMap
