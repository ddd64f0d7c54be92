CONSTANTS
  AddrBits = 2
  HostBits = 1
  Copies = 3
  MaxLoads = 0
  Source = {0, 2}
  Ttl = {64}
  History <- MCHistory
  Node <- MCNode
  Slab <- LowestFree
  Task = {t1, t2}
  Reader = {r1}
  NULL = NULL
SPECIFICATION Spec
INVARIANT AnnounceReadsAllocated
