CONSTANTS
  AddrBits = 3
  HostBits = 1
  Copies = 3
  MaxLoads = 1
  Source = {0, 6}
  Ttl = {64}
  History <- MCHistory
  Node <- MCNode
  Slab <- LowestFree
  Task = {t1}
  Reader = {r1}
  NULL = NULL
SPECIFICATION FairSpec
INVARIANTS ReaderSafe NoLeak Inv
PROPERTIES ImplementsFairMap EveryTaskEnds EveryNodeFreed HistoryReturns
