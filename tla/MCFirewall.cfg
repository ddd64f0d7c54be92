CONSTANTS
  AddrBits = 2
  HostBits = 1
  Source = {0, 2}
  Ttl = {64, 60}
  List <- MCList
  History <- MCHistory
  Cpu = {c1}
  Task = {t1}
  NULL = NULL
SPECIFICATION FairSpec
INVARIANTS TypeOK PassJustified DropJustified
PROPERTY LearningEnds
