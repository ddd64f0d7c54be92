CONSTANTS
  Base = 2
  Bytes = 2
  HostAddrs = 2
  Packets <- MCPackets
  Garbage <- MCGarbage
  QueueCap = 1
  RowsSize = 92
  ListSizes = {64, 76}
  Prefix = {"p", "q"}
  Files <- MCFiles
  MaxLearn = 3
  MaxReload = 1
SPECIFICATION FairSpec
INVARIANTS TypeOK KnownOrLost RestoredWasLearned BogonExact
PROPERTIES HistoryWhole EveryAnnouncementEnds
