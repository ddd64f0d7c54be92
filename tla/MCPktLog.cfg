CONSTANTS
  TS_SHIFT = 2
  AbsBits = 5
  Threshold = 3
  PageSize = 72
  RingPages = 2
  MsgRooms = {72, 80, 216}
  MayFail = TRUE
  TimeOf <- MCTimeOf
  Forced = {5}
SPECIFICATION FairSpec
INVARIANTS TypeOK SentInOrder StampsRight EachEventOnce
PROPERTY EventuallyFlushed
