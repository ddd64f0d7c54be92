CONSTANTS
  TS_SHIFT = 2
  AbsBits = 5
  Threshold = 3
  PageSize = 96
  RingPages = 2
  MsgRooms = {288}
  MayFail = FALSE
  TimeOf <- MCTimeOf
  Forced = {}
  QueueCap = 2
  Port = 20480
SPECIFICATION ViewSpec
INVARIANT EveryEventShown
