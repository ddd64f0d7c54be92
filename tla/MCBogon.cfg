CONSTANTS
  W = 2
  Source = {0, 1, 2, 3}
  List <- MCList
  Tree = {1, 2, 3}
  Choose <- Lowest
  MaxLoads = 2
  MayFail = {"buffer", "tree", "root", "node"}
  Reader = {r1, r2}
  NULL = NULL
SPECIFICATION FairSpec
INVARIANTS TypeOK ReaderSafe LookupCorrect PublishedWhole NoLeak Inv
PROPERTIES ImplementsList EveryLoadEnds EveryTreeFreed
