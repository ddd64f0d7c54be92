CONSTANTS
  W = 2
  Source = {0, 1, 2, 3}
  List <- MCList
  Tree = {1, 2, 3}
  Choose <- Lowest
  MaxLoads = 2
  MayFail = {"root"}
  Reader = {r1}
  NULL = NULL
SPECIFICATION Spec
INVARIANT SuccessMeansLoaded
