CONSTANTS
  MayFail = {"state", "family", "bg", "bg_mem", "bg_tree", "hcf", "hcf_mem", "hcf_wq", "hcf_tree", "log", "ring", "log_wq", "rpage", "dev", "filter_ops", "learn_ops"}
  UnregisterWaits = {TRUE, FALSE}
  MaxQueued = 1
SPECIFICATION FairSpec
INVARIANTS TypeOK OrderIsSafe FlushKeepsRing CleanEnd
PROPERTY EntryPointsReturn
CHECK_DEADLOCK FALSE
