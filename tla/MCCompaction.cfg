\* Up to four entries, short or long, and one root of the summary tree, without a
\* window or with one the fourth entry breaks.
SPECIFICATION FairSpec
CONSTANTS
  MaxEntries = 4
  MaxSwitches = 1
  Texts = {1, 5}
  Windows = {0, 12}
  Reserve = 2
  Overhead = 1
  Keep = 1
  MaxRoots = 1
  FanIn = 2
  InventoryLine = 1
  NodeHeader = 1
  FoldHeader = 2
  Reduced = 2
  OmitMin = 1
  NodeLimit = 1
  CallCost = 1
  Marker = 1
  Line = 1
INVARIANTS
  NothingLost
  FitsOrExhausted
PROPERTIES
  PlanEnds
\* The session is as long as it may get.
CHECK_DEADLOCK FALSE
