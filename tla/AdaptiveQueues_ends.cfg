SPECIFICATION AdaQSpec
CONSTANTS
  Nodes = {n1, n2}
  Root = Root
  NoKey = 99
  OrEqual = TRUE
  Keys = {0, 1, 2}
  None = None
  BucketSize = 2
  IntMax = 98
INVARIANT KeysHaveBuckets
CHECK_DEADLOCK FALSE
