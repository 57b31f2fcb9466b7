SPECIFICATION SegmentSpec
CONSTANTS
  Nodes = {n1, n2, n3, n4}
  Root = Root
  Keys = {0, 1, 2}
  NoKey = 99
  None = None
  OrEqual = FALSE
  BucketSize = 2
  UIntBits = 8
  IntMax = 98
INVARIANT SegmentsNearest
CHECK_DEADLOCK FALSE
