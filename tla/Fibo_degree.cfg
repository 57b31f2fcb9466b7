SPECIFICATION Spec
CONSTANTS
  Nodes = {n1, n2, n3}
  Root = Root
  Keys = {0, 1, 2}
  NoKey = 99
  None = None
  UIntBits = 8
INVARIANT StaysInCons
CHECK_DEADLOCK FALSE
