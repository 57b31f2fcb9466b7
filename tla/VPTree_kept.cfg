SPECIFICATION TreeSpec
CONSTANTS
  MaxKey = 9
  IntBits = 6
  SegCap = 2
  Junk = Junk
  Elements = {a, b}
  MaxKept = 6
  NoKey = 999
  None = None
  Header = Header
  InitialSize = 2
  Primes = {2, 3, 5}
  Names = {s, t, u}
  RealMax = 99
  Lengths = {1, 3}
  Labels = {7}
INVARIANT EveryElementKept
CHECK_DEADLOCK FALSE
