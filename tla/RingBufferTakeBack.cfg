SPECIFICATION RingSpec
CONSTANTS
  Length = 3
  Wrap = 12
  MaxCount = 3
  MaxDebt = 1
INVARIANT RingThreadSafe
