SPECIFICATION MCSpec
CONSTANTS
  PENDING_LENGTH = 3
  PENDING_RESERVED = 1
  COALESCE = 2
  STREAM_SLOTS = 1
  MaxGeneration = 2
  SEQUENCE_MAX = 3
  MaxChanges = 1
  Length = 3
  Wrap = 14
  MaxCount = 3
  MaxDebt = 1
INVARIANTS InStep HeldAgrees RingIntact
