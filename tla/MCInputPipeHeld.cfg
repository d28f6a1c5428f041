SPECIFICATION HeldSpec
CONSTANTS
  QUEUE_LENGTH = 2
  REPORT_QUEUE_LENGTH = 3
  PIPE_LENGTH = 1
  MaxState = 3
  MaxSequence = 3
INVARIANT HeldReleased
