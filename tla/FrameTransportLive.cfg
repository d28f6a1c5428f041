SPECIFICATION FairSpec
CONSTANTS
  Clients = {c1}
  BUFFER_LEN = 2
  Q_LEN = 1
  Pipeline = 1
  MaxFrames = 3
  MaxEpoch = 2
  MaxTicket = 2

PROPERTIES BufferComesFree OwedInTheEnd
