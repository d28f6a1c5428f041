SPECIFICATION MCSpec
CONSTANTS
  Clients = {c0}
  BUFFER_LEN = 3
  Q_LEN = 2
  Pipeline = 2
  MaxFrames = 3
  MaxEpoch = 1
  MaxTicket = 1
  OwnerClients = {c1, c2}
  OwnerTickets = 2
SYMMETRY ClientSymmetry
INVARIANTS PostedFrameStays ReadyIsNewest MessagesAccounted OwedIsServed
