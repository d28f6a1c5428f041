SPECIFICATION Spec
CONSTANTS
  Clients = {c1, c2}
  Slots = 1
  SERIAL_MOD = 64
  InitTicket = 60
  MaxTickets = 4
  MaxSession = 3
  MaxRequests = 1
  CrashPoints = {"init"}
INVARIANT SlotIntegrity
