SPECIFICATION MCSpec
CONSTANTS
  Clients = {c1, c2}
  Slots = 2
  SERIAL_MOD = 64
  InitTicket = 60
  MaxTickets = 4
  MaxSession = 3
  MaxRequests = 1
  CrashPoints = {"publish", "init"}
INVARIANTS SlotIntegrityKept AckBeforeReclaim NotOutranked ModeSurvivesRestart
PROPERTY AckMovesForward
SYMMETRY ClientSymmetry
