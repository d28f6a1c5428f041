SPECIFICATION MCSpec
CONSTANTS
  Backends = {1, 2}
  Clients = {1, 2}
  Generations = {1}
  MAX_SOURCES = 2
  MaxEpoch = 2
INVARIANTS DevicesFollowOwner OwnerIsServed OneHolder
