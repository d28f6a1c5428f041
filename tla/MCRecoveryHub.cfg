SPECIFICATION FairSpec
CONSTANTS
  Backends = {1}
  Epochs = {1}
  Clients = {1, 2}
  Tags = {1, 2}
  MAX_EPOCHS = 1
  MAX_REQUESTS = 2
  SERIAL_MOD = 4
  MaxOperation = 2
  MaxSequence = 2
  MaxSession = 2
INVARIANTS TypeOK WaitersHaveOperation OneRequestPerSource KnownIsLatest DeliveryOrder HonestResult
PROPERTY RequestsLeave
