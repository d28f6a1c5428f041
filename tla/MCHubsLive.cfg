SPECIFICATION MCSpec
CONSTANTS
  l1 = l1
  s1 = s1
  Sinks = {s1}
  Lanes = {l1}
  NBatches = 2
  SinkKinds = {{"READY", "PENDING"}}
  MaxEpoch = 2
  MaxSerial = 2
  MaxContent = 1
  Backends = {1}
  Clients = {1}
  Generations = {1}
  MAX_SOURCES = 1
  Services = {"frame", "control"}
INVARIANTS BatchKeepsToItsSink SyncReaches UsedWhileLive
PROPERTIES UnbindReturns VanishedOwnerLeaves LifecycleReturns StopReturns
