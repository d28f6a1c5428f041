SPECIFICATION MCSpec
CONSTANTS
  l1 = l1
  l2 = l2
  s1 = s1
  Sinks = {s1}
  Lanes = {l1, l2}
  NBatches = 2
  SinkKinds = {{"READY", "PENDING", "REJECTED"}, {"READY", "REJECTED"}}
  MaxEpoch = 1
  MaxSerial = 3
  MaxContent = 3
  Viewers = {1}
  QueueLen = 2
  ShapeBuffers = 1
  MaxUpdates = 2
INVARIANTS BufferEndsOnce LanesAccounted NothingForgotten RemovedIsQuiet
PROPERTY PartialFollowsReady
SYMMETRY LaneSymmetry
