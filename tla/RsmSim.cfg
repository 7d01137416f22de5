SPECIFICATION FairSpec
CONSTANTS
  Clients = {c1}
  Workers = {w1, w2}
  None = None
INVARIANTS StopLeavesNoWorker RunIsReported OneWorker Serialized
PROPERTIES StopReturns RuntimeKeepsLifecycle CloseEndsWorkers
