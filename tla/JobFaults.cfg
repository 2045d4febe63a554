SPECIFICATION FairSpec
CONSTANTS
  w1 = w1
  w2 = w2
  Workers <- MCWorkers
  NumChunks = 4
  LeftStart = 2
  ResultCap = 1
  WorkerReplies = {"range", "other", "error", "nolength"}
  DirectReplies = {"range", "other", "cut", "error"}
  ClientLeaves = TRUE
  ClientStalls = TRUE
INVARIANTS
  WriterExclusion
  LeftOrder
  NobodyStuck
PROPERTIES
  JobReturns
