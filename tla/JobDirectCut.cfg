SPECIFICATION FairSpec
CONSTANTS
  w1 = w1
  w2 = w2
  Workers <- MCWorkers
  NumChunks = 4
  LeftStart = 2
  ResultCap = 1
  WorkerReplies = {"range"}
  DirectReplies = {"range", "cut"}
  ClientLeaves = FALSE
  ClientStalls = FALSE
INVARIANTS
  CompleteWhenEnded
