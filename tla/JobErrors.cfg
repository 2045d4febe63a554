SPECIFICATION FairSpec
CONSTANTS
  w1 = w1
  w2 = w2
  Workers <- MCWorkers
  NumChunks = 5
  LeftStart = 2
  ResultCap = 2
  WorkerReplies = {"range", "error"}
  DirectReplies = {"range"}
  ClientLeaves = TRUE
  ClientStalls = TRUE
INVARIANTS
  TypeOK
  NoChunkLost
PROPERTIES
  StreamSpec
  Completes
