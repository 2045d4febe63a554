SPECIFICATION Spec
CONSTANTS
  Snapshots <- MCStartSnapshots
  Sizes <- MCSizes
  BestChunks <- MCBestChunks
  DefaultChunk = 5
  NumWorkers = 5
  MaxInt = 127
  MaxTasks = 20
INVARIANT WithinFile
