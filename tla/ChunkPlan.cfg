SPECIFICATION Spec
CONSTANTS
  Snapshots <- MCSnapshots
  Sizes <- MCSizes
  BestChunks <- MCBestChunks
  DefaultChunk = 5
  NumWorkers = 5
  MaxInt = 127
  MaxTasks = 20
INVARIANTS
  TypeOK
  Partition
  ChunkBounded
  WorkToShare
  DirectShare
  CutFound
