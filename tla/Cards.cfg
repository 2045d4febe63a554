SPECIFICATION Spec
CONSTANTS
  nic1 = nic1
  nic2 = nic2
  Cards = {nic1, nic2}
  NoCard = none
  Loads <- MCLoads
  Readers = {1, 2}
  MinBytes = 2
  MaxBytes = 2
  MinSamples = 3
  Measured <- MCMeasured
  NetworkFails = TRUE
INVARIANTS
  TypeOK
  BestChunkLarge
  CompleteWhenStopped
  SharesUsable
  SpareCardServes
  StandardInRange
PROPERTIES
  StartUpEnds
