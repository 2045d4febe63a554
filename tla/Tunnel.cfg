SPECIFICATION Spec
CONSTANTS
  Names = {"site", "other"}
  Listed <- MCListed
  Loaded = TRUE
  MaxUnits = 3
  NetworkFails = TRUE
INVARIANTS
  TypeOK
  NoTruncation
  NothingLeftOpen
PROPERTIES
  TunnelEnds
