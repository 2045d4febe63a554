SPECIFICATION Spec
CONSTANTS
  Names = {"site", "other"}
  Listed <- MCListed
  Loaded = TRUE
  MaxUnits = 2
  NetworkFails = FALSE
INVARIANTS
  RequestForwarded
