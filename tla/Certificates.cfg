SPECIFICATION Spec
CONSTANTS
  Handshakes = {1, 2}
  MaxKills = 2
  MaxTime = 2
INVARIANTS
  TypeOK
  PairMatches
  TrustedSigns
  UsableUnlessBroken
