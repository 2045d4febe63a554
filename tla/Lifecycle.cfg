SPECIFICATION Spec
CONSTANTS
  Faults = {"enable", "card", "listen", "dashboard", "job"}
  MaxConns = 2
  Pages = {"page1", "page2"}
INVARIANTS
  TypeOK
PROPERTIES
  QuietWhileSaving
  OneWriter
  StopWithTraffic
  PeriodHears
  NewPageServed
