SPECIFICATION Spec
CONSTANTS
  Product = {p1, p2}
  MaxInFlight = 2
  MaxEdits = 1
PROPERTY FullListStops
CHECK_DEADLOCK FALSE
