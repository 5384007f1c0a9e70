SPECIFICATION Spec
CONSTANTS
  House = {h1, h2, h3, h4}
INVARIANTS
  TypeOK
  ListIsWhatArrived
  FailuresAreHeard
PROPERTIES
  DeliversOnce
  CallEnds
CHECK_DEADLOCK FALSE
