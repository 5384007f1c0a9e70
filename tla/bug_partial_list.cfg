SPECIFICATION Spec
CONSTANTS
  House = {h1, h2, h3, h4}
INVARIANT ListIsWhole
CHECK_DEADLOCK FALSE
