SPECIFICATION TabSpec
CONSTANTS
  Product <- Taxis
  startingPrice <- Prices
  MaxInFlight = 2
  MaxEdits = 2
INVARIANTS
  TabTypeOK
  ListIsTheListing
  MenusAreTheList
  SortedByPrice
PROPERTIES
  DeliversOnce
  Delivers
CHECK_DEADLOCK FALSE
