SPECIFICATION Spec
CONSTANTS
  Id = {1, 2}
  ZeroId = 0
  DefaultHouse = 1
  MaxRequests = 1
  CanFail = TRUE
  Products <- HousesAndOneTaxi
  Screens = {"home", "taxi", "map"}
INVARIANTS
  TypeOK
  SheetCopyIsFresh
  PriceIsOfTheSheet
  LoadedMapHasSheet
