SPECIFICATION Spec
CONSTANTS
  Id = {1, 2}
  ZeroId = 0
  DefaultHouse = 1
  MaxRequests = 1
  CanFail = FALSE
  Products <- HousesOnly
  Screens = {"home", "map"}
INVARIANT SheetShowsSelectedPin
