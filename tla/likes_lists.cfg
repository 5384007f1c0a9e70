SPECIFICATION Spec
CONSTANTS
  Id = {1, 2, 3}
  ZeroId = 0
  DefaultHouse = 1
  MaxRequests = 1
  CanFail = FALSE
  Products <- PartiesAndOneHouse
  Screens = {"liked", "home", "children"}
INVARIANTS
  MemoryIsFresh
  HeartsAreTrue
  NoDuplicateLikes
  DeleteNeverTraps
  RowsAreTheList
PROPERTY LikesAreKept
