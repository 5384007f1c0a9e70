SPECIFICATION Spec
CONSTANTS
  LastDay = 5
  Today = 2
  Weekend = {3, 4}
  priceForWorkingDays = 3
  priceForWeekends = 5
  initialPrice = 3
  numberofpeople = 2
  ExtraPerson = 2
  MaxPeople = 4
INVARIANTS
  TypeOK
  RangeIsWhole
  NothingElseSelected
  PriceIsExplained
