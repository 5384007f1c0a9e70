SPECIFICATION FiltrSpec
CONSTANTS
  House <- Houses
  Region <- Regions
  AllRegions = "Hammasi"
  provinceOf <- Provinces
  cityOf <- Cities
  Text <- Texts
  nameHas <- NameHas
  Blank = {""}
  priceForWorkingDays <- Working
  priceForWeekends <- Weekends
  Price <- Prices
  Filter <- Filters
  passes <- Passes
  MaxLists = 2
  Windows <- Rows
  Circle = {60, 200}
  PriceStep = 100000
INVARIANTS FiltrTypeOK ShownAreDelivered RegionIsKept NoStrayStop DrawnIsApplied
PROPERTIES VillasChangeOnce SliderStartsAtThePrices FilterLifts
CHECK_DEADLOCK FALSE
