-------------------------------- MODULE HomeVC --------------------------------
(***************************************************************************)
(* The home screen: all houses of the server, and the ones it shows, which *)
(* a search by name, a tap on a region and a filter replace in any order.  *)
(* The search runs half a second after the last key, whatever happens in   *)
(* between; a filter puts up the overlay and takes it down a second later. *)
(***************************************************************************)
EXTENDS SequencesExt, Loader

CONSTANTS
  House,       \* the houses on the server
  Region,      \* the regions to tap, named as the categories are
  AllRegions,  \* the category that stands for all of them
  provinceOf,  \* the province of each house, named as the server does
  cityOf,      \* the province searchByCategory looks for, for each region
  Text,        \* what can be in the search field
  nameHas,     \* the houses whose name contains a text
  Blank,       \* the texts that have nothing but spaces
  priceForWorkingDays,  \* the lower price of each house,
  priceForWeekends,     \* and the higher one
  Price,       \* the bounds of prices that can be set
  Filter,      \* what else can be set: guests, features, switches, people
  passes,      \* the houses that have what is set
  MaxLists     \* bound: the lists of houses the server delivers

ASSUME HomeAssumption ==
  /\ IsFiniteSet(House) /\ House # {}
  /\ AllRegions \in Region
  /\ nameHas \in [Text -> SUBSET House]
  /\ Blank \subseteq Text
  /\ priceForWorkingDays \in [House -> Nat]
  /\ priceForWeekends \in [House -> Nat]
  /\ Price \subseteq Int
  /\ passes \in [Filter -> SUBSET House]
  /\ MaxLists \in Nat \ {0}

VARIABLES
  allVillas,       \* the houses as the server delivered them
  allHouses,       \* the houses shown
  selectedRegion,  \* the category that was tapped last
  searchText,      \* what is in the search field
  searchDue,       \* is serchByName scheduled?
  priceInterval,   \* the prices that the filter starts from
  isConfigured,    \* the houses have been asked for
  top,             \* the screen on top: this one, the filter or a house
  loads,           \* the loads under way: of the houses, of one house
  lists,           \* how many lists the server has delivered
  stopsDue         \* how many delayed calls of Loader.stop are scheduled

choiceVars == <<selectedRegion, searchText, searchDue>>
vars == <<overlays, allVillas, allHouses, choiceVars, priceInterval,
          isConfigured, top, loads, lists, stopsDue>>

\* The elements of a list that are in a set, in the order of the list.
kept(list, S) ==
  LET upTo[n \in 0..Len(list)] ==
        IF n = 0 THEN <<>>
        ELSE IF list[n] \in S THEN Append(upTo[n - 1], list[n])
        ELSE upTo[n - 1]
  IN  upTo[Len(list)]

ofProvince(p) == {h \in House : provinceOf[h] = p}

\* Mutant: the region is not looked at.
searchByKeyAnywhere(text, region) ==
  IF text \in Blank THEN allVillas ELSE kept(allVillas, nameHas[text])

\* searchByKey compares the name of the category with the province.
searchByKey(text, region) ==
  IF text \in Blank THEN allVillas
  ELSE IF region = AllRegions THEN kept(allVillas, nameHas[text])
  ELSE kept(allVillas, nameHas[text] \cap ofProvince(region))

\* searchByCategory appends to the name of the capital what the server does.
sortByProvince(region) ==
  IF region = AllRegions THEN allVillas ELSE kept(allVillas, ofProvince(cityOf[region]))

\* The prices of one house.
pricesOf(h) == [min |-> priceForWorkingDays[h], max |-> priceForWeekends[h]]

\* Mutant: a house that raises the maximum is not looked at for the minimum.
widenSwapped(interval, h) ==
  IF priceForWeekends[h] > interval.max THEN [interval EXCEPT !.max = priceForWeekends[h]]
  ELSE IF priceForWorkingDays[h] < interval.min THEN [interval EXCEPT !.min = priceForWorkingDays[h]]
  ELSE interval

\* A house that lowers the minimum is not looked at for the maximum.
widen(interval, h) ==
  IF priceForWorkingDays[h] < interval.min THEN [interval EXCEPT !.min = priceForWorkingDays[h]]
  ELSE IF priceForWeekends[h] > interval.max THEN [interval EXCEPT !.max = priceForWeekends[h]]
  ELSE interval

\* One pass over the houses, from the prices of the first one.
findPriceInterval(list) ==
  LET upTo[n \in 0..Len(list)] ==
        IF n = 0 THEN pricesOf(list[1]) ELSE widen(upTo[n - 1], list[n])
  IN  upTo[Len(list)]

inPriceRange(min, max) == {h \in House : priceForWorkingDays[h] >= min /\ priceForWeekends[h] <= max}

filtrHouses(min, max, f, region) ==
  LET filtred == kept(allHouses, inPriceRange(min, max) \cap passes[f])
  IN  IF region = AllRegions THEN filtred ELSE kept(filtred, ofProvince(region))

Touched(screen) == Touchable /\ top = screen

Init ==
  /\ overlays = 1
  /\ allVillas = <<>>
  /\ allHouses = <<>>
  /\ selectedRegion = AllRegions
  /\ searchText \in Blank
  /\ searchDue = FALSE
  /\ priceInterval = [min |-> 500000, max |-> 15000000]
  /\ isConfigured = TRUE
  /\ top = "home"
  /\ loads = {"houses"}
  /\ lists = 0
  /\ stopsDue = 0

-----------------------------------------------------------------------------
\* Mutant: the list that later searches start from is not kept.
setHousesShownOnly(list) ==
  /\ allHouses' = list
  /\ UNCHANGED allVillas

setHouses(list) ==
  /\ allHouses' = list
  /\ allVillas' = list

\* The server delivers some of its houses; a load that fails has no list.
HousesArrive ==
  /\ "houses" \in loads
  /\ lists < MaxLists
  /\ \E S \in (SUBSET House) \ {{}} : \E list \in SetToSeqs(S) : setHouses(list)
  /\ loads' = loads \ {"houses"}
  /\ lists' = lists + 1
  /\ LoaderStop
  /\ UNCHANGED <<choiceVars, priceInterval, isConfigured, top, stopsDue>>

\* A load that ends without an answer to show leaves its overlay.
LoadFails(load) ==
  /\ load \in loads
  /\ loads' = loads \ {load}
  /\ UNCHANGED <<overlays, allVillas, allHouses, choiceVars, priceInterval, isConfigured, top, lists, stopsDue>>

\* A tap on a category.
CategorySelected(region) ==
  /\ Touched("home")
  /\ selectedRegion' = region
  /\ allHouses' = sortByProvince(region)
  /\ UNCHANGED <<overlays, allVillas, searchText, searchDue, priceInterval, isConfigured, top, loads, lists, stopsDue>>

\* A key in the search field: the search before it, if still due, is dropped.
\* The keyboard is no part of the window that an overlay covers, so keys also
\* come while a filter is said to work; at launch there is no keyboard.
TextChanged(text) ==
  /\ top = "home"
  /\ "houses" \notin loads
  /\ searchText' = text
  /\ searchDue' = TRUE
  /\ UNCHANGED <<overlays, allVillas, allHouses, selectedRegion, priceInterval, isConfigured, top, loads, lists, stopsDue>>

\* The delayed search, with what is in the field and selected by then.
serchByName ==
  /\ searchDue
  /\ searchDue' = FALSE
  /\ allHouses' = searchByKey(searchText, selectedRegion)
  /\ UNCHANGED <<overlays, allVillas, selectedRegion, searchText, priceInterval, isConfigured, top, loads, lists, stopsDue>>

-----------------------------------------------------------------------------
\* The sheet with the filter starts from the prices of what is shown.
FilterOpened ==
  /\ Touched("home")
  /\ top' = "filter"
  /\ priceInterval' = IF allHouses = <<>> THEN priceInterval ELSE findPriceInterval(allHouses)
  /\ UNCHANGED <<overlays, allVillas, allHouses, choiceVars, isConfigured, loads, lists, stopsDue>>

FilterDismissed ==
  /\ Touched("filter")
  /\ top' = "home"
  /\ UNCHANGED <<overlays, allVillas, allHouses, choiceVars, priceInterval, isConfigured, loads, lists, stopsDue>>

\* Mutant: no overlay for the second that the filter is said to take.
filtrDataNoOverlay(min, max, f) ==
  /\ Touched("filter")
  /\ top' = "home"
  /\ allHouses' = filtrHouses(min, max, f, selectedRegion)
  /\ stopsDue' = stopsDue + 1
  /\ UNCHANGED <<overlays, allVillas, choiceVars, priceInterval, isConfigured, loads, lists>>

\* Mutant: the overlay is not taken down.
filtrDataNoStop(min, max, f) ==
  /\ Touched("filter")
  /\ LoaderStart(1)
  /\ top' = "home"
  /\ allHouses' = filtrHouses(min, max, f, selectedRegion)
  /\ UNCHANGED <<allVillas, choiceVars, priceInterval, isConfigured, loads, lists, stopsDue>>

\* The filter is applied to the houses shown, and its sheet goes.
filtrData(min, max, f) ==
  /\ Touched("filter")
  /\ LoaderStart(1)
  /\ top' = "home"
  /\ allHouses' = filtrHouses(min, max, f, selectedRegion)
  /\ stopsDue' = stopsDue + 1
  /\ UNCHANGED <<allVillas, choiceVars, priceInterval, isConfigured, loads, lists>>

\* The delayed Loader.stop of setFiltredHouses.
DelayedStop ==
  /\ stopsDue > 0
  /\ stopsDue' = stopsDue - 1
  /\ LoaderStop
  /\ UNCHANGED <<allVillas, allHouses, choiceVars, priceInterval, isConfigured, top, loads, lists>>

-----------------------------------------------------------------------------
HouseOpened ==
  /\ Touched("home")
  /\ allHouses # <<>>
  /\ top' = "detail"
  /\ loads' = loads \cup {"detail"}
  /\ LoaderStart(1)
  /\ UNCHANGED <<allVillas, allHouses, choiceVars, priceInterval, isConfigured, lists, stopsDue>>

DetailArrives ==
  /\ "detail" \in loads
  /\ loads' = loads \ {"detail"}
  /\ LoaderStop
  /\ UNCHANGED <<allVillas, allHouses, choiceVars, priceInterval, isConfigured, top, lists, stopsDue>>

\* Mutant: the houses are asked for each time the screen appears.
HomeWillAppearAgain ==
  /\ LoaderStart(1)
  /\ loads' = loads \cup {"houses"}
  /\ isConfigured' = TRUE

\* viewWillAppear asks for the houses once.
HomeWillAppear ==
  IF isConfigured THEN UNCHANGED <<overlays, loads, isConfigured>>
  ELSE /\ LoaderStart(1)
       /\ loads' = loads \cup {"houses"}
       /\ isConfigured' = TRUE

BackFromHouse ==
  /\ Touched("detail")
  /\ top' = "home"
  /\ HomeWillAppear
  /\ UNCHANGED <<allVillas, allHouses, choiceVars, priceInterval, lists, stopsDue>>

Next ==
  \/ HousesArrive
  \/ \E load \in {"houses", "detail"} : LoadFails(load)
  \/ \E region \in Region : CategorySelected(region)
  \/ \E text \in Text : TextChanged(text)
  \/ serchByName
  \/ FilterOpened
  \/ FilterDismissed
  \/ \E min, max \in Price, f \in Filter : filtrData(min, max, f)
  \/ DelayedStop
  \/ HouseOpened
  \/ DetailArrives
  \/ BackFromHouse

\* The main queue runs what was scheduled on it, and each request is answered or
\* times out.
Spec ==
  /\ Init /\ [][Next]_vars
  /\ WF_vars(DelayedStop) /\ WF_vars(serchByName)
  /\ WF_vars(HousesArrive) /\ WF_vars(DetailArrives)

-----------------------------------------------------------------------------
TypeOK ==
  /\ overlays \in Nat
  /\ allVillas \in Seq(House) /\ allHouses \in Seq(House)
  /\ selectedRegion \in Region /\ searchText \in Text /\ searchDue \in BOOLEAN
  /\ priceInterval \in [min : Nat, max : Nat]
  /\ isConfigured \in BOOLEAN
  /\ top \in {"home", "filter", "detail"}
  /\ loads \subseteq {"houses", "detail"}
  /\ lists \in Nat /\ stopsDue \in 0..1

\* Whatever was searched, tapped and filtered before, and in whatever order, the
\* houses shown are houses the server delivered, each once and in its order:
\* every list is made from one of two arrays that different handlers replace.
ShownAreDelivered == allHouses = kept(allVillas, ToSet(allHouses))

\* With a word in the search field and no search due, no house of another
\* region is shown: neither a filter nor a search leaves the region that was
\* tapped, before them or after.  (A search for nothing does leave it.)
RegionIsKept ==
  selectedRegion # AllRegions /\ searchText \notin Blank /\ ~searchDue =>
    \A h \in ToSet(allHouses) : provinceOf[h] \in {selectedRegion, cityOf[selectedRegion]}

\* allVillas is given the houses of the server once (HomeVC.swift:63), over any
\* number of returns to the screen.
VillasChangeOnce == [][allVillas # <<>> => allVillas' = allVillas]_vars

\* The Loader.stop that a filter schedules for a second later never comes in the
\* middle of a load, whose overlay it would take away.
NoStrayStop == stopsDue > 0 => loads = {}

\* The filter starts from the lowest price shown, and from a highest price that
\* some house shown has, though the houses shown may be those of any earlier
\* search, tap or filter.
SliderStartsAtThePrices ==
  [][top = "home" /\ top' = "filter" /\ allHouses # <<>> =>
       /\ priceInterval'.min = Min({priceForWorkingDays[h] : h \in ToSet(allHouses)})
       /\ priceInterval'.max \in {priceForWeekends[h] : h \in ToSet(allHouses)}]_vars

\* The overlay of a filter is always taken down again, whatever is typed under
\* it.  (A load that fails leaves its overlay, on a house or without houses.)
FilterLifts == top = "home" /\ allVillas # <<>> ~> Touchable

=============================================================================
