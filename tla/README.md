# Ijara: models, checks and proofs

Ijara is an iPhone application for renting country houses, children's parties
and party taxis (Swift/UIKit, `src/Ijara/ijara/ijara`; the pods beside it are
third-party).  It talks to one HTTP server, keeps the likes, the language and
the name of its user in `UserDefaults`, and shows everything through view
controllers that share a few statics: `LikedProducts`, the `Loader` overlay, the
timer of `Alert`, and the selections of the filter's cells.

This directory holds TLA+ models of the program, the TLC configurations that
check them on small instances, and machine-checked proofs about them.
`PROJECT.json` maps every definition to the lines it stands for.

## 1. The system

All file names are below `src/Ijara/ijara/ijara`.

| Component | Source | State | Operations | Module |
|---|---|---|---|---|
| Likes store | `Helper/Additional/LikedProducts.swift` | three id arrays in `UserDefaults`, a copy of them in a singleton | `isLiked` (reloads, then answers), `isLikedPerform` (toggles the copy as it is, stores all of it) | `LikedProducts` |
| Wishlist | `View/LikedHousesVC/LikedHousesVC.swift`, `DeleteLikedsVC.swift` | the server's lists, an own copy of the three arrays, the liked products, the category, a count of answers, a timer | load, tick, segments, swipe, delete all, open | `LikedHousesVC` |
| Map and its sheet | `View/Menu/MapVC/*.swift` | houses, a copy of the likes, the selected pin, prices; the sheet's id, heart and *another* copy of the likes | load, tap a pin, answer, like, pull the sheet down, more info, leave | `MapVC` |
| Busy overlay | `Helper/Network/Loader.swift` | views tagged on the window | `start` adds one, `stop` removes all | `Loader` |
| Screens and navigation | `CustomTabBar.swift`, `ChildrensServiceVC`, `TaxiServiceVC`, the three detail screens, `HomeDetailPresenter.swift` | selected tab, opened tabs, open loads, hearts on display, the screen on top | select a tab, push, pop, press a heart, relaunch | `LikesApp` |
| House loading | `Helper/Network/API.swift` 11-82, 163-208, `Net.swift` | ids, a counter, the houses collected | ask for the ids, then for every house at once | `GetAllHouses` |
| Service polling | `API.swift` 210-285 and its twin for parties | a timer, the length of the last answer, what is collected | ask again at each tick until as many are collected as were listed | `ServicePoller` |
| Sorting by price | `Helper/Additional/SortingPrices.swift`, `TaxiServiceVC.swift` | the list on display and three to choose from | sort once when the list comes, choose | `TaxiServiceVC` |
| Home search, province, filter | `HomeVC.swift`, `HomePresenter.swift` | the houses delivered, the houses shown, a province, a text, a price interval, delayed calls | load, search, tap a province, filter, open a house | `HomeVC` |
| Filter sheet | `FiltrVC.swift` and its cells | static selections of the cells, what the cells show, a flag, the slider | open, scroll, press a row, swipe a circle, clear all, show | `FiltrVC` |
| Booking calendar and price | `CalendarTVC.swift`, `HomeDetailVC.swift`, `Ex+Date.swift` | two dates, the range, the calendar's own selection; the sum, the price shown, the people | tap, swipe, add and take away a person | `Booking` |
| Alerts | `Helper/Network/Alert.swift` | two views and one static timer | show, swipe away, close by the timer | `Alert` |
| Language and first launch | `SetLanguage.swift`, `ChooseLanguageVC.swift`, `SingInLangVC`, `IntroductionVC`, `AppDelegate` | the stored language, what fills the window, the language of the texts and of the houses | choose, introduce, reload the application | `ProfileApp` |
| Profile | `ProfileViewController`, `EditProfileVC`, `ContactVC` | the name, the forms | open, edit, send | `ProfileApp` (in part) |
| Layout, cells, pages | cells, `AllHousesVC`, information pages | none that outlives a redraw | | not modelled |

**How they interact.** UIKit calls every handler on the main thread, and
completion handlers of the network layer come back there too, so a handler is
one atomic step; what interleaves is the order of handlers: touches, answers,
timer ticks, calls scheduled for later and the life-cycle callbacks
(`viewDidLoad` once per screen, `viewWillAppear` each time it comes to the
front).  The screens do not tell each other about likes.  Each reads
`UserDefaults` at moments of its own choosing and three of them write whole
arrays back: the singleton (detail screens, rows of the children tab), the
wishlist (deletion) and the sheet of the map.  A loading screen covers the window
with an overlay that takes all touches, and any screen that finishes loading
removes the overlays of all of them.  A new language replaces all tabs, and with
them every screen, while loads of the old ones go on.

**What is hard, and what makes each part correct.**

- *Stale copies.*  A press writes a whole array from a copy read earlier.  The
  program is correct only because every screen re-reads the store at exactly
  the right life-cycle callback; drop one of those calls and likes made
  elsewhere vanish or removed ones come back.  (`MemoryIsFresh`,
  `SheetCopyIsFresh`, `HeartsAreTrue`, `LikesAreKept`, `NameIsCurrent`)
- *Parallel arrays.*  The wishlist deletes by one index from two arrays in
  different orders; an index outside either ends the program.
  (`DeleteNeverTraps`, `RowsAreTheList`)
- *Answers in any order.*  Pin details, house details, poller answers.
  (`PriceIsOfTheSheet`, `SheetShowsSelectedPin`, `DeliversOnce`)
- *Partial failure.*  Some of the requests of a load fail.
  (`FailuresAreHeard`, `ListIsWhatArrived`, `ListIsWhole`)
- *Retries that overlap.*  The poller asks again before it is answered and
  stops only when two numbers set by different answers are equal.
  (`ListIsTheListing`, `Delivers`, `FullListStops`)
- *Delayed calls.*  A search runs half a second after the last key, a filter
  lifts its overlay a second later, a language reloads the application half a
  second later; all act on what they then find.  (`RegionIsKept`,
  `ShownAreDelivered`, `NoStrayStop`, `FilterLifts`, `LoadIsCovered`)
- *State kept twice.*  The filter's choices are in statics that outlive the
  sheet and on cells that are reused; the days of a booking are in the cell and
  in the calendar; the price is on a screen that hears of some changes only.
  (`DrawnIsApplied`, `RangeIsWhole`, `NothingElseSelected`, `PriceIsExplained`)
- *Two languages.*  Texts and houses read the stored language at different
  moments.  (`TextIsCurrent`, `HousesSpeakTheLanguage`)
- *One timer for two alerts.*  (`BothUpSettles`, `LoneAlertCloses`)
- *Algorithms by hand.*  A sort that removes from the array it searches, a
  single pass that finds two extremes.  (`MenusAreTheList`, `SortedByPrice`,
  `SliderStartsAtThePrices`)
- *Nil.*  Leaving the map unwraps its sheet, which exists only once houses have
  come.  (`LoadedMapHasSheet`)

`PROJECT.json` lists every hazard at its line, those no property covers too.

## 2. Modules

```
LikedProducts   Loader          LikeSet (abstract)           ListOnce (abstract)
   |      \     /                  ^                           ^            ^
   |    LikedHousesVC              |                           |            |
 MapVC      /                      | implemented by            |            |
     \     /                       |                     GetAllHouses  ServicePoller
    LikesApp ----------------------+                           |            |
     |    \                                      GetAllHouses_proofs  TaxiServiceVC
 MCLikesApp  LikesApp_proofs                                             |     \
                                                         MCTaxiServiceVC  ServicePoller_proofs
Loader -- HomeVC -- FiltrVC -- MCFiltrVC
             |         |                          Alert, Loader -- ProfileApp -- ProfileApp_proofs
     HomeVC_proofs  FiltrVC_proofs
                                                  Booking -- Booking_proofs

ListLemmas: lists and functions on 0..n, for LikesApp_proofs, HomeVC_proofs,
            ServicePoller_proofs
```

- **`LikedProducts`** – `userDef` is the content of `UserDefaults`, `likedIDs`
  the singleton's arrays.  `isLikedPerform` toggles `likedIDs` and stores it
  without a read; `isLiked` is the answer after the reload the code does first
  (an action that uses it also takes `getLikedProducts`).  Id 0 is a member of
  `LikedId`: `moreInfoPressed` passes `id ?? 0` when the sheet has no house yet.
- **`Loader`** – a number of overlays; `Touchable` when there is none.
- **`LikedHousesVC`** – the wishlist: three services answer
  (`WishlistResponse`), a timer notices the third answer (`WishlistTick`),
  `viewWillAppear`, segments, `deleteAt(ind:)` and its repetition
  `deleteAllProducts`.  `wlRows` are the rows as last reloaded, apart from
  `wlShown`, the list a row's index is applied to.
- **`MapVC`** – the map's requests are counted per house, so answers come in any
  order; each fills whatever sheet exists when it comes.  `addChildHomeVC`
  replaces the sheet; it happens at the arrival of the houses, when the user
  pulls the sheet down and when a pushed screen is popped.
- **`LikesApp`** – composes them: tabs, loads, detail screens, the ways between
  them, `Relaunch`, and `Trap` where Swift stops the program.
- **`LikeSet`** – what a user is promised: a set of likes per kind; a press
  toggles one product; the wishlist only removes.
- **`GetAllHouses`**, **`ServicePoller`** – one call of each loader of
  `API.swift`; **`ListOnce`** is what their callers rely on: at most one list,
  without repetitions.  `LikesApp` uses exactly that promise: `Listing(k)`.
- **`TaxiServiceVC`** – the tab over the call it makes: a step of the poller that
  hands a list over is also the completion handler, which sorts it into two
  arrays that it appends to.  The children's tab is the same code with a menu.
- **`HomeVC`** – the first tab's screen: `allVillas` and `allHouses`, the region,
  the text, a search that is due, the screen on top (itself, the filter's sheet
  or a house), the loads under way and the calls of `Loader.stop` that are due.
  A filter is a price range and a set of houses that have what else was set.
  `cityOf` is the capital's other name.
- **`FiltrVC`** – the sheet over it: `chosen` are the static variables of the
  cells, `sheet` is what dies with it: the rows on the screen, the rows whose
  cell looks chosen, `isClearAllPressed`, the circles and the prices.
  `cellsBuilt` is what building cells does, and every way a cell comes to be
  built (opening, scrolling, a reload by "Show all", "Clear all" or a late
  answer) goes through it.  "Show" is `filtrData` of `HomeVC` with what the
  statics hold.
- **`Booking`** – `didSelect` and `didDeselect` are the two callbacks of the
  calendar on the cell's dates and on the calendar's selection, which they
  change in turn; `detail` is what the screen has been told.
- **`Alert`** – two views, the timers still to fire in order, and whether the
  static still holds the last of them.
- **`ProfileApp`** – first launch, introduction, tabs, profile, the forms over it
  and the choice of a language, around one load of the houses of the home
  screen (its stage only) and a number of loads of home screens that are gone.
- **`*_proofs`** and **`ListLemmas`** – the theorems.  **`MC*`** – the tables TLC
  uses.

### Decisions a reader should know

- *Touches.*  The overlay covers the whole window, so every action of the user
  is guarded by `Touchable`; the tab bar is hidden while something is pushed.
  From iOS 16 on the sheet has detents and lets the map under it be touched.
- *A second finger.*  An overlay takes new touches, not those under way: another
  language may be pressed by a finger that was down already
  (`languagePressed`), so two reloads can be due.
- *Keys.*  The keyboard is a window of its own, so a key reaches the search field
  of the home screen under the overlay of a filter too.
- *Loads that fail.*  A failed answer to a house request never lifts the
  overlay; `HousesFail` leaves it there, and only `Relaunch` helps.  Taxis and
  parties have no failing end: their poller repeats until it succeeds.
- *The home screen's list.*  `setHouses(nil)` changes nothing, so in `HomeVC` a
  failed answer that a list follows is no step; `LoadFails` is a load that ends
  without one.
- *Empty lists.*  `sortByExpensive` runs over `1...count`, which traps for an
  empty list of taxis or parties: `EmptyListArrives`, and `alive` in
  `TaxiServiceVC`.  A trap ends everything, also the poller.
- *Leaving the map early.*  `viewWillDisappear` unwraps the sheet:
  `LeaveMapTraps`.
- *Deleting by index.*  `DeleteAt(i)` removes at `i` from the list shown and
  from the array of ids, as the code does, though the i-th row and the i-th id
  can be different products.  The repository says nowhere which like a swipe
  should remove, so this is a hazard, not a finding.
- *Answers after the map is left* reach a map that no screen shows again.
- *The singleton* is created at its first use; no handler can tell that from a
  creation at launch, as nobody writes the arrays before.
- *The server* lists a product once and answers a request for house `h` with
  `h`.  Both are assumptions about code outside this repository.  That
  `API.getAllHouses` asks for a list of ids written into the code instead of the
  ids it was sent makes no difference under them.
- A request of the poller that fails late brings nothing (`Net` answers nil,
  the handler returns), so it is the same as one that fails at once, `TickFails`.
- *Rows of the filter* are five: the prices, then guests, features, switches and
  people.  One choice stands for all choices of a row.  The features are drawn
  from their static variable and never disagree with it, so `drawn` leaves them
  out.  `Windows` are the sets of rows that a screen can show.
- *The slider* takes whole steps of 100000; `Int(x / step)` is integer division,
  and a price interval below one step maps every place of a circle below the
  lowest price (`priceAt`).
- *Days.*  A tap or swipe is a report of the calendar: a day selected, a day of
  the next or the last month that FSCalendar reports twice, or a day
  deselected, which a swipe reports also for days of the past that were never
  selected.  Days are numbered on from the first of the calendar, and the page
  is not kept open past midnight.
- *Languages.*  Until one is stored the texts are English (`SetLanguage`) and
  the houses Uzbek (`API`).  `SingInLangVC.isSelectLang` is always true, so its
  warning is never shown.  `reloadApp` sets the texts of one label before the
  tabs are new; `textLang` follows the tabs.
- *The contact form* is reached from the home screen, on a phone that can send
  mail.  Each filled row schedules a pop; one of them pops the page, the others
  find nothing to pop.
- *`textFieldDidChange`* of the profile's form is attached to no field.

## 3. Runs

| Run | Instance | Shows |
|---|---|---|
| `likes_map` | two houses and a taxi; home, taxi and map; requests may fail | types; the sheet writes back no stale array, hands on the prices of its house, and exists whenever a loaded map closes |
| `likes_lists` | two parties and a house; home, children, wishlist | `LikesAreKept`: the application implements `LikeSet`; memory is fresh and hearts true wherever they can be pressed, nothing is saved twice, no index is out of bounds, rows are the list they act on |
| `get_all_houses` | four houses | `ListOnce`; a list is whole but for what failed; the caller hears of every failure; the call ends |
| `services` | three taxis, two at one price; two requests in flight, two changes of the server's list | `ListOnce` whatever changes; while nothing does, the list handed over is the server's list, and it is handed over; each list of the menu is that list, sorted both ways |
| `home_filter` | two houses, one of them in the capital; three regions, one word and none, three windows of rows, two places of a circle | what is shown is a sublist of the one list delivered and keeps to the region; what the sheet draws is applied; no stray stop of the overlay, and a filter's overlay is lifted; the filter starts from prices that are shown |
| `profile` | two names, three handlers that show messages, one old load | texts, houses and name follow what is stored, over languages chosen during a load; a load is covered; messages close |
| `booking` | five days, the first of them past, the third and fourth a weekend; up to four people at a price for two | the range, the days highlighted and the price belong together |
| `bug_pin` | two houses | **violated**: the sheet may stay on a pin tapped earlier |
| `bug_heart` | two houses | **violated**: the sheet's heart may be drawn from likes read before a press on the sheet |
| `bug_delete_all` | two houses | **violated**: delete-all may leave likes, even of products on display |
| `bug_partial_list` | four houses | **violated**: a list that is not nil may lack houses |
| `bug_full_list` | two products, one change | **violated**: everything listed is collected and the poller never stops |

The findings in `PROJECT.json` quote the comment, message or test that each
violated property states.

**Bounds, and why they are enough.**  `MaxRequests` bounds the detail requests
in flight for one house: one per house lets answers of two houses overtake each
other, which is all the sheet can tell apart, as equal answers are equal.
`MaxInFlight` bounds the poller's open requests: two let answers overlap, swap
and come after the end.  `MaxEdits` bounds changes of the server's list during a
call: the first makes the counts differ, the second can make them equal again.
Two products of a kind are enough for one like to be lost by a press on the
other and for an order of liking that is not the order listed.  Three taxis with
a tie let the sort remove from the front, the middle and the end.
On the home screen two houses suffice to hide the dearest behind the cheapest
and to have one in a region and one not; `MaxLists` is 2 where
`VillasChangeOnce` is checked, so that a second list could come.  The three
windows of the sheet overlap in a row, so that a row can stay, leave and come
back, and the last of them ends the clearing.  Three messages in one process are
two of one kind around one of the other.  `MaxOldLoads` is one: a load that is
gone is told from the present one only.  In the calendar a range of three
days has one inside it, and there is room before and after.
`Screens` restricts an instance of `LikesApp` to some tabs.  The theorems do
not depend on any of these.

**Deadlock** is checked in `LikesApp`, `ProfileApp` and `Booking`, where something
is always possible.  The two loaders end, a trap ends the tab, and a failed load
stops the home screen for good, so `get_all_houses`, `services`, `home_filter`
and the two runs that refute something of the loaders do not check it.

**Fairness.**  `LikesApp` and `Booking` state none: a user need not do anything,
and their properties are about safety.  `GetAllHouses` has weak fairness of the
answers: `URLSession` answers each request or reports its timeout.
`ServicePoller` has weak fairness of the ticks (a repeating timer on the main run
loop) and of the arrivals, and, for each product, strong fairness of being served
with its title: an assumption about the server and the network, not about the
code.  It is what the retry is there for, and without it no retry could end.
`FullListStops` is refuted under all of this.  `TaxiServiceVC` has the same as
long as the program runs.  `HomeVC` and `FiltrVC` have weak fairness of the calls
scheduled on the main queue and of the answers; `FilterLifts` is about filters,
as a load that fails leaves its overlay.  `ProfileApp` has weak fairness of the
timers of messages and of nothing else; as `MaxShows` bounds the handlers that
show messages, its liveness is about what happens once no more messages come.

**Mutants.**  Every property of a passing run has a variant of a definition, next
to the original and marked `Mutant`, that makes it fail: a `viewWillAppear` that
does not reload, an answer read before the reload, a counter compared too early,
a cleared cell that keeps its look, a tab bar that is kept when the language
changes, the deselection that a note calls redundant.

**Met on the way, and not a run.**  These contradict no statement of the
repository that a property could quote, or only a wording:

- "Clear all" leaves the switches of the filter chosen
  (`SwitchContTVC.swift` 53), and rows off the screen (`FiltrVC.swift` 195).
- The price of a range counts every day, the surcharge one less
  (`HomeDetailVC.swift` 400).
- "REDUANDENT CODE" (`CalendarTVC.swift` 176) is not redundant: without it
  `RangeIsWhole` fails.
- An alert whose timer the other one took stays until it is swiped.
- In the capital every search for a word and every filter shows nothing, since
  both compare the name of the category with the province, which the server
  calls otherwise.

## 4. Proofs

Every safety property of the passing runs, invariant, action property or
refinement, is a theorem of the specification that its run checks, for any
constants that meet the named assumptions: `ZeroIdAssumption` (0 is no product),
`MapAssumption` (the default house is an id, the bound is positive),
`AppAssumption` (products have ids; the application opens on the home tab),
`HouseAssumption`, `PollerAssumption` (finitely many houses and products),
`PriceAssumption` and `BookingAssumption` (prices are natural numbers),
`HomeAssumption` (there are houses, and the tables are about them),
`FiltrAssumption` (the circles stay on the slider, a step is positive) and
`ProfileAssumption` (nothing typed is no name).

| Module | Theorems | Property |
|---|---|---|
| `LikesApp_proofs` | `Invariance`, `WaitingInvariance` | the inductive invariants below |
| | `TypeCorrect` | `TypeOK` |
| | `LikesStaySets` | `NoDuplicateLikes` |
| | `MemoryStaysFresh`, `HeartsStayTrue` | `MemoryIsFresh`, `HeartsAreTrue` |
| | `SheetCopyStaysFresh` | `SheetCopyIsFresh` |
| | `MapKeepsItsSheet`, `PriceStaysOfTheSheet` | `LoadedMapHasSheet`, `PriceIsOfTheSheet` |
| | `RowsStayTheList`, `DeletionStaysInside` | `RowsAreTheList`, `DeleteNeverTraps` |
| | `LikesStayKept` | `LikesAreKept`: `LikesApp` implements `LikeSet` |
| | `OnlyAFailureSticks`, `NoScreenSticks`, `OnlyKnownTraps`, `HousesAreThere`, `SheetHeartOftenTrue`, `DeleteAllDeletesAsMany`, `SwipesUnlikeTheirRows` | beyond the runs, see below |
| `GetAllHouses_proofs` | `TypeCorrect`, `ListsAreWhatArrived`, `FailuresStayHeard` | `TypeOK`, `ListIsWhatArrived`, `FailuresAreHeard` |
| | `ListIsHandedOverOnce` | `DeliversOnce`: a call implements `ListOnce` |
| | `CallRunsOut`, `ListsAreAsTheScreensTakeThem` | beyond the runs |
| `ServicePoller_proofs` | `TypeCorrect`, `ListStaysTheListing`, `ListIsHandedOverOnce` | of the poller alone |
| | `TabTypeCorrect`, `TabListStaysTheListing`, `TabListIsHandedOverOnce` | `TabTypeOK`, `ListIsTheListing`, `DeliversOnce`, of the tab |
| | `MenusStayTheList`, `MenusStaySorted` | `MenusAreTheList`, `SortedByPrice` |
| | `NothingServedIsLost`, `FullListIsHandedOver`, `TabImplementsCall`, `TabGetsTheFullList`, `NothingElseEndsIt`, `MenusStayBuilt` | beyond the runs |
| `HomeVC_proofs` | `TypeCorrect`, `ShownStayDelivered`, `RegionStays`, `SliderStarts`, `StopsStayInTurn`, `VillasStay` | of the home screen alone |
| | `HomeIsCoveredByFilters`, `HomeIsGivenOnce` | beyond the runs |
| `FiltrVC_proofs` | `FiltrTypeCorrect`, `FiltrShownStayDelivered`, `FiltrRegionStays`, `FiltrSliderStarts`, `FiltrStopsStayInTurn`, `FiltrVillasStay` | `FiltrTypeOK`, `ShownAreDelivered`, `RegionIsKept`, `SliderStartsAtThePrices`, `NoStrayStop`, `VillasChangeOnce` |
| | `DrawnStaysApplied` | `DrawnIsApplied` |
| | `FiltrImplementsHome`, `FiltrIsCoveredByFilters`, `FiltrIsGivenOnce`, `PricesAskedForFit`, `PricesStayTheRightWayRound` | beyond the runs |
| `Booking_proofs` | `TypeCorrect`, `RangesAreWhole`, `OnlyTheFirstIsSelected`, `PricesAreExplained` | `TypeOK`, `RangeIsWhole`, `NothingElseSelected`, `PriceIsExplained` |
| | `RangesGoAsAWhole`, `CounterMakesThePriceWhole` | beyond the runs |
| `ProfileApp_proofs` | `TypeCorrect`, `TextStaysCurrent`, `HousesSpeak`, `LoadsAreCovered`, `NameStaysCurrent` | `TypeOK`, `TextIsCurrent`, `HousesSpeakTheLanguage`, `LoadIsCovered`, `NameIsCurrent` |
| | `MessagesAlwaysGo`, `TimersAreTakenByTheOther` | beyond the runs |

The formulas of the theorems "beyond the runs" stand above them in the proof
modules, as they say what the strengthened invariants give for every value of the
constants; TLC was asked about each of them on the instances of the runs before it
was proved.

**The likes.**  The properties speak of moments when a press is possible.  They
are not inductive: an overlay can be lifted by any load, so what they say must
already hold under it.  `Inv /\ Fresh /\ WishlistFresh` is the strengthening:

- `TypeOK`;
- `MapOrder`: the map is pushed on the home tab only, the sheet lies on an open
  map that nothing covers, a map with houses that nothing covers has a sheet,
  and the prices are those of the house on the sheet;
- `CopiesAreSets`: no array of likes, in any of the four places that keep one,
  has a repetition.  All four are needed, because each can become the stored
  one.  `NoDuplicateLikes` also makes `RemoveFirst` remove the product for good,
  on which the truth of the hearts rests;
- `Fresh`: every copy that the next press may write back *is* the stored array,
  and the hearts on display are drawn after it;
- `WishlistFresh`: the wishlist's copy is the stored one while it is in front.

`RowsAreTheList` is about who lifts whose overlay.  `BusyOrder` says what may be
under way when the wishlist can be touched, and `RowsInStep` follows the rows
through that; `DeleteNeverTraps` adds that a list of liked products is no longer
than the array of likes it was selected by.

The proof that a step keeps the invariant is split by component.  `LikesSteps`,
`WishlistSteps` and `MapSteps` say which operations of the store, the wishlist
and the map a step of the application amounts to, and one lemma per conjunct
then goes through those operations, or through the actions of `Next`.

`LikesStayKept` is the refinement, with the sets of stored likes as the state of
`LikeSet`.  A press writes a copy toggled at one product; by `Fresh` that copy is
the stored array, and without repetitions a toggle of the array is a toggle of
its set.  A deletion writes a shortened array, which `WishlistFresh` makes a
subset of the stored one.  All other steps leave the store alone.

**The loaders.**  A call of `getAllHouses` is in one of three phases: waiting for
the ids (`Fresh`), ended without ids (`NoIds`) or `Answered`, where the houses collected,
those that failed and those awaited make up all houses, so that the counter
reaches the number of houses exactly when nothing is awaited.  For the poller
`Once` says that a timer that has stopped has handed one list over, and `Kept`,
which needs `edits = 0`, that every answer lists what the server lists, so that
as many collected as listed are all of them.  Both then implement `ListOnce`
step by step.  Over the tab, `TabKept` adds that the lists of the menu are empty
until the list comes and rearrangements of it, sorted, from then on.

**The home screen and the filter.**  `OneAtATime`: without an overlay nothing is
under way, at most one thing is under it, and the houses are awaited only while
there are none.  A start needs a touch, hence no overlay, hence nothing under
way.  `HomeInv` adds that what is shown is selected from `allVillas`, that the
region is kept, and that no region is selected before the houses have come.
Over the sheet, `Inv` adds the shape of the sheet and `DrawnIsApplied`, which is
inductive by itself: the choice of a guest's row leaves its static by a press or
in clearing, which take its look too, and that of a switch by a press only.

The sheet's part is `SliderIsRead`: the prices it would ask for are those of the
interval or of the places of the circles.

**Booking.**  `CalShape` relates the two selections by how many dates are set, and
`Told` the screen to a range that is set; with `PriceIsExplained` they are
inductive over taps, days reported twice and people.

**Language.**  `Order` says what can be under way on each screen: away from the
home screen no load is, so a language is chosen with no ids to come in between;
two reloads are due only under the overlays that both have put up.  `Current`
carries the language of the houses and the name over screens that cover them.

**Recursion.**  What the code computes in a loop over a list is a recursive
function on `0..Len(list)`: `likedOf`, `kept`, `findPriceInterval`,
`sortByExpensive`.  `ListLemmas` proves that such a function is well defined
(`UpToRecursion`) and what holds of it at each step (`UpToInduction`) from the
well-foundedness of `<` on the naturals, by a least counterexample
(`LeastElement`): sets and functions stand where a general induction theorem
would take an operator as its parameter.  So what these functions compute is
proved for lists of any length: `kept` selects in order, the one pass over the
houses finds the lowest price and a highest price that occurs, the sort returns
a sorted rearrangement.

**What the findings leave.**  Five runs refute a sentence of the repository.  What
is left of it is proved:

- `bug_pin`: whichever pin the sheet stays on, the prices handed on are those of its
  house (`PriceStaysOfTheSheet`).
- `bug_heart`: the sheet's heart is true as long as the map's copy of the likes is
  the stored array (`SheetHeartOftenTrue`).  `HeartIsFromACopy` is the invariant:
  the heart is that of the map's copy or that of the sheet's own, which `Fresh`
  knows to be stored.
- `bug_delete_all`: it removes as many likes as there are rows, so nothing stays
  saved exactly if rows and likes are equally many (`DeleteAllDeletesAsMany`).
- `bug_partial_list`: a list is not empty and has the houses that did not fail,
  each once (`ListsAreWhatArrived`, `ListsAreAsTheScreensTakeThem`).
- `bug_full_list`: while the server keeps its list, the first tick after all of it
  is collected hands it over (`FullListIsHandedOver`).

**Hazards without a property.**  The repository says nothing about them, so no run
can, but how far they reach is proved.

- A failed load leaves its overlay.  `Stuck` is a covered window with nothing under
  way that would lift it.  `OnlyAFailureSticks`: no step but the failure of a load
  of houses leads there; `NoScreenSticks`: with `CanFail = FALSE` none does.  The
  proof follows the timer of the wishlist: the answers it has and those it can still
  get are three.
- Of the traps that are modelled two can happen, and when (`OnlyKnownTraps`); under
  the tab, only with an empty list (`NothingElseEndsIt`).
- A swipe on the wishlist unlikes its own row wherever the list is shown in the
  order of the likes, and keeps it so (`SwipesUnlikeTheirRows`).
- The slider asks for prices that its interval explains, for any interval, step and
  places of the circles (`PricesAskedForFit`): at worst two steps below it, and the
  wrong way round only where the upper circle was swiped below what is shown.  It
  needs an interval that is the right way round itself, which
  `PricesStayTheRightWayRound` gives if no house is cheaper on weekends.
- A range chosen after the people drops their surcharge, until any press of the
  counter (`CounterMakesThePriceWhole`).
- A message loses its timer to the other kind only (`TimersAreTakenByTheOther`).

**Refinements**, step by step: `LikesApp` implements `LikeSet`; a call of
`getAllHouses` and of the poller, the tab over it and the houses of the home screen
implement `ListOnce` (`HomeIsGivenOnce` maps its `delivered` to `given`, the list
the home screen has got, if any); the tab implements the poller
(`TabImplementsCall`); the sheet implements the home screen
(`FiltrImplementsHome`), for the set `Int` of prices in place of `Price`, as the
slider can ask for prices that no house has.

**Only model-checked** is liveness: `CallEnds`, `Delivers`, `FilterLifts`,
`BothUpSettles`, `LoneAlertCloses`.  Fairness is beyond the prover.  The safety
part of each is proved, so that only the rule for fairness is missing:

| Property | Proved |
|---|---|
| `CallEnds` | `CallRunsOut`: the answers still needed are a natural number that each step lowers, and at zero the caller has heard |
| `Delivers` | `NothingServedIsLost`, `FullListIsHandedOver`, under the tab `TabGetsTheFullList`: what was served stays coming or collected, and a tick that finds all hands over |
| `FilterLifts` | `HomeIsCoveredByFilters`, `FiltrIsCoveredByFilters`: the cover has a `Loader.stop` to come, which nothing takes away |
| `BothUpSettles`, `LoneAlertCloses` | `MessagesAlwaysGo`: two messages that are up have a timer that parts them, a lone one has the timer that fires next, until it goes or the other comes |

## 5. Not modelled

Layout, wording, pictures, galleries, comments, sharing, the phone, mail and map
applications that are opened, and the gestures and the camera of the map: nothing
they keep bears on the properties.  Of the profile, the photo and its picker and
the fields of the form besides the name are stored and drawn as the name is.
`Net` and `Reachability` appear as what they answer.  The server, `UserDefaults`
(a write is seen by the next read and survives a relaunch), FSCalendar's reports
and UIKit's order of callbacks are modelled from how this code uses them.  The
trap on a house for which the server gives fewer than two days of the weekend
(`HomeDetailVC.swift` 158) is left out.  A few files (`View/CustomTabBar.swift`,
`HomeCVC 2.swift`, `DayRangeSelectionTracker.swift`) are reached by no screen.
The pods (Firebase, gRPC, BoringSSL and others), most of the repository by size,
are third-party code that the application links.

## 6. Plan

Done, in this order: the likes (`LikedProducts`, `LikedHousesVC`, `MapVC`,
`LikesApp`), the loaders, the home screen, the filter's sheet over it, the sort
under the tab, the messages with language and profile, booking, the proofs of
every safety property, and then of what the findings, the hazards without a
property and the liveness properties rest on.  What could follow:

1. `HomeVC` as the home tab of `LikesApp`, to state `NoStrayStop` for the loads
   of the other tabs too.  By the argument of `OneAtATime` it holds for them: the
   overlay of a filter also covers the tab bar.  `home_filter` alone has over a
   million states, so `LikesApp` would have to give up the map in such a run.
2. The other stored fields of the profile, when something reads them.
