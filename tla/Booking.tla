------------------------------- MODULE Booking -------------------------------
(***************************************************************************)
(* The calendar cell of a house's screen and the price under it.  The cell *)
(* turns taps and swipes on days into a first and a last date beside the   *)
(* calendar's own selection; the screen prices the range it was last told  *)
(* of for the number of people it was last told of.                        *)
(***************************************************************************)
EXTENDS Integers, FiniteSets

CONSTANTS
  LastDay,   \* the days of the calendar are 1..LastDay,
  Today,     \* those before today can not be selected,
  Weekend,   \* and these are Fridays and Saturdays
  priceForWorkingDays, priceForWeekends,   \* the prices of a day
  initialPrice,     \* the price that the screen opens with
  numberofpeople,   \* how many people a day's price is for
  ExtraPerson,      \* what each further one pays a day: 200000
  MaxPeople         \* bound: the counter of people

ASSUME BookingAssumption ==
  /\ LastDay \in Nat /\ Today \in Nat \ {0}
  /\ Weekend \subseteq 1..LastDay
  /\ priceForWorkingDays \in Nat /\ priceForWeekends \in Nat /\ initialPrice \in Nat
  /\ numberofpeople \in Nat /\ ExtraPerson \in Nat
  /\ MaxPeople \in Nat \ {0}

VARIABLES
  cal,      \* CalendarTVC: firstDate, lastDate, datesRange; and the selectedDates of its calendar
  sum,      \* the number of people on the counter
  detail    \* HomeDetailVC: totalSum, dayCount, lastPeopleNum, and the price shown

vars == <<cal, sum, detail>>

Day == 1..LastDay
NoDate == 0

NoRange == [first |-> NoDate, last |-> NoDate, range |-> {}, selected |-> {}]

\* datesRange(from:to:)
datesRange(from, to) == from..to

cost(dates) ==
  Cardinality(dates \cap Weekend) * priceForWeekends
    + Cardinality(dates \ Weekend) * priceForWorkingDays

-----------------------------------------------------------------------------
\* Mutant: the day tapped first stays highlighted when an earlier one follows.
didSelectKeepsFirst(c, d) ==
  LET selected == c.selected \cup {d} IN
  CASE c.first = NoDate ->
         [first |-> d, last |-> NoDate, range |-> {d}, selected |-> selected]
    [] c.first # NoDate /\ c.last = NoDate /\ d <= c.first ->
         [first |-> d, last |-> NoDate, range |-> {d}, selected |-> selected]
    [] c.first # NoDate /\ c.last = NoDate /\ d > c.first ->
         [first |-> c.first, last |-> d, range |-> datesRange(c.first, d),
          selected |-> selected \cup datesRange(c.first, d)]
    [] c.first # NoDate /\ c.last # NoDate -> NoRange

\* The calendar has added day d to its selection.  A day not after the first
\* takes its place, a later one completes the range, and the one after that
\* clears all; day d itself, selected again, goes out of the selection.
didSelect(c, d) ==
  LET selected == c.selected \cup {d} IN
  CASE c.first = NoDate ->
         [first |-> d, last |-> NoDate, range |-> {d}, selected |-> selected]
    [] c.first # NoDate /\ c.last = NoDate /\ d <= c.first ->
         [first |-> d, last |-> NoDate, range |-> {d}, selected |-> selected \ {c.first}]
    [] c.first # NoDate /\ c.last = NoDate /\ d > c.first ->
         [first |-> c.first, last |-> d, range |-> datesRange(c.first, d),
          selected |-> selected \cup datesRange(c.first, d)]
    [] c.first # NoDate /\ c.last # NoDate -> NoRange

\* Mutant: the code that a note calls redundant is taken out.
didDeselectNothing(c, d) == [c EXCEPT !.selected = @ \ {d}]

\* The calendar has taken day d out of its selection: a range goes as a whole.
didDeselect(c, d) ==
  IF c.first # NoDate /\ c.last # NoDate THEN NoRange
  ELSE [c EXCEPT !.selected = @ \ {d}]

\* The delegate hears of a completed range, and of nothing else: when the
\* range is cleared, the price of the one before stays.
rangeSelected(dates) ==
  [detail EXCEPT !.totalSum = cost(dates), !.dayCount = Cardinality(dates) - 1, !.price = cost(dates)]

detailAfterSelect(d) ==
  IF cal.first # NoDate /\ cal.last = NoDate /\ d > cal.first
    THEN rangeSelected(datesRange(cal.first, d))
    ELSE detail

Init ==
  /\ cal = NoRange
  /\ sum = 1
  /\ detail = [totalSum |-> 0, dayCount |-> 0, lastPeopleNum |-> 0, price |-> initialPrice]

\* A tap or a swipe over a day that is not selected.
DaySelected(d) ==
  /\ d \notin cal.selected /\ d >= Today
  /\ cal' = didSelect(cal, d)
  /\ detail' = detailAfterSelect(d)
  /\ UNCHANGED sum

\* A swipe over such a day of the month before or after, at the edge of the
\* page: the calendar selects it and then reports it once more.
DaySelectedTwice(d) ==
  /\ d \notin cal.selected /\ d >= Today
  /\ cal' = didSelect(didSelect(cal, d), d)
  /\ detail' = detailAfterSelect(d)
  /\ UNCHANGED sum

\* A tap or a swipe over a selected day, or a swipe over a day of the past,
\* which the calendar refuses to select and then deselects.
DayDeselected(d) ==
  /\ d \in cal.selected \/ d < Today
  /\ cal' = didDeselect(cal, d)
  /\ UNCHANGED <<sum, detail>>

-----------------------------------------------------------------------------
\* Mutant: a price for extra people stays when the last of them goes.
personAddedMoreOnly(num) ==
  LET surcharge == (num - numberofpeople) * (detail.dayCount * ExtraPerson) IN
  IF numberofpeople < num /\ detail.dayCount > 0
    THEN [detail EXCEPT !.price = detail.totalSum + surcharge, !.lastPeopleNum = num]
    ELSE [detail EXCEPT !.lastPeopleNum = num]

\* The counter's didSet.
personAdded(num) ==
  LET surcharge == (num - numberofpeople) * (detail.dayCount * ExtraPerson) IN
  IF numberofpeople <= num /\ detail.dayCount > 0
    THEN [detail EXCEPT !.price = detail.totalSum + surcharge, !.lastPeopleNum = num]
  ELSE IF detail.lastPeopleNum > numberofpeople /\ detail.dayCount > 0
    THEN [detail EXCEPT !.price = detail.totalSum, !.lastPeopleNum = num]
  ELSE [detail EXCEPT !.lastPeopleNum = num]

plusPressed ==
  /\ sum < MaxPeople
  /\ sum' = sum + 1
  /\ detail' = personAdded(sum + 1)
  /\ UNCHANGED cal

\* Mutant: the last person can be taken away.
minusPressedToZero ==
  /\ sum > 0
  /\ sum' = sum - 1
  /\ detail' = personAdded(sum - 1)
  /\ UNCHANGED cal

minusPressed ==
  /\ sum > 1
  /\ sum' = sum - 1
  /\ detail' = personAdded(sum - 1)
  /\ UNCHANGED cal

Next ==
  \/ \E d \in Day : DaySelected(d)
  \/ \E d \in Day : DaySelectedTwice(d)
  \/ \E d \in Day : DayDeselected(d)
  \/ plusPressed
  \/ minusPressed

Spec == Init /\ [][Next]_vars

-----------------------------------------------------------------------------
TypeOK ==
  /\ cal \in [first : Day \cup {NoDate}, last : Day \cup {NoDate}, range : SUBSET Day, selected : SUBSET Day]
  /\ sum \in 1..MaxPeople
  /\ detail \in [totalSum : Nat, dayCount : Nat, lastPeopleNum : Nat, price : Nat]

\* Once both dates are set, the days highlighted, the days kept and the days
\* the price was made of are the same: all from the first to the last, which no
\* tap, swipe or report of the calendar that came twice has cut or stretched.
RangeIsWhole ==
  cal.last # NoDate =>
    /\ Today <= cal.first /\ cal.first < cal.last
    /\ cal.range = cal.first..cal.last
    /\ cal.selected = cal.first..cal.last
    /\ detail.totalSum = cost(cal.first..cal.last)
    /\ detail.dayCount = cal.last - cal.first

\* Until both are set nothing is highlighted but the first date, though the
\* calendar and the cell each keep a selection of their own.
NothingElseSelected == cal.last = NoDate => cal.selected \subseteq {cal.first}

\* The price on the screen is the one it opened with until a range is complete;
\* from then on it is that of the last complete range, and the surcharge on it,
\* if there is one, is for the people on the counter, however it got there.
PriceIsExplained ==
  IF detail.dayCount = 0 THEN detail.price = initialPrice
  ELSE detail.price \in {detail.totalSum} \cup
         {detail.totalSum + n * detail.dayCount * ExtraPerson : n \in {sum - numberofpeople} \cap Nat}

=============================================================================
