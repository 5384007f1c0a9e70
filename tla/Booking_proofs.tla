---------------------------- MODULE Booking_proofs ----------------------------
(***************************************************************************)
(* The calendar and the price, for any month, past, weekend and prices.    *)
(***************************************************************************)
EXTENDS Booking, FiniteSetTheorems, TLAPS

(* The cell's dates and the calendar's selection, by how many dates are    *)
(* set: none, the first, or both.                                          *)
CalShape(c) ==
  /\ c \in [first : Day \cup {NoDate}, last : Day \cup {NoDate}, range : SUBSET Day, selected : SUBSET Day]
  /\ c.first = NoDate => c.last = NoDate
  /\ c.first # NoDate => Today <= c.first
  /\ c.last = NoDate => c.selected \subseteq {c.first}
  /\ c.last # NoDate =>
       /\ c.first < c.last
       /\ c.range = c.first..c.last
       /\ c.selected = c.first..c.last

(* The screen knows the price and the length of the range that is set.     *)
Told ==
  cal.last # NoDate =>
    /\ detail.totalSum = cost(cal.first..cal.last)
    /\ detail.dayCount = cal.last - cal.first

Inv == TypeOK /\ CalShape(cal) /\ Told /\ PriceIsExplained

-----------------------------------------------------------------------------
LEMMA ProductNat == \A a, b \in Nat : a * b \in Nat
  BY SMT

LEMMA CostNat ==
  ASSUME NEW from \in Int, NEW to \in Int
  PROVE  cost(from..to) \in Nat
<1>1. IsFiniteSet(from..to)
  BY FS_Interval
<1>2. IsFiniteSet((from..to) \cap Weekend) /\ IsFiniteSet((from..to) \ Weekend)
  BY <1>1, FS_Subset
<1>3. Cardinality((from..to) \cap Weekend) \in Nat /\ Cardinality((from..to) \ Weekend) \in Nat
  BY <1>2, FS_CardinalityType
<1> DEFINE a == Cardinality((from..to) \cap Weekend)
           b == Cardinality((from..to) \ Weekend)
<1>4. a * priceForWeekends \in Nat /\ b * priceForWorkingDays \in Nat
  BY <1>3, ProductNat, BookingAssumption
<1> QED BY <1>4 DEF cost

(* A report of the calendar that day d is selected keeps the shape, and    *)
(* completes a range only from the first date to a later one.              *)
LEMMA didSelectShape ==
  ASSUME NEW c, CalShape(c), NEW d \in Day, Today <= d
  PROVE  /\ CalShape(didSelect(c, d))
         /\ didSelect(c, d).last # NoDate =>
              /\ c.first # NoDate /\ c.last = NoDate /\ d > c.first
              /\ didSelect(c, d).first = c.first /\ didSelect(c, d).last = d
<1> USE BookingAssumption DEF Day, NoDate
<1>1. CASE c.first = NoDate
  <2>1. didSelect(c, d) = [first |-> d, last |-> NoDate, range |-> {d}, selected |-> c.selected \cup {d}]
    BY <1>1 DEF didSelect
  <2>2. c.selected = {}
    BY <1>1 DEF CalShape
  <2> QED BY <2>1, <2>2 DEF CalShape
<1>2. CASE c.first # NoDate /\ c.last = NoDate /\ d <= c.first
  <2>1. didSelect(c, d) = [first |-> d, last |-> NoDate, range |-> {d},
                           selected |-> (c.selected \cup {d}) \ {c.first}]
    BY <1>2 DEF didSelect, CalShape
  <2> QED BY <1>2, <2>1 DEF CalShape
<1>3. CASE c.first # NoDate /\ c.last = NoDate /\ d > c.first
  <2>1. didSelect(c, d) = [first |-> c.first, last |-> d, range |-> c.first..d,
                           selected |-> (c.selected \cup {d}) \cup (c.first..d)]
    BY <1>3 DEF didSelect, CalShape, datesRange
  <2>2. c.first \in Day /\ c.selected \subseteq {c.first}
    BY <1>3 DEF CalShape
  <2>3. (c.selected \cup {d}) \cup (c.first..d) = c.first..d
    BY <1>3, <2>2
  <2>4. c.first..d \in SUBSET Day
    BY <2>2
  <2> QED BY <1>3, <2>1, <2>2, <2>3, <2>4 DEF CalShape
<1>4. CASE c.first # NoDate /\ c.last # NoDate
  <2>1. didSelect(c, d) = NoRange
    BY <1>4 DEF didSelect
  <2> QED BY <2>1 DEF NoRange, CalShape
<1> QED BY <1>1, <1>2, <1>3, <1>4 DEF CalShape

LEMMA didDeselectShape ==
  ASSUME NEW c, CalShape(c), NEW d \in Day
  PROVE  CalShape(didDeselect(c, d)) /\ didDeselect(c, d).last = NoDate
  BY BookingAssumption DEF CalShape, didDeselect, NoRange, Day, NoDate

(* A completed range: its price is its cost, and it has at least one day   *)
(* more than none.                                                         *)
LEMMA rangeSelectedTold ==
  ASSUME TypeOK, NEW from \in Day, NEW to \in Day, from < to
  PROVE  /\ rangeSelected(from..to) \in [totalSum : Nat, dayCount : Nat, lastPeopleNum : Nat, price : Nat]
         /\ rangeSelected(from..to).totalSum = cost(from..to)
         /\ rangeSelected(from..to).price = cost(from..to)
         /\ rangeSelected(from..to).dayCount = to - from
<1>1. Cardinality(from..to) = to - from + 1
  BY FS_Interval DEF Day
<1>2. cost(from..to) \in Nat
  BY CostNat DEF Day
<1> DEFINE s == cost(from..to)
<1>3. to - from \in Nat
  BY BookingAssumption DEF Day
<1>4. detail = [totalSum |-> detail.totalSum, dayCount |-> detail.dayCount,
                lastPeopleNum |-> detail.lastPeopleNum, price |-> detail.price]
      /\ detail.lastPeopleNum \in Nat
  BY DEF TypeOK
<1>5. Cardinality(from..to) - 1 = to - from
  BY <1>1 DEF Day
<1> HIDE DEF s
<1>6. rangeSelected(from..to) = [detail EXCEPT !.totalSum = s, !.dayCount = to - from, !.price = s]
  BY <1>5 DEF rangeSelected, s
<1>7. rangeSelected(from..to) = [totalSum |-> s, dayCount |-> to - from,
                                 lastPeopleNum |-> detail.lastPeopleNum, price |-> s]
  BY <1>4, <1>6
<1>8. s \in Nat
  BY <1>2 DEF s
<1>9. s = cost(from..to)
  BY DEF s
<1> HIDE DEF s
<1> QED BY <1>3, <1>4, <1>7, <1>8, <1>9

-----------------------------------------------------------------------------
LEMMA InvInit == Init => Inv
<1> SUFFICES ASSUME Init PROVE Inv
  OBVIOUS
<1> USE BookingAssumption DEF Init, NoRange, NoDate
<1>1. TypeOK
  BY DEF TypeOK
<1>2. CalShape(cal)
  BY DEF CalShape, Day
<1>3. Told /\ PriceIsExplained
  BY DEF Told, PriceIsExplained
<1> QED BY <1>1, <1>2, <1>3 DEF Inv

(* A day selected, with the range told to the screen when it is complete.  *)
LEMMA DaySelectedInv ==
  ASSUME Inv, NEW d \in Day, DaySelected(d)
  PROVE  Inv'
<1> USE BookingAssumption DEF NoDate
<1>1. Today <= d
  BY DEF DaySelected, Day
<1>2. /\ CalShape(cal')
      /\ cal'.last # NoDate =>
           /\ cal.first # NoDate /\ cal.last = NoDate /\ d > cal.first
           /\ cal'.first = cal.first /\ cal'.last = d
  BY <1>1, didSelectShape DEF DaySelected, Inv
<1>3. CASE cal.first # NoDate /\ cal.last = NoDate /\ d > cal.first
  <2>1. detail' = rangeSelected(cal.first..d)
    BY <1>3 DEF DaySelected, detailAfterSelect, datesRange
  <2>2. cal.first \in Day /\ cal.first < d
    BY <1>3 DEF Inv, CalShape, Day
  <2>3. /\ detail' \in [totalSum : Nat, dayCount : Nat, lastPeopleNum : Nat, price : Nat]
        /\ detail'.totalSum = cost(cal.first..d)
        /\ detail'.price = cost(cal.first..d)
        /\ detail'.dayCount = d - cal.first
    BY <2>1, <2>2, rangeSelectedTold DEF Inv
  <2>4. Told'
    BY <1>2, <2>3 DEF Told, cost
  <2>5. PriceIsExplained'
    BY <2>2, <2>3 DEF PriceIsExplained, Day
  <2>6. TypeOK'
    BY <1>2, <2>3 DEF TypeOK, CalShape, DaySelected, Inv
  <2> QED BY <1>2, <2>4, <2>5, <2>6 DEF Inv
<1>4. CASE ~(cal.first # NoDate /\ cal.last = NoDate /\ d > cal.first)
  <2>1. detail' = detail
    BY <1>4 DEF DaySelected, detailAfterSelect
  <2>2. cal'.last = NoDate
    BY <1>2, <1>4
  <2>3. TypeOK' /\ Told' /\ PriceIsExplained'
    BY <1>2, <2>1, <2>2 DEF Inv, TypeOK, CalShape, Told, PriceIsExplained, DaySelected
  <2> QED BY <1>2, <2>3 DEF Inv
<1> QED BY <1>3, <1>4

(* A day reported twice leaves at most a first date.                       *)
LEMMA DaySelectedTwiceInv ==
  ASSUME Inv, NEW d \in Day, DaySelectedTwice(d)
  PROVE  Inv'
<1> USE BookingAssumption DEF NoDate
<1>1. Today <= d
  BY DEF DaySelectedTwice, Day
<1> DEFINE c == didSelect(cal, d)
<1>2. /\ CalShape(c)
      /\ c.last # NoDate => d > cal.first /\ c.last = d /\ c.first = cal.first /\ cal.first # NoDate
  BY <1>1, didSelectShape DEF Inv
<1> HIDE DEF c
<1>3. /\ CalShape(didSelect(c, d))
      /\ didSelect(c, d).last # NoDate => c.first # NoDate /\ c.last = NoDate /\ d > c.first
  BY <1>1, <1>2, didSelectShape
<1>4. cal' = didSelect(c, d)
  BY DEF DaySelectedTwice, c
<1>5. c.last = NoDate => c.first = d \/ c.first = NoDate
  BY DEF c, didSelect, Inv, CalShape, NoRange, Day
<1>6. cal'.last = NoDate
  BY <1>3, <1>4, <1>5 DEF Day
<1>7. CASE cal.first # NoDate /\ cal.last = NoDate /\ d > cal.first
  <2>1. detail' = rangeSelected(cal.first..d)
    BY <1>7 DEF DaySelectedTwice, detailAfterSelect, datesRange
  <2>2. cal.first \in Day /\ cal.first < d
    BY <1>7 DEF Inv, CalShape, Day
  <2>3. /\ detail' \in [totalSum : Nat, dayCount : Nat, lastPeopleNum : Nat, price : Nat]
        /\ detail'.totalSum = cost(cal.first..d)
        /\ detail'.price = cost(cal.first..d)
        /\ detail'.dayCount = d - cal.first
    BY <2>1, <2>2, rangeSelectedTold DEF Inv
  <2>4. Told'
    BY <1>6 DEF Told
  <2>5. PriceIsExplained'
    BY <2>2, <2>3 DEF PriceIsExplained, Day
  <2>6. TypeOK'
    BY <1>3, <1>4, <2>3 DEF TypeOK, CalShape, DaySelectedTwice, Inv
  <2> QED BY <1>3, <1>4, <2>4, <2>5, <2>6 DEF Inv
<1>8. CASE ~(cal.first # NoDate /\ cal.last = NoDate /\ d > cal.first)
  <2>1. detail' = detail
    BY <1>8 DEF DaySelectedTwice, detailAfterSelect
  <2>2. TypeOK' /\ Told' /\ PriceIsExplained'
    BY <1>3, <1>4, <1>6, <2>1 DEF Inv, TypeOK, CalShape, Told, PriceIsExplained, DaySelectedTwice
  <2> QED BY <1>3, <1>4, <2>2 DEF Inv
<1> QED BY <1>7, <1>8

LEMMA DayDeselectedInv ==
  ASSUME Inv, NEW d \in Day, DayDeselected(d)
  PROVE  Inv'
<1>1. CalShape(cal') /\ cal'.last = NoDate
  BY didDeselectShape DEF DayDeselected, Inv
<1>2. TypeOK' /\ Told' /\ PriceIsExplained'
  BY <1>1 DEF Inv, TypeOK, CalShape, Told, PriceIsExplained, DayDeselected
<1> QED BY <1>1, <1>2 DEF Inv

(* One person more or less: the surcharge follows the counter.  When it    *)
(* falls below the number that is free of charge there was none before.    *)
LEMMA personAddedInv ==
  ASSUME Inv, NEW num \in 1..MaxPeople, num = sum + 1 \/ num = sum - 1,
         sum' = num, detail' = personAdded(num), UNCHANGED cal
  PROVE  Inv'
<1> USE BookingAssumption
<1>1. detail \in [totalSum : Nat, dayCount : Nat, lastPeopleNum : Nat, price : Nat] /\ sum \in 1..MaxPeople
  BY DEF Inv, TypeOK
<1>0. detail = [totalSum |-> detail.totalSum, dayCount |-> detail.dayCount,
                lastPeopleNum |-> detail.lastPeopleNum, price |-> detail.price]
  BY <1>1
<1> DEFINE surcharge(n) == n * (detail.dayCount * ExtraPerson)
<1>2. \A n \in Nat : n * detail.dayCount * ExtraPerson = surcharge(n) /\ surcharge(n) \in Nat
  BY <1>1, ProductNat
<1>3. surcharge(0) = 0
  BY <1>1, ProductNat
<1> HIDE DEF surcharge
<1>4. CASE numberofpeople <= num /\ detail.dayCount > 0
  <2>1. detail' = [detail EXCEPT !.price = detail.totalSum + surcharge(num - numberofpeople), !.lastPeopleNum = num]
    BY <1>4 DEF personAdded, surcharge
  <2>2. num - numberofpeople \in {sum' - numberofpeople} \cap Nat
    BY <1>4
  <2>3. TypeOK'
    <3>1. detail.totalSum + surcharge(num - numberofpeople) \in Nat
      BY <1>1, <1>2, <2>2
    <3>2. detail' = [totalSum |-> detail.totalSum, dayCount |-> detail.dayCount, lastPeopleNum |-> num,
                     price |-> detail.totalSum + surcharge(num - numberofpeople)]
      BY <1>0, <2>1
    <3>3. num \in Nat
      OBVIOUS
    <3>4. detail' \in [totalSum : Nat, dayCount : Nat, lastPeopleNum : Nat, price : Nat]
      BY <1>1, <3>1, <3>2, <3>3
    <3> QED BY <3>4 DEF Inv, TypeOK
  <2>4. PriceIsExplained'
    BY <1>1, <1>2, <1>4, <2>1, <2>2 DEF PriceIsExplained
  <2> QED BY <1>1, <2>1, <2>3, <2>4 DEF Inv, Told
<1>5. CASE ~(numberofpeople <= num /\ detail.dayCount > 0)
           /\ detail.lastPeopleNum > numberofpeople /\ detail.dayCount > 0
  <2>1. detail' = [detail EXCEPT !.price = detail.totalSum, !.lastPeopleNum = num]
    BY <1>5 DEF personAdded
  <2>2. detail' = [totalSum |-> detail.totalSum, dayCount |-> detail.dayCount, lastPeopleNum |-> num,
                   price |-> detail.totalSum]
    BY <1>0, <2>1
  <2>3. detail' \in [totalSum : Nat, dayCount : Nat, lastPeopleNum : Nat, price : Nat]
    BY <1>1, <2>2
  <2>4. TypeOK' /\ PriceIsExplained'
    BY <1>1, <1>5, <2>2, <2>3 DEF Inv, TypeOK, PriceIsExplained
  <2> QED BY <1>1, <2>1, <2>4 DEF Inv, Told
<1>6. CASE ~(numberofpeople <= num /\ detail.dayCount > 0)
           /\ ~(detail.lastPeopleNum > numberofpeople /\ detail.dayCount > 0)
  <2>1. detail' = [detail EXCEPT !.lastPeopleNum = num]
    BY <1>6 DEF personAdded
  <2>2. CASE detail.dayCount = 0
    BY <1>1, <2>1, <2>2 DEF Inv, TypeOK, PriceIsExplained, Told
  <2>3. CASE detail.dayCount # 0
    <3>1. num < numberofpeople
      BY <1>1, <1>6, <2>3
    <3>2. \A n \in {sum - numberofpeople} \cap Nat : n = 0
      BY <1>1, <3>1
    <3>3. detail.price = detail.totalSum
      BY <1>1, <1>2, <1>3, <2>3, <3>2 DEF Inv, PriceIsExplained
    <3>4. TypeOK' /\ PriceIsExplained'
      BY <1>1, <2>1, <2>3, <3>3 DEF Inv, TypeOK, PriceIsExplained
    <3> QED BY <1>1, <2>1, <3>4 DEF Inv, Told
  <2> QED BY <2>2, <2>3
<1> QED BY <1>4, <1>5, <1>6

LEMMA InvNext == Inv /\ [Next]_vars => Inv'
<1> SUFFICES ASSUME Inv, [Next]_vars
             PROVE  Inv'
  OBVIOUS
<1>1. ASSUME NEW d \in Day, DaySelected(d)
      PROVE  Inv'
  BY <1>1, DaySelectedInv
<1>2. ASSUME NEW d \in Day, DaySelectedTwice(d)
      PROVE  Inv'
  BY <1>2, DaySelectedTwiceInv
<1>3. ASSUME NEW d \in Day, DayDeselected(d)
      PROVE  Inv'
  BY <1>3, DayDeselectedInv
<1>4. CASE plusPressed
  <2>1. sum + 1 \in 1..MaxPeople
    BY <1>4, BookingAssumption DEF plusPressed, Inv, TypeOK
  <2> QED BY <1>4, <2>1, personAddedInv DEF plusPressed
<1>5. CASE minusPressed
  <2>1. sum - 1 \in 1..MaxPeople
    BY <1>5, BookingAssumption DEF minusPressed, Inv, TypeOK
  <2> QED BY <1>5, <2>1, personAddedInv DEF minusPressed
<1>6. CASE UNCHANGED vars
  BY <1>6 DEF vars, Inv, TypeOK, CalShape, Told, PriceIsExplained
<1> QED BY <1>1, <1>2, <1>3, <1>4, <1>5, <1>6 DEF Next

LEMMA Invariance == Spec => []Inv
  BY InvInit, InvNext, PTL DEF Spec

(* The dates, the counter and the price keep their types.                  *)
THEOREM TypeCorrect == Spec => []TypeOK
<1>1. Inv => TypeOK
  BY DEF Inv
<1> QED BY <1>1, Invariance, PTL

(* Whatever the calendar reports, and however often, a range is whole: the *)
(* days highlighted, kept and priced are all from its first to its last.   *)
THEOREM RangesAreWhole == Spec => []RangeIsWhole
<1>1. Inv => RangeIsWhole
  BY BookingAssumption DEF Inv, CalShape, Told, RangeIsWhole, NoDate, Day
<1> QED BY <1>1, Invariance, PTL

(* Without a range no day but the first date is highlighted.               *)
THEOREM OnlyTheFirstIsSelected == Spec => []NothingElseSelected
<1>1. Inv => NothingElseSelected
  BY DEF Inv, CalShape, NothingElseSelected
<1> QED BY <1>1, Invariance, PTL

(* The price shown is that of the last complete range, with the surcharge  *)
(* for the people on the counter or with none.                             *)
THEOREM PricesAreExplained == Spec => []PriceIsExplained
<1>1. Inv => PriceIsExplained
  BY DEF Inv
<1> QED BY <1>1, Invariance, PTL

-----------------------------------------------------------------------------
(* A range that is set goes as a whole, by any report of the calendar, and *)
(* takes no price with it (didSelect and didDeselect of CalendarTVC).      *)
RangeGoesAsAWhole == [][cal.last # NoDate /\ cal' # cal => cal'.last = NoDate /\ detail' = detail]_vars

(* A price is made only of a range that has just been completed from the   *)
(* first date on, though a report that comes twice clears that range       *)
(* before anyone has seen it (rangeSelected of HomeDetailVC).              *)
PricedWhenComplete ==
  [][detail'.totalSum # detail.totalSum \/ detail'.dayCount # detail.dayCount =>
       /\ cal.first # NoDate /\ cal.last = NoDate
       /\ cal' = NoRange \/ (cal'.first = cal.first /\ cal'.last # NoDate)]_vars

LEMMA DaySelectedTells ==
  ASSUME Inv, NEW d \in Day, DaySelected(d) \/ DaySelectedTwice(d)
  PROVE  /\ cal.last # NoDate => cal'.last = NoDate /\ detail' = detail
         /\ detail' # detail =>
              /\ cal.first # NoDate /\ cal.last = NoDate
              /\ cal' = NoRange \/ (cal'.first = cal.first /\ cal'.last # NoDate)
<1> USE BookingAssumption DEF NoDate
<1>1. Today <= d /\ CalShape(cal) /\ detail' = detailAfterSelect(d)
  BY DEF DaySelected, DaySelectedTwice, Inv, Day
<1> DEFINE c == didSelect(cal, d)
<1>2. CASE cal.first # NoDate /\ cal.last = NoDate /\ d > cal.first
  <2>1. c = [first |-> cal.first, last |-> d, range |-> datesRange(cal.first, d),
             selected |-> (cal.selected \cup {d}) \cup datesRange(cal.first, d)]
    BY <1>1, <1>2 DEF didSelect, CalShape
  <2>2. c.first = cal.first /\ c.last = d /\ d # NoDate
    BY <2>1 DEF Day
  <2> HIDE DEF c
  <2>3. didSelect(c, d) = NoRange
    BY <1>2, <2>2 DEF didSelect
  <2> QED BY <1>2, <2>2, <2>3 DEF DaySelected, DaySelectedTwice, c
<1>3. CASE ~(cal.first # NoDate /\ cal.last = NoDate /\ d > cal.first)
  <2>1. detail' = detail
    BY <1>1, <1>3 DEF detailAfterSelect
  <2>2. ASSUME cal.last # NoDate
        PROVE  cal'.last = NoDate
    <3>1. c = NoRange
      BY <1>1, <2>2 DEF didSelect, CalShape
    <3>2. CalShape(c)
      BY <1>1, didSelectShape
    <3> HIDE DEF c
    <3>3. c.first = NoDate
      BY <3>1 DEF NoRange
    <3>4. didSelect(c, d).last = NoDate
      BY <1>1, <3>2, <3>3, didSelectShape
    <3> QED BY <3>1, <3>4 DEF DaySelected, DaySelectedTwice, NoRange, c
  <2> QED BY <2>1, <2>2
<1> QED BY <1>2, <1>3

LEMMA PersonTold ==
  ASSUME Inv, NEW num \in 1..MaxPeople, detail' = personAdded(num)
  PROVE  detail'.totalSum = detail.totalSum /\ detail'.dayCount = detail.dayCount
<1>1. detail \in [totalSum : Nat, dayCount : Nat, lastPeopleNum : Nat, price : Nat]
  BY DEF Inv, TypeOK
<1> QED BY <1>1 DEF personAdded

LEMMA RangesAndPricesNext ==
  ASSUME Inv, [Next]_vars
  PROVE  /\ cal.last # NoDate /\ cal' # cal => cal'.last = NoDate /\ detail' = detail
         /\ detail'.totalSum # detail.totalSum \/ detail'.dayCount # detail.dayCount =>
              /\ cal.first # NoDate /\ cal.last = NoDate
              /\ cal' = NoRange \/ (cal'.first = cal.first /\ cal'.last # NoDate)
<1>1. ASSUME NEW d \in Day, DaySelected(d) \/ DaySelectedTwice(d)
      PROVE  /\ cal.last # NoDate => cal'.last = NoDate /\ detail' = detail
             /\ detail' # detail =>
                  /\ cal.first # NoDate /\ cal.last = NoDate
                  /\ cal' = NoRange \/ (cal'.first = cal.first /\ cal'.last # NoDate)
  BY <1>1, DaySelectedTells
<1>2. ASSUME NEW d \in Day, DayDeselected(d)
      PROVE  cal'.last = NoDate /\ detail' = detail
  BY <1>2, didDeselectShape DEF DayDeselected, Inv
<1>3. CASE plusPressed \/ minusPressed
  <2>1. \E num \in 1..MaxPeople : detail' = personAdded(num)
    BY <1>3, BookingAssumption DEF plusPressed, minusPressed, Inv, TypeOK
  <2> QED BY <1>3, <2>1, PersonTold DEF plusPressed, minusPressed
<1>4. CASE UNCHANGED vars
  BY <1>4 DEF vars
<1> QED BY <1>1, <1>2, <1>3, <1>4 DEF Next

(* Both hold over taps, swipes and days reported twice.                    *)
THEOREM RangesGoAsAWhole == Spec => RangeGoesAsAWhole /\ PricedWhenComplete
<1>1. Inv /\ [Next]_vars =>
        [cal.last # NoDate /\ cal' # cal => cal'.last = NoDate /\ detail' = detail]_vars
  BY RangesAndPricesNext
<1>2. Inv /\ [Next]_vars =>
        [detail'.totalSum # detail.totalSum \/ detail'.dayCount # detail.dayCount =>
           /\ cal.first # NoDate /\ cal.last = NoDate
           /\ cal' = NoRange \/ (cal'.first = cal.first /\ cal'.last # NoDate)]_vars
  BY RangesAndPricesNext
<1> QED BY <1>1, <1>2, Invariance, PTL DEF Spec, RangeGoesAsAWhole, PricedWhenComplete

(* What the people over the number included pay for the days of the last   *)
(* range.                                                                  *)
Surcharge(num) ==
  IF numberofpeople < num THEN (num - numberofpeople) * (detail.dayCount * ExtraPerson) ELSE 0

(* The surcharge that a range chosen after the people has dropped comes    *)
(* back with any press of the counter: after it the price is that of the   *)
(* last range and of all the people who have to pay, whatever came before  *)
(* (personAdded of HomeDetailVC).                                          *)
CounterSettlesThePrice ==
  [][sum' # sum /\ detail.dayCount > 0 => detail'.price = detail.totalSum + Surcharge(sum')]_vars

LEMMA PersonAddedSettles ==
  ASSUME Inv, NEW num \in 1..MaxPeople, num = sum + 1 \/ num = sum - 1, detail.dayCount > 0
  PROVE  personAdded(num).price = detail.totalSum + Surcharge(num)
<1> USE BookingAssumption
<1>1. detail \in [totalSum : Nat, dayCount : Nat, lastPeopleNum : Nat, price : Nat] /\ sum \in 1..MaxPeople
  BY DEF Inv, TypeOK
<1> DEFINE daily == detail.dayCount * ExtraPerson
<1>2. daily \in Nat
  BY <1>1, ProductNat
<1>3. \A n \in Nat : n * detail.dayCount * ExtraPerson = n * daily
  BY <1>1, ProductNat
<1>4. 0 * daily = 0
  BY <1>2
<1> HIDE DEF daily
<1>5. CASE numberofpeople <= num
  <2>1. personAdded(num).price = detail.totalSum + (num - numberofpeople) * daily
    BY <1>1, <1>5 DEF personAdded, daily
  <2>2. (num - numberofpeople) * daily = Surcharge(num)
    <3>1. CASE numberofpeople < num
      BY <3>1 DEF Surcharge, daily
    <3>2. CASE numberofpeople = num
      <4>1. num - numberofpeople = 0
        BY <3>2
      <4> QED BY <1>4, <3>2, <4>1 DEF Surcharge
    <3> QED BY <1>5, <3>1, <3>2
  <2> QED BY <2>1, <2>2
<1>6. CASE num < numberofpeople
  <2>1. Surcharge(num) = 0
    BY <1>6 DEF Surcharge
  <2>2. detail.price = detail.totalSum
    <3>1. \A n \in {sum - numberofpeople} \cap Nat : n = 0
      BY <1>1, <1>6
    <3> QED BY <1>1, <1>3, <1>4, <3>1 DEF Inv, PriceIsExplained
  <2>3. personAdded(num).price \in {detail.price, detail.totalSum}
    BY <1>1, <1>6 DEF personAdded
  <2> QED BY <1>1, <2>1, <2>2, <2>3
<1> QED BY <1>5, <1>6

(* The price is whole after any press of the counter, for any prices and   *)
(* people.                                                                 *)
THEOREM CounterMakesThePriceWhole == Spec => CounterSettlesThePrice
<1>1. ASSUME Inv, [Next]_vars, sum' # sum, detail.dayCount > 0
      PROVE  detail'.price = detail.totalSum + Surcharge(sum')
  <2>1. plusPressed \/ minusPressed
    BY <1>1 DEF Next, DaySelected, DaySelectedTwice, DayDeselected, vars
  <2>2. /\ sum' \in 1..MaxPeople /\ (sum' = sum + 1 \/ sum' = sum - 1)
        /\ detail' = personAdded(sum')
    BY <1>1, <2>1, BookingAssumption DEF plusPressed, minusPressed, Inv, TypeOK
  <2> QED BY <1>1, <2>2, PersonAddedSettles
<1>2. Inv /\ [Next]_vars =>
        [sum' # sum /\ detail.dayCount > 0 => detail'.price = detail.totalSum + Surcharge(sum')]_vars
  BY <1>1
<1> QED BY <1>2, Invariance, PTL DEF Spec, CounterSettlesThePrice

=============================================================================
