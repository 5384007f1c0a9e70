---------------------------- MODULE FiltrVC_proofs ----------------------------
(***************************************************************************)
(* The filter over the home screen, for any rows, windows, prices and      *)
(* houses: what looks selected is applied, and the sheet leaves the home   *)
(* screen and its overlay in the order that HomeVC_proofs relies on.       *)
(***************************************************************************)
EXTENDS FiltrVC, HomeVC_proofs

SomeRows == SUBSET (0..4)
SomeDrawn == SUBSET {1, 3, 4}
Place == 15..315

SheetType ==
  [window : SomeRows, drawn : SomeDrawn, clearing : BOOLEAN, loaded : BOOLEAN,
   left : Place, right : Place, min : Int, max : Int]

SheetShape == chosen \subseteq Choice /\ sheet \in SheetType

Inv == HomeInv /\ SheetShape /\ DrawnIsApplied

-----------------------------------------------------------------------------
SheetOf(w, d, c, l, left, right, min, max) ==
  [window |-> w, drawn |-> d, clearing |-> c, loaded |-> l,
   left |-> left, right |-> right, min |-> min, max |-> max]

LEMMA SheetOfType ==
  ASSUME NEW w \in SomeRows, NEW d \in SomeDrawn, NEW c \in BOOLEAN, NEW l \in BOOLEAN,
         NEW left \in Place, NEW right \in Place, NEW min \in Int, NEW max \in Int
  PROVE  SheetOf(w, d, c, l, left, right, min, max) \in SheetType
  BY Zenon DEF SheetOf, SheetType

LEMMA SheetOfDrawn ==
  ASSUME NEW w, NEW d, NEW c, NEW l, NEW left, NEW right, NEW min, NEW max
  PROVE  SheetOf(w, d, c, l, left, right, min, max).drawn = d
  BY DEF SheetOf

(* A sheet is made of its fields, and they have their types.               *)
LEMMA SheetFields ==
  ASSUME NEW s \in SheetType
  PROVE  /\ s = SheetOf(s.window, s.drawn, s.clearing, s.loaded, s.left, s.right, s.min, s.max)
         /\ s.window \in SomeRows /\ s.drawn \in SomeDrawn
         /\ s.clearing \in BOOLEAN /\ s.loaded \in BOOLEAN
         /\ s.left \in Place /\ s.right \in Place /\ s.min \in Int /\ s.max \in Int
<1>1. s = SheetOf(s.window, s.drawn, s.clearing, s.loaded, s.left, s.right, s.min, s.max)
  BY DEF SheetType, SheetOf
<1>2. s.clearing \in BOOLEAN /\ s.loaded \in BOOLEAN
  BY Zenon DEF SheetType
<1>3. s.window \in SomeRows /\ s.drawn \in SomeDrawn /\ s.left \in Place /\ s.right \in Place /\ s.min \in Int /\ s.max \in Int
  BY Zenon DEF SheetType
<1> QED BY <1>1, <1>2, <1>3, Zenon

LEMMA NoSheetType == NoSheet \in SheetType /\ NoSheet.drawn = {}
<1>1. NoSheet = SheetOf({}, {}, FALSE, FALSE, 15, 315, 0, 0)
  BY DEF NoSheet, SheetOf
<1> DEFINE first == 15  last == 315  none == 0
<1>2. {} \in SomeRows /\ {} \in SomeDrawn /\ first \in Place /\ last \in Place /\ none \in Int
  BY DEF SomeRows, SomeDrawn, Place
<1> HIDE DEF first, last, none
<1>3. SheetOf({}, {}, FALSE, FALSE, first, last, none, none) \in SheetType
  BY <1>2, Zenon DEF SheetOf, SheetType
<1>4. NoSheet.drawn = {}
  BY DEF NoSheet
<1> USE DEF first, last, none
<1> QED BY <1>1, <1>3, <1>4

(* A change of a field, within its type, leaves the other fields.          *)
LEMMA SheetChanged ==
  ASSUME NEW s \in SheetType
  PROVE  /\ \A x \in SomeRows : [s EXCEPT !.window = x] \in SheetType /\ [s EXCEPT !.window = x].drawn = s.drawn
         /\ \A x \in BOOLEAN : [s EXCEPT !.clearing = x] \in SheetType /\ [s EXCEPT !.clearing = x].drawn = s.drawn
         /\ \A x \in BOOLEAN : [s EXCEPT !.loaded = x] \in SheetType /\ [s EXCEPT !.loaded = x].drawn = s.drawn
         /\ \A x \in SomeDrawn : [s EXCEPT !.drawn = x] \in SheetType /\ [s EXCEPT !.drawn = x].drawn = x
<1> DEFINE w == s.window  d == s.drawn  c == s.clearing  l == s.loaded
           left == s.left  right == s.right  min == s.min  max == s.max
<1>1. s = SheetOf(w, d, c, l, left, right, min, max)
  BY SheetFields
<1>2. /\ w \in SomeRows /\ d \in SomeDrawn /\ c \in BOOLEAN /\ l \in BOOLEAN
      /\ left \in Place /\ right \in Place /\ min \in Int /\ max \in Int
  BY SheetFields, Zenon
<1>3. s.drawn = d
  OBVIOUS
<1> HIDE DEF w, d, c, l, left, right, min, max
<1>4. ASSUME NEW x PROVE [s EXCEPT !.window = x] = SheetOf(x, d, c, l, left, right, min, max)
  BY <1>1 DEF SheetOf
<1>5. ASSUME NEW x PROVE [s EXCEPT !.clearing = x] = SheetOf(w, d, x, l, left, right, min, max)
  BY <1>1 DEF SheetOf
<1>6. ASSUME NEW x PROVE [s EXCEPT !.loaded = x] = SheetOf(w, d, c, x, left, right, min, max)
  BY <1>1 DEF SheetOf
<1>7. ASSUME NEW x PROVE [s EXCEPT !.drawn = x] = SheetOf(w, x, c, l, left, right, min, max)
  BY <1>1 DEF SheetOf
<1>10. ASSUME NEW x \in SomeRows
       PROVE  [s EXCEPT !.window = x] \in SheetType /\ [s EXCEPT !.window = x].drawn = s.drawn
  <2>1. SheetOf(x, d, c, l, left, right, min, max) \in SheetType
    BY <1>2, Zenon DEF SheetOf, SheetType
  <2>2. SheetOf(x, d, c, l, left, right, min, max).drawn = d
    BY SheetOfDrawn
  <2> QED BY <1>3, <1>4, <2>1, <2>2
<1>11. ASSUME NEW x \in BOOLEAN
       PROVE  [s EXCEPT !.clearing = x] \in SheetType /\ [s EXCEPT !.clearing = x].drawn = s.drawn
  <2>1. SheetOf(w, d, x, l, left, right, min, max) \in SheetType
    BY <1>2, Zenon DEF SheetOf, SheetType
  <2>2. SheetOf(w, d, x, l, left, right, min, max).drawn = d
    BY SheetOfDrawn
  <2> QED BY <1>3, <1>5, <2>1, <2>2
<1>12. ASSUME NEW x \in BOOLEAN
       PROVE  [s EXCEPT !.loaded = x] \in SheetType /\ [s EXCEPT !.loaded = x].drawn = s.drawn
  <2>1. SheetOf(w, d, c, x, left, right, min, max) \in SheetType
    BY <1>2, Zenon DEF SheetOf, SheetType
  <2>2. SheetOf(w, d, c, x, left, right, min, max).drawn = d
    BY SheetOfDrawn
  <2> QED BY <1>3, <1>6, <2>1, <2>2
<1>13. ASSUME NEW x \in SomeDrawn
       PROVE  [s EXCEPT !.drawn = x] \in SheetType /\ [s EXCEPT !.drawn = x].drawn = x
  <2>1. SheetOf(w, x, c, l, left, right, min, max) \in SheetType
    BY <1>2, Zenon DEF SheetOf, SheetType
  <2>2. SheetOf(w, x, c, l, left, right, min, max).drawn = x
    BY SheetOfDrawn
  <2> QED BY <1>3, <1>7, <2>1, <2>2
<1> HIDE DEF SheetOf
<1> QED BY <1>10, <1>11, <1>12, <1>13, Zenon

(* So does a circle, together with its price.                              *)
LEMMA CircleMoved ==
  ASSUME NEW s \in SheetType, NEW x \in Place, NEW y \in Int
  PROVE  /\ [s EXCEPT !.left = x, !.min = y] \in SheetType /\ [s EXCEPT !.left = x, !.min = y].drawn = s.drawn
         /\ [s EXCEPT !.right = x, !.max = y] \in SheetType /\ [s EXCEPT !.right = x, !.max = y].drawn = s.drawn
<1> DEFINE w == s.window  d == s.drawn  c == s.clearing  l == s.loaded
           left == s.left  right == s.right  min == s.min  max == s.max
<1>1. s = SheetOf(w, d, c, l, left, right, min, max)
  BY SheetFields
<1>2. /\ w \in SomeRows /\ d \in SomeDrawn /\ c \in BOOLEAN /\ l \in BOOLEAN
      /\ left \in Place /\ right \in Place /\ min \in Int /\ max \in Int
  BY SheetFields, Zenon
<1>3. s.drawn = d
  OBVIOUS
<1> HIDE DEF w, d, c, l, left, right, min, max
<1>4. [s EXCEPT !.left = x, !.min = y] = SheetOf(w, d, c, l, x, right, y, max)
  <2> DEFINE u == [s EXCEPT !.left = x, !.min = y]
  <2>1. u = [s EXCEPT !.left = x, !.min = y]
    OBVIOUS
  <2> HIDE DEF u
  <2>2. u = [window |-> w, drawn |-> d, clearing |-> c, loaded |-> l,
            left |-> x, right |-> right, min |-> y, max |-> max]
    BY <1>1, <2>1 DEF SheetOf
  <2> QED BY <2>1, <2>2 DEF SheetOf
<1>5. [s EXCEPT !.right = x, !.max = y] = SheetOf(w, d, c, l, left, x, min, y)
  <2> DEFINE u == [s EXCEPT !.right = x, !.max = y]
  <2>1. u = [s EXCEPT !.right = x, !.max = y]
    OBVIOUS
  <2> HIDE DEF u
  <2>2. u = [window |-> w, drawn |-> d, clearing |-> c, loaded |-> l,
            left |-> left, right |-> x, min |-> min, max |-> y]
    BY <1>1, <2>1 DEF SheetOf
  <2> QED BY <2>1, <2>2 DEF SheetOf
<1>6. [s EXCEPT !.left = x, !.min = y] \in SheetType /\ [s EXCEPT !.left = x, !.min = y].drawn = s.drawn
  <2>1. SheetOf(w, d, c, l, x, right, y, max) \in SheetType
    BY <1>2, Zenon DEF SheetOf, SheetType
  <2>2. SheetOf(w, d, c, l, x, right, y, max).drawn = d
    BY SheetOfDrawn
  <2> QED BY <1>3, <1>4, <2>1, <2>2
<1>7. [s EXCEPT !.right = x, !.max = y] \in SheetType /\ [s EXCEPT !.right = x, !.max = y].drawn = s.drawn
  <2>1. SheetOf(w, d, c, l, left, x, min, y) \in SheetType
    BY <1>2, Zenon DEF SheetOf, SheetType
  <2>2. SheetOf(w, d, c, l, left, x, min, y).drawn = d
    BY SheetOfDrawn
  <2> QED BY <1>3, <1>5, <2>1, <2>2
<1> HIDE DEF SheetOf
<1> QED BY <1>6, <1>7, Zenon

(* The rows whose choice is cleared as the cells of some rows are built.   *)
Cleared(s, rows) == IF s.clearing THEN rows ELSE {}

(* What building cells leaves of what was drawn, and of the slider.        *)
LEMMA cellsBuiltType ==
  ASSUME NEW s \in SheetType, NEW rows \in SomeRows, NEW prices \in Interval, NEW aside
  PROVE  /\ cellsBuilt(s, rows, prices, aside) \in SheetType
         /\ cellsBuilt(s, rows, prices, aside).drawn = s.drawn \ (Cleared(s, rows) \ aside)
         /\ cellsBuilt(s, rows, prices, aside).left = IF 0 \in Cleared(s, rows) THEN 15 ELSE s.left
         /\ cellsBuilt(s, rows, prices, aside).right = IF 0 \in Cleared(s, rows) THEN 315 ELSE s.right
         /\ cellsBuilt(s, rows, prices, aside).min = IF 0 \in rows THEN prices.min ELSE s.min
         /\ cellsBuilt(s, rows, prices, aside).max = IF 0 \in rows THEN prices.max ELSE s.max
<1> DEFINE t == cellsBuilt(s, rows, prices, aside)
           drawn == s.drawn \ (Cleared(s, rows) \ aside)
           clearing == s.clearing /\ 4 \notin rows
           left == IF 0 \in Cleared(s, rows) THEN 15 ELSE s.left
           right == IF 0 \in Cleared(s, rows) THEN 315 ELSE s.right
           min == IF 0 \in rows THEN prices.min ELSE s.min
           max == IF 0 \in rows THEN prices.max ELSE s.max
<1>1. s = SheetOf(s.window, s.drawn, s.clearing, s.loaded, s.left, s.right, s.min, s.max)
  BY SheetFields
<1>2. /\ s.window \in SomeRows /\ s.drawn \in SomeDrawn /\ s.clearing \in BOOLEAN /\ s.loaded \in BOOLEAN
      /\ s.left \in Place /\ s.right \in Place /\ s.min \in Int /\ s.max \in Int
  BY SheetFields, Zenon
<1>3. clearing \in BOOLEAN
  BY Zenon
<1>4. drawn \in SomeDrawn
  BY <1>2 DEF SomeDrawn
<1>5. left \in Place /\ right \in Place
  BY <1>2 DEF Place
<1>6. min \in Int /\ max \in Int
  BY <1>2 DEF Interval
<1>7. t = [s EXCEPT !.drawn = drawn, !.clearing = clearing, !.left = left, !.right = right,
                    !.min = min, !.max = max]
  BY Zenon DEF cellsBuilt, Cleared
<1> HIDE DEF t, drawn, clearing, left, right, min, max
<1>8. t = SheetOf(s.window, drawn, clearing, s.loaded, left, right, min, max)
  BY <1>1, <1>7 DEF SheetOf
<1>9. t \in SheetType
  BY <1>2, <1>3, <1>4, <1>5, <1>6, <1>8, SheetOfType, Zenon
<1>10. t.drawn = drawn
  BY <1>8, SheetOfDrawn
<1>11. t.left = left /\ t.right = right /\ t.min = min /\ t.max = max
  BY <1>8 DEF SheetOf
<1> QED BY <1>9, <1>10, <1>11 DEF t, drawn, left, right, min, max

(* Building cells clears the choice of a row only together with its look:  *)
(* that of a switch stays, and so does the look of the people scrolled     *)
(* aside, which is no selected guest or switch.                            *)
LEMMA RowsBuiltNext ==
  ASSUME NEW s \in SheetType, NEW rows \in SomeRows, NEW window \in SomeRows,
         priceInterval \in Interval, chosen \subseteq Choice,
         s.drawn \cap {1, 3} \subseteq chosen,
         RowsBuilt(s, rows, window)
  PROVE  SheetShape' /\ DrawnIsApplied' /\ UNCHANGED vars
<1>1. PICK aside \in {{}, {4}} :
        sheet' = [cellsBuilt(s, rows, priceInterval, aside) EXCEPT !.window = window]
  BY DEF RowsBuilt
<1> DEFINE t == cellsBuilt(s, rows, priceInterval, aside)
           cleared == Cleared(s, rows)
<1>2. /\ t \in SheetType
      /\ t.drawn = s.drawn \ (cleared \ aside)
  BY cellsBuiltType
<1> HIDE DEF t, cleared
<1>3. sheet' = [t EXCEPT !.window = window]
  BY <1>1 DEF t
<1>4. sheet' \in SheetType /\ sheet'.drawn = t.drawn
  BY <1>2, <1>3, SheetChanged, Zenon
<1>5. sheet' \in SheetType /\ sheet'.drawn = s.drawn \ (cleared \ aside)
  BY <1>2, <1>4, Zenon
<1>6. chosen' = chosen \ (cleared \cap {1, 2, 4})
  BY DEF RowsBuilt, choicesLeft, cleared, Cleared
<1>7. DrawnIsApplied'
  BY <1>5, <1>6 DEF DrawnIsApplied
<1> QED BY <1>5, <1>6, <1>7 DEF RowsBuilt, SheetShape

-----------------------------------------------------------------------------
LEMMA InvInit == FiltrInit => Inv
<1> SUFFICES ASSUME FiltrInit PROVE Inv
  OBVIOUS
<1>1. HomeInv
  BY HomeInvInit DEF FiltrInit
<1>2. SheetShape /\ DrawnIsApplied
  BY NoSheetType DEF FiltrInit, SheetShape, DrawnIsApplied
<1> QED BY <1>1, <1>2 DEF Inv

LEMMA SheetOpenedNext ==
  ASSUME Inv, SheetOpened
  PROVE  SheetShape' /\ DrawnIsApplied'
<1>1. PICK window \in Windows :
        sheet' = [cellsBuilt(NoSheet, window, priceInterval', {}) EXCEPT !.window = window]
  BY DEF SheetOpened
<1>2. priceInterval' \in Interval
  BY findPriceIntervalProperties DEF SheetOpened, FilterOpened, Inv, HomeInv, TypeOK, Interval
<1>3. window \in SomeRows
  BY FiltrAssumption DEF SomeRows
<1> DEFINE t == cellsBuilt(NoSheet, window, priceInterval', {})
<1>4. t \in SheetType /\ t.drawn = {}
  <2>1. NoSheet.drawn = {} /\ NoSheet \in SheetType
    BY NoSheetType
  <2> HIDE DEF t
  <2>2. t \in SheetType /\ t.drawn = NoSheet.drawn \ (Cleared(NoSheet, window) \ {})
    BY <1>2, <1>3, <2>1, cellsBuiltType DEF t
  <2> QED BY <2>1, <2>2
<1> HIDE DEF t
<1>5. sheet' = [t EXCEPT !.window = window]
  BY <1>1 DEF t
<1>6. sheet' \in SheetType /\ sheet'.drawn = {}
  BY <1>3, <1>4, <1>5, SheetChanged, Zenon
<1>7. chosen' = chosen
  BY DEF SheetOpened
<1> QED BY <1>6, <1>7 DEF SheetShape, DrawnIsApplied, Inv

(* A press sets or resets what it draws and what it chooses together, but  *)
(* for the switch, which goes by its look.                                 *)
LEMMA RowPressedNext ==
  ASSUME Inv, NEW r \in Choice, RowPressed(r)
  PROVE  SheetShape' /\ DrawnIsApplied' /\ UNCHANGED vars
<1>1. PICK on \in BOOLEAN :
        /\ r = 1 => (on <=> 1 \notin chosen)
        /\ r = 3 => (on <=> 3 \notin sheet.drawn)
        /\ chosen' = IF on THEN chosen \cup {r} ELSE chosen \ {r}
        /\ sheet' = [sheet EXCEPT !.drawn = IF on THEN @ \cup ({r} \ {2}) ELSE @ \ {r}]
  <2> DEFINE on == CASE r \in {1, 2} -> r \notin chosen [] r = 3 -> 3 \notin sheet.drawn [] r = 4 -> TRUE
  <2>1. on \in BOOLEAN /\ (r = 1 => (on <=> 1 \notin chosen)) /\ (r = 3 => (on <=> 3 \notin sheet.drawn))
    <3>1. CASE r = 1
      BY <3>1
    <3>2. CASE r = 2
      BY <3>2
    <3>3. CASE r = 3
      BY <3>3
    <3>4. CASE r = 4
      BY <3>4
    <3> HIDE DEF on
    <3> QED BY <3>1, <3>2, <3>3, <3>4 DEF Choice
  <2>2. /\ chosen' = IF on THEN chosen \cup {r} ELSE chosen \ {r}
        /\ sheet' = [sheet EXCEPT !.drawn = IF on THEN @ \cup ({r} \ {2}) ELSE @ \ {r}]
    BY DEF RowPressed
  <2> HIDE DEF on
  <2> QED BY <2>1, <2>2
<1> DEFINE drawn == IF on THEN sheet.drawn \cup ({r} \ {2}) ELSE sheet.drawn \ {r}
<1>2. sheet' = [sheet EXCEPT !.drawn = drawn]
  BY <1>1
<1>3. drawn \in SomeDrawn
  <2>1. sheet.drawn \in SomeDrawn
    BY SheetFields, Zenon DEF Inv, SheetShape
  <2> QED BY <2>1 DEF SomeDrawn, Choice
<1>4. sheet' \in SheetType /\ sheet'.drawn = drawn
  <2> HIDE DEF drawn
  <2> QED BY <1>2, <1>3, SheetChanged, Zenon DEF Inv, SheetShape
<1>5. chosen' \subseteq Choice
  BY <1>1 DEF Inv, SheetShape
<1>6. DrawnIsApplied'
  BY <1>1, <1>4 DEF Inv, DrawnIsApplied
<1> QED BY <1>4, <1>5, <1>6 DEF RowPressed, SheetShape

(* A price is an integer, at any place and with any step.                  *)
LEMMA priceAtType ==
  ASSUME priceInterval \in Interval, NEW x \in Place
  PROVE  priceAt(x) \in Int
<1> DEFINE parts == (priceInterval.max - priceInterval.min) \div PriceStep
           place == (x * parts) \div 300
<1>1. PriceStep \in Nat \ {0} /\ priceInterval.min \in Int /\ priceInterval.max \in Int
  BY FiltrAssumption DEF Interval
<1>2. parts \in Int
  BY <1>1
<1> HIDE DEF parts
<1>3. x * parts \in Int
  BY <1>2 DEF Place
<1>4. place \in Int
  BY <1>3
<1> HIDE DEF place
<1>5. priceInterval.min - 2 * PriceStep + place * PriceStep \in Int
  BY <1>1, <1>4
<1> QED BY <1>5 DEF priceAt, place, parts

LEMMA sliderSwipingNext ==
  ASSUME Inv, NEW x \in Circle, sliderSwiping(x)
  PROVE  SheetShape' /\ DrawnIsApplied' /\ UNCHANGED vars
<1>1. /\ chosen' = chosen
      /\ \/ sheet' = [sheet EXCEPT !.left = x, !.min = priceAt(x)]
         \/ sheet' = [sheet EXCEPT !.right = x, !.max = priceAt(x)]
  BY DEF sliderSwiping
<1>2. x \in Place
  BY FiltrAssumption DEF Place
<1>3. priceAt(x) \in Int
  BY <1>2, priceAtType DEF Inv, HomeInv, TypeOK, Interval
<1> DEFINE y == priceAt(x)
<1>4. sheet' \in SheetType /\ sheet'.drawn = sheet.drawn
  <2>1. y \in Int /\ sheet \in SheetType
    BY <1>3 DEF Inv, SheetShape
  <2>2. \/ sheet' = [sheet EXCEPT !.left = x, !.min = y]
        \/ sheet' = [sheet EXCEPT !.right = x, !.max = y]
    BY <1>1
  <2> HIDE DEF y
  <2>3. /\ [sheet EXCEPT !.left = x, !.min = y] \in SheetType
        /\ [sheet EXCEPT !.left = x, !.min = y].drawn = sheet.drawn
        /\ [sheet EXCEPT !.right = x, !.max = y] \in SheetType
        /\ [sheet EXCEPT !.right = x, !.max = y].drawn = sheet.drawn
    BY <1>2, <2>1, CircleMoved
  <2> QED BY <2>2, <2>3, Zenon
<1> QED BY <1>1, <1>4 DEF Inv, SheetShape, DrawnIsApplied, sliderSwiping

(* What the sheet does to the home screen: nothing, or an action of its    *)
(* own, or a filter with any prices.                                       *)
LEMMA HomeScreenNext ==
  ASSUME Inv, [FiltrNext]_filtrVars
  PROVE  [Next]_vars \/ \E min, max, f : filtrData(min, max, f)
<1>1. CASE HomeStep
  BY <1>1 DEF HomeStep, Next
<1>2. CASE SheetOpened \/ SheetDismissed
  BY <1>2 DEF SheetOpened, SheetDismissed, Next
<1>3. CASE showPressed
  BY <1>3 DEF showPressed
<1>4. CASE UNCHANGED filtrVars
  BY <1>4 DEF filtrVars
<1>5. CASE \/ \E window \in Windows : Scrolled(window) \/ showAllPressed(window)
           \/ FeaturesArrive \/ clearAllPressed
           \/ \E r \in Choice : RowPressed(r)
           \/ \E x \in Circle : sliderSwiping(x)
  BY <1>5 DEF Scrolled, showAllPressed, FeaturesArrive, clearAllPressed, RowsBuilt, RowPressed, sliderSwiping
<1> QED BY <1>1, <1>2, <1>3, <1>4, <1>5 DEF FiltrNext

LEMMA InvNext == Inv /\ [FiltrNext]_filtrVars => Inv'
<1> SUFFICES ASSUME Inv, [FiltrNext]_filtrVars
             PROVE  Inv'
  OBVIOUS
<1>0. /\ sheet \in SheetType /\ chosen \subseteq Choice /\ priceInterval \in Interval
      /\ sheet.drawn \cap {1, 3} \subseteq chosen /\ sheet.window \in SomeRows
      /\ \A window \in Windows : window \in SomeRows
  <2>1. sheet \in SheetType /\ chosen \subseteq Choice /\ priceInterval \in Interval
    BY DEF Inv, SheetShape, HomeInv, TypeOK, Interval
  <2>2. sheet.window \in SomeRows
    BY <2>1, SheetFields, Zenon
  <2>3. \A window \in Windows : window \in SomeRows
    BY FiltrAssumption DEF SomeRows
  <2> QED BY <2>1, <2>2, <2>3 DEF Inv, DrawnIsApplied
<1>1. HomeInv'
  <2>1. CASE [Next]_vars
    BY <2>1, HomeInvNext DEF Inv
  <2>2. ASSUME NEW min, NEW max, NEW f, filtrData(min, max, f)
        PROVE  HomeInv'
    BY <2>2, filtrDataInTurn, filtrDataKeeps DEF Inv, HomeInv
  <2> QED BY <2>1, <2>2, HomeScreenNext
<1>2. SheetShape' /\ DrawnIsApplied'
  <2>1. CASE HomeStep
    BY <2>1 DEF HomeStep, sheetVars, Inv, SheetShape, DrawnIsApplied
  <2>2. CASE SheetOpened
    BY <2>2, SheetOpenedNext
  <2>3. CASE SheetDismissed
    BY <1>0, <2>3, NoSheetType DEF SheetDismissed, SheetShape, DrawnIsApplied
  <2>4. CASE showPressed
    <3>1. chosen' \subseteq Choice /\ sheet' = NoSheet
      BY <1>0, <2>4 DEF showPressed, choicesLeft
    <3> QED BY <3>1, NoSheetType DEF SheetShape, DrawnIsApplied
  <2>5. ASSUME NEW window \in Windows, Scrolled(window) \/ showAllPressed(window)
        PROVE  SheetShape' /\ DrawnIsApplied'
    <3>1. window \in SomeRows /\ window \ sheet.window \in SomeRows
      BY <1>0 DEF SomeRows
    <3> QED BY <1>0, <2>5, <3>1, RowsBuiltNext DEF Scrolled, showAllPressed
  <2>6. CASE FeaturesArrive
    <3> DEFINE s == [sheet EXCEPT !.loaded = TRUE]
    <3>1. s \in SheetType /\ s.drawn = sheet.drawn
      BY <1>0, SheetChanged, Zenon
    <3>2. RowsBuilt(s, sheet.window, sheet.window)
      BY <2>6 DEF FeaturesArrive
    <3> HIDE DEF s
    <3> QED BY <1>0, <3>1, <3>2, RowsBuiltNext
  <2>7. CASE clearAllPressed
    <3> DEFINE s == [sheet EXCEPT !.clearing = TRUE]
    <3>1. s \in SheetType /\ s.drawn = sheet.drawn
      BY <1>0, SheetChanged, Zenon
    <3>2. RowsBuilt(s, sheet.window, sheet.window)
      BY <2>7 DEF clearAllPressed
    <3> HIDE DEF s
    <3> QED BY <1>0, <3>1, <3>2, RowsBuiltNext
  <2>8. CASE UNCHANGED filtrVars
    BY <2>8 DEF filtrVars, sheetVars, Inv, SheetShape, DrawnIsApplied
  <2> QED BY <2>1, <2>2, <2>3, <2>4, <2>5, <2>6, <2>7, <2>8, RowPressedNext, sliderSwipingNext DEF FiltrNext
<1> QED BY <1>1, <1>2 DEF Inv

LEMMA Invariance == FiltrSpec => []Inv
  BY InvInit, InvNext, PTL DEF FiltrSpec

-----------------------------------------------------------------------------
(* The sheet keeps its types: a circle gives an integer price at every     *)
(* place, for any step and any interval.                                   *)
THEOREM FiltrTypeCorrect == FiltrSpec => []FiltrTypeOK
<1>1. Inv => FiltrTypeOK
  BY Zenon DEF Inv, HomeInv, SheetShape, SheetType, SomeRows, SomeDrawn, Place, FiltrTypeOK
<1> QED BY <1>1, Invariance, PTL

(* However searches, taps and filters of any choice follow each other,     *)
(* what is shown is selected from the houses the server delivered.         *)
THEOREM FiltrShownStayDelivered == FiltrSpec => []ShownAreDelivered
<1>1. Inv => ShownAreDelivered
  BY DEF Inv, HomeInv, SelectedFrom, ShownAreDelivered
<1> QED BY <1>1, Invariance, PTL

(* The region holds under the sheet too.                                   *)
THEOREM FiltrRegionStays == FiltrSpec => []RegionIsKept
<1>1. Inv => RegionIsKept
  BY DEF Inv, HomeInv
<1> QED BY <1>1, Invariance, PTL

(* Each sheet starts from the prices of what is shown.                     *)
THEOREM FiltrSliderStarts == FiltrSpec => SliderStartsAtThePrices
<1>1. ASSUME Inv, [FiltrNext]_filtrVars
      PROVE  [top = "home" /\ top' = "filter" /\ allHouses # <<>> =>
                /\ priceInterval'.min = Min({priceForWorkingDays[h] : h \in ToSet(allHouses)})
                /\ priceInterval'.max \in {priceForWeekends[h] : h \in ToSet(allHouses)}]_vars
  <2>1. CASE [Next]_vars
    BY <1>1, <2>1, SliderNext DEF Inv
  <2>2. ASSUME NEW min, NEW max, NEW f, filtrData(min, max, f)
        PROVE  top' = "home"
    BY <2>2 DEF filtrData
  <2> QED BY <1>1, <2>1, <2>2, HomeScreenNext
<1> QED BY <1>1, Invariance, PTL DEF FiltrSpec, SliderStartsAtThePrices

(* A guest or a switch that looks selected is applied, whatever was        *)
(* cleared, scrolled, reloaded or left by earlier sheets.                  *)
THEOREM DrawnStaysApplied == FiltrSpec => []DrawnIsApplied
<1>1. Inv => DrawnIsApplied
  BY DEF Inv
<1> QED BY <1>1, Invariance, PTL

(* Under the sheet too, the delayed Loader.stop never finds a load.        *)
THEOREM FiltrStopsStayInTurn == FiltrSpec => []NoStrayStop
<1>1. Inv => NoStrayStop
  BY DEF Inv, HomeInv, OneAtATime, NoStrayStop
<1> QED BY <1>1, Invariance, PTL

(* Under the sheet too, the list that searches start from is given once.   *)
THEOREM FiltrVillasStay == FiltrSpec => VillasChangeOnce
<1>1. ASSUME Inv, [FiltrNext]_filtrVars
      PROVE  [allVillas # <<>> => allVillas' = allVillas]_vars
  <2>1. [Next]_vars \/ \E min, max, f : filtrData(min, max, f)
    BY <1>1, HomeScreenNext
  <2> QED BY <1>1, <2>1, VillasNext, filtrDataInTurn DEF Inv, HomeInv
<1> QED BY <1>1, Invariance, PTL DEF FiltrSpec, VillasChangeOnce

-----------------------------------------------------------------------------
(* The home screen by itself, whose filter takes any integers as prices.   *)
AnyPrice == INSTANCE HomeVC WITH Price <- Int

(* Its handlers are those of the home screen under the sheet.              *)
LEMMA SameInit == AnyPrice!Init <=> Init
  BY DEF AnyPrice!Init, Init

LEMMA SameLists ==
  /\ \A region : AnyPrice!sortByProvince(region) = sortByProvince(region)
  /\ \A text, region : AnyPrice!searchByKey(text, region) = searchByKey(text, region)
  /\ \A list : AnyPrice!findPriceInterval(list) = findPriceInterval(list)
  /\ \A min, max, f, region : AnyPrice!filtrHouses(min, max, f, region) = filtrHouses(min, max, f, region)
<1>1. ASSUME NEW list, NEW S PROVE AnyPrice!kept(list, S) = kept(list, S)
  BY DEF AnyPrice!kept, kept
<1>2. ASSUME NEW p PROVE AnyPrice!ofProvince(p) = ofProvince(p)
  BY DEF AnyPrice!ofProvince, ofProvince
<1>3. ASSUME NEW list PROVE AnyPrice!findPriceInterval(list) = findPriceInterval(list)
  BY DEF AnyPrice!findPriceInterval, findPriceInterval, AnyPrice!widen, widen, AnyPrice!pricesOf, pricesOf
<1>4. ASSUME NEW min, NEW max PROVE AnyPrice!inPriceRange(min, max) = inPriceRange(min, max)
  BY DEF AnyPrice!inPriceRange, inPriceRange
<1>5. ASSUME NEW region PROVE AnyPrice!sortByProvince(region) = sortByProvince(region)
  BY <1>1, <1>2 DEF AnyPrice!sortByProvince, sortByProvince
<1>6. ASSUME NEW text, NEW region PROVE AnyPrice!searchByKey(text, region) = searchByKey(text, region)
  BY <1>1, <1>2 DEF AnyPrice!searchByKey, searchByKey
<1>7. ASSUME NEW min, NEW max, NEW f, NEW region
      PROVE  AnyPrice!filtrHouses(min, max, f, region) = filtrHouses(min, max, f, region)
  BY <1>1, <1>2, <1>4 DEF AnyPrice!filtrHouses, filtrHouses
<1> QED BY <1>3, <1>5, <1>6, <1>7

LEMMA SameArrival == AnyPrice!HousesArrive <=> HousesArrive
<1>1. ASSUME NEW S PROVE AnyPrice!SetToSeqs(S) = SetToSeqs(S)
  BY DEF AnyPrice!SetToSeqs, SetToSeqs, AnyPrice!Cardinality, Cardinality
<1>2. ASSUME NEW list PROVE AnyPrice!setHouses(list) <=> setHouses(list)
  BY DEF AnyPrice!setHouses, setHouses
<1> QED BY <1>1, <1>2 DEF AnyPrice!HousesArrive, HousesArrive, AnyPrice!LoaderStop, LoaderStop,
  AnyPrice!choiceVars, choiceVars

LEMMA SameHandlers ==
  /\ \A load : AnyPrice!LoadFails(load) <=> LoadFails(load)
  /\ \A region : AnyPrice!CategorySelected(region) <=> CategorySelected(region)
  /\ \A text : AnyPrice!TextChanged(text) <=> TextChanged(text)
  /\ AnyPrice!serchByName <=> serchByName
  /\ AnyPrice!FilterOpened <=> FilterOpened
  /\ AnyPrice!FilterDismissed <=> FilterDismissed
  /\ \A min, max, f : AnyPrice!filtrData(min, max, f) <=> filtrData(min, max, f)
  /\ AnyPrice!DelayedStop <=> DelayedStop
  /\ AnyPrice!HouseOpened <=> HouseOpened
  /\ AnyPrice!DetailArrives <=> DetailArrives
  /\ AnyPrice!BackFromHouse <=> BackFromHouse
<1>1. /\ AnyPrice!choiceVars = choiceVars
      /\ \A screen : AnyPrice!Touched(screen) <=> Touched(screen)
      /\ \A n : AnyPrice!LoaderStart(n) <=> LoaderStart(n)
      /\ AnyPrice!LoaderStop <=> LoaderStop
  BY DEF AnyPrice!choiceVars, choiceVars, AnyPrice!Touched, Touched, AnyPrice!Touchable, Touchable,
    AnyPrice!LoaderStart, LoaderStart, AnyPrice!LoaderStop, LoaderStop
<1>2. AnyPrice!HomeWillAppear <=> HomeWillAppear
  BY <1>1 DEF AnyPrice!HomeWillAppear, HomeWillAppear
<1>3. ASSUME NEW load PROVE AnyPrice!LoadFails(load) <=> LoadFails(load)
  BY <1>1 DEF AnyPrice!LoadFails, LoadFails, AnyPrice!choiceVars, choiceVars
<1>4. ASSUME NEW region PROVE AnyPrice!CategorySelected(region) <=> CategorySelected(region)
  BY <1>1, SameLists DEF AnyPrice!CategorySelected, CategorySelected
<1>5. ASSUME NEW text PROVE AnyPrice!TextChanged(text) <=> TextChanged(text)
  BY DEF AnyPrice!TextChanged, TextChanged
<1>6. AnyPrice!serchByName <=> serchByName
  BY SameLists DEF AnyPrice!serchByName, serchByName
<1>7. (AnyPrice!FilterOpened <=> FilterOpened) /\ (AnyPrice!FilterDismissed <=> FilterDismissed)
  BY <1>1, SameLists DEF AnyPrice!FilterOpened, FilterOpened, AnyPrice!FilterDismissed, FilterDismissed,
    AnyPrice!choiceVars, choiceVars
<1>8. ASSUME NEW min, NEW max, NEW f PROVE AnyPrice!filtrData(min, max, f) <=> filtrData(min, max, f)
  BY <1>1, SameLists DEF AnyPrice!filtrData, filtrData, AnyPrice!choiceVars, choiceVars
<1>9. /\ AnyPrice!DelayedStop <=> DelayedStop
      /\ AnyPrice!HouseOpened <=> HouseOpened
      /\ AnyPrice!DetailArrives <=> DetailArrives
      /\ AnyPrice!BackFromHouse <=> BackFromHouse
  BY <1>1, <1>2 DEF AnyPrice!DelayedStop, DelayedStop, AnyPrice!HouseOpened, HouseOpened,
    AnyPrice!DetailArrives, DetailArrives, AnyPrice!BackFromHouse, BackFromHouse, AnyPrice!choiceVars, choiceVars
<1> QED BY <1>3, <1>4, <1>5, <1>6, <1>7, <1>8, <1>9

LEMMA HomeStepSame ==
  ASSUME Inv, [FiltrNext]_filtrVars
  PROVE  [AnyPrice!Next]_vars
<1> USE SameArrival, SameHandlers DEF AnyPrice!Next
<1>1. CASE HomeStep
  BY <1>1 DEF HomeStep
<1>2. CASE SheetOpened \/ SheetDismissed
  BY <1>2 DEF SheetOpened, SheetDismissed
<1>3. CASE showPressed
  <2>1. sheet.min \in Int /\ sheet.max \in Int
    BY SheetFields, Zenon DEF Inv, SheetShape
  <2>2. chosen \in Filter
    BY FiltrAssumption DEF Inv, SheetShape
  <2>3. AnyPrice!filtrData(sheet.min, sheet.max, chosen)
    BY <1>3 DEF showPressed
  <2> QED BY <2>1, <2>2, <2>3
<1>4. CASE UNCHANGED filtrVars
  BY <1>4 DEF filtrVars
<1>5. CASE \/ \E window \in Windows : Scrolled(window) \/ showAllPressed(window)
           \/ FeaturesArrive \/ clearAllPressed
           \/ \E r \in Choice : RowPressed(r)
           \/ \E x \in Circle : sliderSwiping(x)
  BY <1>5 DEF Scrolled, showAllPressed, FeaturesArrive, clearAllPressed, RowsBuilt, RowPressed, sliderSwiping
<1> QED BY <1>1, <1>2, <1>3, <1>4, <1>5 DEF FiltrNext

(* The sheet refines the home screen by itself: with its rows, circles and *)
(* flags it does nothing to it but what HomeVC.swift does for some prices  *)
(* and some choice, both of their type.                                    *)
THEOREM FiltrImplementsHome == FiltrSpec => AnyPrice!Init /\ [][AnyPrice!Next]_(AnyPrice!vars)
<1>1. FiltrInit => AnyPrice!Init
  BY SameInit DEF FiltrInit
<1>2. Inv /\ [FiltrNext]_filtrVars => [AnyPrice!Next]_(AnyPrice!vars)
  BY HomeStepSame DEF AnyPrice!vars, AnyPrice!choiceVars, vars, choiceVars
<1> QED BY <1>1, <1>2, Invariance, PTL DEF FiltrSpec

(* Under the sheet too, only a filter covers the home screen, and its      *)
(* Loader.stop is still to come.                                           *)
THEOREM FiltrIsCoveredByFilters == FiltrSpec => OnlyAFilterCovers
<1>1. FiltrInit => HouseLoadsInFront
  BY OneAtATimeInit DEF FiltrInit, Init, HouseLoadsInFront, HomeCovered
<1>2. Inv /\ HouseLoadsInFront /\ [FiltrNext]_filtrVars =>
        HouseLoadsInFront' /\ [HomeCovered => Touchable' \/ (HomeCovered' /\ stopsDue' = stopsDue)]_vars
  BY HomeScreenNext, HouseLoadsInFrontNext, HouseLoadsInFrontFiltr, CoveredNext
<1>3. HouseLoadsInFront => (HomeCovered => stopsDue > 0)
  BY DEF HouseLoadsInFront
<1> QED BY <1>1, <1>2, <1>3, Invariance, PTL DEF FiltrSpec, OnlyAFilterCovers

(* Under the sheet too, the home screen implements ListOnce.               *)
THEOREM FiltrIsGivenOnce == FiltrSpec => GivenOnce!Spec
<1>1. FiltrInit => GivenOnce!Init
  BY DEF FiltrInit, Init, given, GivenOnce!Init
<1>2. Inv /\ [FiltrNext]_filtrVars => [GivenOnce!Next]_given
  <2> SUFFICES ASSUME Inv, [FiltrNext]_filtrVars PROVE [GivenOnce!Next]_given
    OBVIOUS
  <2>1. ASSUME NEW min, NEW max, NEW f, filtrData(min, max, f)
        PROVE  given' = given
    BY <2>1, filtrDataInTurn DEF Inv, HomeInv, given
  <2> QED BY <2>1, HomeScreenNext, GivenNext DEF Inv, HomeInv
<1> QED BY <1>1, <1>2, Invariance, PTL DEF FiltrSpec, GivenOnce!Spec

-----------------------------------------------------------------------------
(* Products and quotients keep the order of integers.                      *)
LEMMA TimesGrows ==
  ASSUME NEW a \in Int, NEW b \in Int, NEW c \in Nat, a <= b
  PROVE  a * c <= b * c
<1>1. (b - a) * c >= 0
  OBVIOUS
<1>2. (b - a) * c = b * c - a * c
  OBVIOUS
<1>3. a * c \in Int /\ b * c \in Int
  OBVIOUS
<1> QED BY <1>1, <1>2, <1>3

LEMMA PartsFit ==
  ASSUME NEW a \in Nat, NEW c \in Nat \ {0}
  PROVE  (a \div c) \in Nat /\ (a \div c) * c <= a
  OBVIOUS

(* The prices of the circles, if the interval is one: they grow from left  *)
(* to right, from no less than two steps below it, and a circle short of   *)
(* the last 15 points of the slider gives no price above it.               *)
LEMMA priceAtGrows ==
  ASSUME priceInterval \in Interval, priceInterval.min <= priceInterval.max,
         NEW x \in Place, NEW y \in Place, x <= y
  PROVE  /\ priceAt(x) <= priceAt(y)
         /\ priceInterval.min - 2 * PriceStep <= priceAt(x)
         /\ x < 300 => priceAt(x) <= priceInterval.max
<1> DEFINE low == priceInterval.min
           width == priceInterval.max - priceInterval.min
           parts == width \div PriceStep
           at(z) == (z * parts) \div 300
<1>1. PriceStep \in Nat \ {0} /\ low \in Nat /\ width \in Nat /\ priceInterval.max = low + width
  BY FiltrAssumption DEF Interval
<1> HIDE DEF low, width
<1>2. parts \in Nat /\ parts * PriceStep <= width
  BY <1>1, PartsFit
<1> HIDE DEF parts
<1>3. x \in Nat /\ y \in Nat
  BY DEF Place
<1>4. x * parts \in Nat /\ y * parts \in Nat /\ x * parts <= y * parts
  BY <1>2, <1>3, TimesGrows
<1>5. at(x) \in Nat /\ at(y) \in Nat /\ at(x) <= at(y)
  BY <1>4
<1>6. x < 300 => at(x) <= parts
  <2>1. x < 300 => x * parts <= 300 * parts
    BY <1>2, <1>3, TimesGrows
  <2> QED BY <1>2, <1>4, <2>1
<1>7. priceAt(x) = low - 2 * PriceStep + at(x) * PriceStep /\ priceAt(y) = low - 2 * PriceStep + at(y) * PriceStep
  BY DEF priceAt, low, parts, width
<1> HIDE DEF at
<1>8. at(x) * PriceStep \in Nat /\ at(y) * PriceStep \in Nat /\ at(x) * PriceStep <= at(y) * PriceStep
  BY <1>1, <1>5, TimesGrows
<1>9. x < 300 => at(x) * PriceStep <= width
  <2>1. x < 300 => at(x) * PriceStep <= parts * PriceStep
    BY <1>1, <1>2, <1>5, <1>6, TimesGrows
  <2>2. parts * PriceStep \in Nat
    BY <1>1, <1>2
  <2> QED BY <1>1, <1>2, <1>8, <2>1, <2>2
<1>10. priceInterval.min = low
  BY DEF low
<1> QED BY <1>1, <1>7, <1>8, <1>9, <1>10

(* The prices that a sheet asks for, and the circles they are read from.   *)
Slider(s) ==
  /\ s.left + 15 < s.right
  /\ s.min \in {priceInterval.min, priceAt(s.left)}
  /\ s.max \in {priceInterval.max, priceAt(s.right)}

LEMMA RowsBuiltSlider ==
  ASSUME NEW s \in SheetType, Slider(s), NEW rows \in SomeRows, NEW window,
         priceInterval \in Interval, RowsBuilt(s, rows, window)
  PROVE  Slider(sheet)'
<1>1. PICK aside \in {{}, {4}} :
        sheet' = [cellsBuilt(s, rows, priceInterval, aside) EXCEPT !.window = window]
  BY DEF RowsBuilt
<1> DEFINE t == cellsBuilt(s, rows, priceInterval, aside)
           cleared == Cleared(s, rows)
<1>2. /\ t \in SheetType
      /\ t.left = IF 0 \in cleared THEN 15 ELSE s.left
      /\ t.right = IF 0 \in cleared THEN 315 ELSE s.right
      /\ t.min = IF 0 \in rows THEN priceInterval.min ELSE s.min
      /\ t.max = IF 0 \in rows THEN priceInterval.max ELSE s.max
  BY cellsBuiltType
<1>3. cleared \subseteq rows
  BY DEF Cleared
<1> HIDE DEF t, cleared
<1>4. sheet' = [t EXCEPT !.window = window]
  BY <1>1 DEF t
<1>5. sheet'.left = t.left /\ sheet'.right = t.right /\ sheet'.min = t.min /\ sheet'.max = t.max
  BY <1>2, <1>4 DEF SheetType
<1>6. priceInterval' = priceInterval
  BY DEF RowsBuilt, vars
<1>7. \A x : priceAt(x)' = priceAt(x)
  BY <1>6 DEF priceAt
<1>8. s.left \in Int /\ s.right \in Int
  BY SheetFields DEF Place
<1> QED BY <1>2, <1>3, <1>5, <1>6, <1>7, <1>8 DEF Slider

(* Changes of the sheet that leave the slider.                             *)
LEMMA SliderKept ==
  ASSUME Slider(sheet), priceInterval' = priceInterval,
         sheet'.left = sheet.left, sheet'.right = sheet.right, sheet'.min = sheet.min, sheet'.max = sheet.max
  PROVE  Slider(sheet)'
<1>1. \A x : priceAt(x)' = priceAt(x)
  BY DEF priceAt
<1> QED BY <1>1 DEF Slider

SliderIsRead == top = "filter" => Slider(sheet)

LEMMA SliderIsReadNext ==
  ASSUME Inv, SliderIsRead, [FiltrNext]_filtrVars
  PROVE  SliderIsRead'
<1>0. /\ sheet \in SheetType /\ priceInterval \in Interval /\ sheet.window \in SomeRows
      /\ \A window \in Windows : window \in SomeRows
  <2>1. sheet \in SheetType /\ priceInterval \in Interval
    BY DEF Inv, SheetShape, HomeInv, TypeOK, Interval
  <2>2. sheet.window \in SomeRows
    BY <2>1, SheetFields, Zenon
  <2>3. \A window \in Windows : window \in SomeRows
    BY FiltrAssumption DEF SomeRows
  <2> QED BY <2>1, <2>2, <2>3
<1>1. CASE HomeStep
  <2>1. sheet' = sheet /\ (top' = "filter" => top = "filter" /\ priceInterval' = priceInterval)
    BY <1>1 DEF HomeStep, sheetVars, HousesArrive, LoadFails, CategorySelected, TextChanged, serchByName,
      DelayedStop, HouseOpened, DetailArrives, BackFromHouse
  <2> QED BY <2>1, SliderKept DEF SliderIsRead
<1>2. CASE SheetOpened
  <2>1. PICK window \in Windows :
          0 \in window /\ sheet' = [cellsBuilt(NoSheet, window, priceInterval', {}) EXCEPT !.window = window]
    BY <1>2 DEF SheetOpened
  <2>2. priceInterval' \in Interval
    BY <1>2, findPriceIntervalProperties DEF SheetOpened, FilterOpened, Inv, HomeInv, TypeOK, Interval
  <2> DEFINE t == cellsBuilt(NoSheet, window, priceInterval', {})
  <2>3. /\ t \in SheetType /\ t.left = 15 /\ t.right = 315
        /\ t.min = priceInterval'.min /\ t.max = priceInterval'.max
    <3>1. NoSheet \in SheetType /\ window \in SomeRows
      BY <1>0, NoSheetType
    <3>2. Cleared(NoSheet, window) = {} /\ NoSheet.left = 15 /\ NoSheet.right = 315
      BY DEF Cleared, NoSheet
    <3> QED BY <2>1, <2>2, <3>1, <3>2, cellsBuiltType
  <2> HIDE DEF t
  <2>4. sheet' = [t EXCEPT !.window = window]
    BY <2>1 DEF t
  <2>5. sheet'.left = t.left /\ sheet'.right = t.right /\ sheet'.min = t.min /\ sheet'.max = t.max
    BY <2>3, <2>4 DEF SheetType
  <2> QED BY <2>3, <2>5 DEF SliderIsRead, Slider
<1>3. CASE SheetDismissed \/ showPressed
  BY <1>3 DEF SheetDismissed, FilterDismissed, showPressed, filtrData, SliderIsRead
<1>4. ASSUME NEW s \in SheetType, s.left = sheet.left, s.right = sheet.right, s.min = sheet.min, s.max = sheet.max,
             NEW rows \in SomeRows, NEW window, RowsBuilt(s, rows, window)
      PROVE  SliderIsRead'
  <2>1. top = "filter"
    BY <1>4 DEF RowsBuilt, InSheet, Touched
  <2>2. Slider(s)
    BY <1>4, <2>1 DEF SliderIsRead, Slider
  <2> QED BY <1>0, <1>4, <2>2, RowsBuiltSlider DEF SliderIsRead
<1>5. ASSUME NEW window \in Windows, Scrolled(window) \/ showAllPressed(window)
      PROVE  SliderIsRead'
  <2>1. window \in SomeRows /\ window \ sheet.window \in SomeRows
    BY <1>0 DEF SomeRows
  <2> QED BY <1>0, <1>4, <1>5, <2>1 DEF Scrolled, showAllPressed
<1>6. CASE FeaturesArrive \/ clearAllPressed
  <2> DEFINE s == [sheet EXCEPT !.loaded = TRUE]
             r == [sheet EXCEPT !.clearing = TRUE]
  <2>1. s \in SheetType /\ r \in SheetType
    BY <1>0, SheetChanged, Zenon
  <2>2. /\ s.left = sheet.left /\ s.right = sheet.right /\ s.min = sheet.min /\ s.max = sheet.max
        /\ r.left = sheet.left /\ r.right = sheet.right /\ r.min = sheet.min /\ r.max = sheet.max
    BY <1>0 DEF SheetType
  <2>3. RowsBuilt(s, sheet.window, sheet.window) \/ RowsBuilt(r, sheet.window, sheet.window)
    BY <1>6 DEF FeaturesArrive, clearAllPressed
  <2> HIDE DEF s, r
  <2> QED BY <1>0, <1>4, <2>1, <2>2, <2>3
<1>7. ASSUME NEW r \in Choice, RowPressed(r)
      PROVE  SliderIsRead'
  <2>1. top = "filter" /\ priceInterval' = priceInterval
    BY <1>7 DEF RowPressed, InSheet, Touched, vars
  <2>2. PICK drawn : sheet' = [sheet EXCEPT !.drawn = drawn]
    BY <1>7, Zenon DEF RowPressed
  <2>3. sheet'.left = sheet.left /\ sheet'.right = sheet.right /\ sheet'.min = sheet.min /\ sheet'.max = sheet.max
    BY <1>0, <2>2 DEF SheetType
  <2> QED BY <2>1, <2>3, SliderKept DEF SliderIsRead
<1>8. ASSUME NEW x \in Circle, sliderSwiping(x)
      PROVE  SliderIsRead'
  <2>1. /\ top = "filter" /\ priceInterval' = priceInterval
        /\ \/ x < sheet.right - 15 /\ sheet' = [sheet EXCEPT !.left = x, !.min = priceAt(x)]
           \/ x > sheet.left + 15 /\ sheet' = [sheet EXCEPT !.right = x, !.max = priceAt(x)]
    BY <1>8 DEF sliderSwiping, InSheet, Touched, vars
  <2>2. \A y : priceAt(y)' = priceAt(y)
    BY <2>1 DEF priceAt
  <2>3. x \in Int /\ sheet.left \in Int /\ sheet.right \in Int
    BY <1>0, FiltrAssumption, SheetFields DEF Place
  <2>4. CASE x < sheet.right - 15 /\ sheet' = [sheet EXCEPT !.left = x, !.min = priceAt(x)]
    <3>1. sheet'.left = x /\ sheet'.right = sheet.right /\ sheet'.min = priceAt(x) /\ sheet'.max = sheet.max
      BY <1>0, <2>4 DEF SheetType
    <3> QED BY <2>1, <2>2, <2>3, <2>4, <3>1 DEF SliderIsRead, Slider
  <2>5. CASE x > sheet.left + 15 /\ sheet' = [sheet EXCEPT !.right = x, !.max = priceAt(x)]
    <3>1. sheet'.left = sheet.left /\ sheet'.right = x /\ sheet'.min = sheet.min /\ sheet'.max = priceAt(x)
      BY <1>0, <2>5 DEF SheetType
    <3> QED BY <2>1, <2>2, <2>3, <2>5, <3>1 DEF SliderIsRead, Slider
  <2> QED BY <2>1, <2>4, <2>5
<1>9. CASE UNCHANGED filtrVars
  BY <1>9, SliderKept DEF filtrVars, sheetVars, vars, SliderIsRead
<1> QED BY <1>1, <1>2, <1>3, <1>5, <1>6, <1>7, <1>8, <1>9 DEF FiltrNext

(* What "show" would ask for: never a lowest price above what is there, or *)
(* a price two steps below it; and a lowest price above the highest one    *)
(* only if the lower circle gave none and the upper one was swiped below   *)
(* the prices shown (minPrice and maxPrice of NewPriceRangeTVC.swift,      *)
(* where 200000 is taken off at every place).                              *)
PricesAskedFor ==
  top = "filter" /\ priceInterval.min <= priceInterval.max =>
    /\ sheet.min <= priceInterval.max
    /\ priceInterval.min - 2 * PriceStep <= sheet.min
    /\ priceInterval.min - 2 * PriceStep <= sheet.max
    /\ sheet.min > sheet.max => sheet.min = priceInterval.min /\ sheet.max = priceAt(sheet.right)

(* The slider asks for prices of the interval that it shows, over every    *)
(* swipe and every redraw of its cell.                                     *)
THEOREM PricesAskedForFit == FiltrSpec => []PricesAskedFor
<1>1. FiltrInit => SliderIsRead
  BY DEF FiltrInit, Init, SliderIsRead
<1>2. Inv /\ SliderIsRead /\ [FiltrNext]_filtrVars => SliderIsRead'
  BY SliderIsReadNext
<1>3. ASSUME Inv, SliderIsRead, top = "filter", priceInterval.min <= priceInterval.max
      PROVE  /\ sheet.min <= priceInterval.max
             /\ priceInterval.min - 2 * PriceStep <= sheet.min
             /\ priceInterval.min - 2 * PriceStep <= sheet.max
             /\ sheet.min > sheet.max => sheet.min = priceInterval.min /\ sheet.max = priceAt(sheet.right)
  <2> DEFINE x == sheet.left  y == sheet.right
  <2>1. /\ priceInterval \in Interval /\ x \in Place /\ y \in Place
        /\ x + 15 < y
        /\ sheet.min \in {priceInterval.min, priceAt(x)}
        /\ sheet.max \in {priceInterval.max, priceAt(y)}
    BY <1>3, SheetFields, Zenon DEF Inv, SheetShape, HomeInv, TypeOK, Interval, SliderIsRead, Slider
  <2> HIDE DEF x, y
  <2>2. x < 300 /\ x <= y
    BY <2>1 DEF Place
  <2>3. /\ priceAt(x) <= priceAt(y)
        /\ priceInterval.min - 2 * PriceStep <= priceAt(x)
        /\ priceInterval.min - 2 * PriceStep <= priceAt(y)
        /\ priceAt(x) <= priceInterval.max
    <3>1. y <= y
      BY <2>1 DEF Place
    <3>2. priceInterval.min - 2 * PriceStep <= priceAt(y)
      BY <1>3, <2>1, <3>1, priceAtGrows
    <3> QED BY <1>3, <2>1, <2>2, <3>2, priceAtGrows
  <2>4. priceAt(x) \in Int /\ priceAt(y) \in Int
    BY <2>1, priceAtType
  <2>5. priceInterval.min \in Nat /\ priceInterval.max \in Nat /\ PriceStep \in Nat
    BY <2>1, FiltrAssumption DEF Interval
  <2> QED BY <1>3, <2>1, <2>3, <2>4, <2>5 DEF y
<1>4. Inv /\ SliderIsRead => PricesAskedFor
  BY <1>3 DEF PricesAskedFor
<1> QED BY <1>1, <1>2, <1>4, Invariance, PTL DEF FiltrSpec

(* That the lowest of the prices found is not above the highest need not   *)
(* be asked where no house is cheaper on weekends than on working days: a  *)
(* pass over the houses that may miss the dearest never turns the interval *)
(* round, and so the slider stays within it (HomePresenter.swift).         *)
IntervalIsOne == priceInterval.min <= priceInterval.max

LEMMA IntervalIsOneNext ==
  ASSUME Inv, IntervalIsOne, [FiltrNext]_filtrVars,
         \A h \in House : priceForWorkingDays[h] <= priceForWeekends[h]
  PROVE  IntervalIsOne'
<1>1. CASE SheetOpened
  <2>1. CASE allHouses = <<>>
    BY <1>1, <2>1 DEF SheetOpened, FilterOpened, IntervalIsOne
  <2>2. CASE allHouses # <<>>
    <3>1. priceInterval' = findPriceInterval(allHouses) /\ allHouses \in Seq(House)
      BY <1>1, <2>2 DEF SheetOpened, FilterOpened, Inv, HomeInv, TypeOK
    <3>2. findPriceInterval(allHouses).min <= findPriceInterval(allHouses).max
      BY <2>2, <3>1, findPriceIntervalIsOne
    <3> QED BY <3>1, <3>2 DEF IntervalIsOne
  <2> QED BY <2>1, <2>2
<1>2. CASE ~SheetOpened
  <2>1. priceInterval' = priceInterval
    BY <1>2 DEF FiltrNext, HomeStep, HousesArrive, LoadFails, CategorySelected, TextChanged, serchByName,
      DelayedStop, HouseOpened, DetailArrives, BackFromHouse, SheetDismissed, FilterDismissed, showPressed,
      filtrData, RowsBuilt, Scrolled, showAllPressed, FeaturesArrive, clearAllPressed, RowPressed,
      sliderSwiping, filtrVars, vars
  <2> QED BY <2>1 DEF IntervalIsOne
<1> QED BY <1>1, <1>2

(* The hypothesis of PricesAskedFor holds on such prices, over any         *)
(* searches and filters.                                                   *)
THEOREM PricesStayTheRightWayRound ==
  ASSUME \A h \in House : priceForWorkingDays[h] <= priceForWeekends[h]
  PROVE  FiltrSpec => []IntervalIsOne
<1>1. FiltrInit => IntervalIsOne
  BY DEF FiltrInit, Init, IntervalIsOne
<1>2. Inv /\ IntervalIsOne /\ [FiltrNext]_filtrVars => IntervalIsOne'
  BY IntervalIsOneNext
<1> QED BY <1>1, <1>2, Invariance, PTL DEF FiltrSpec

=============================================================================
