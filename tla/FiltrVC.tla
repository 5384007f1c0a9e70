------------------------------- MODULE FiltrVC -------------------------------
(***************************************************************************)
(* The sheet with the filter, over the home screen.  What is chosen on its *)
(* rows is kept in static variables, which outlive the sheet, and drawn on *)
(* cells, which do not.  "Clear all" only sets a flag: a row is cleared    *)
(* when its cell is next built, and that is as it comes onto the screen.   *)
(***************************************************************************)
EXTENDS HomeVC

CONSTANTS
  Windows,    \* the rows that can be on the screen together
  Circle,     \* the places the circles of the prices can be swiped to
  PriceStep   \* 100000

\* Below the prices, row 0: guests, features, switches and people.
Choice == 1..4

ASSUME FiltrAssumption ==
  /\ Windows \subseteq SUBSET (0..4)
  /\ Circle \subseteq 16..315
  /\ PriceStep \in Nat \ {0}
  /\ Filter = SUBSET Choice

VARIABLES
  chosen,   \* the rows whose static variables hold a choice
  sheet     \* the sheet

\* window       the rows on the screen
\* drawn        the rows whose cell shows a choice: the list of features
\*              is not one of them, it is drawn from its static variable
\* clearing     isClearAllPressed
\* loaded       have the names of the features come?
\* left, right  the circles, from 15 to 315
\* min, max     minPriceFiltr and maxPriceFiltr, set anew for each sheet
NoSheet == [window |-> {}, drawn |-> {}, clearing |-> FALSE, loaded |-> FALSE,
            left |-> 15, right |-> 315, min |-> 0, max |-> 0]

sheetVars == <<chosen, sheet>>
filtrVars == <<vars, sheetVars>>

InSheet == Touched("filter")

\* The price for a place of a circle.  Without a step between the prices it
\* is below the lowest.
priceAt(x) ==
  priceInterval.min - 2 * PriceStep
    + ((x * ((priceInterval.max - priceInterval.min) \div PriceStep)) \div 300) * PriceStep

\* Mutant: a cell that is cleared looks as before.
cellsBuiltKeepLook(s, rows, prices, aside) ==
  [s EXCEPT !.clearing = @ /\ 4 \notin rows,
            !.min = IF 0 \in rows THEN prices.min ELSE @,
            !.max = IF 0 \in rows THEN prices.max ELSE @]

\* Sheet s when the cells of some rows have been built, the last row last,
\* which ends the clearing.  The prices start anew; a number of people that
\* was scrolled aside keeps its look.
cellsBuilt(s, rows, prices, aside) ==
  LET cleared == IF s.clearing THEN rows ELSE {} IN
  [s EXCEPT !.drawn = @ \ (cleared \ aside),
            !.clearing = @ /\ 4 \notin rows,
            !.left = IF 0 \in cleared THEN 15 ELSE @,
            !.right = IF 0 \in cleared THEN 315 ELSE @,
            !.min = IF 0 \in rows THEN prices.min ELSE @,
            !.max = IF 0 \in rows THEN prices.max ELSE @]

\* Clearing the switches leaves what they have chosen.
choicesLeft(clearing, rows) == chosen \ (IF clearing THEN rows \cap {1, 2, 4} ELSE {})

RowsBuilt(s, rows, window) ==
  /\ InSheet
  /\ \E aside \in {{}, {4}} :
       sheet' = [cellsBuilt(s, rows, priceInterval, aside) EXCEPT !.window = window]
  /\ chosen' = choicesLeft(s.clearing, rows)
  /\ UNCHANGED vars

FiltrInit == Init /\ chosen = {} /\ sheet = NoSheet

-----------------------------------------------------------------------------
SheetOpened ==
  /\ FilterOpened
  /\ \E window \in Windows :
       /\ 0 \in window
       /\ sheet' = [cellsBuilt(NoSheet, window, priceInterval', {}) EXCEPT !.window = window]
  /\ UNCHANGED chosen

SheetDismissed ==
  /\ FilterDismissed
  /\ sheet' = NoSheet
  /\ UNCHANGED chosen

\* The cells of the rows that come into view are built, reused or new.
Scrolled(window) == window # sheet.window /\ RowsBuilt(sheet, window \ sheet.window, window)

\* "Show all" makes the row of the features higher or lower, and reloads.
showAllPressed(window) == 2 \in sheet.window \cap window /\ RowsBuilt(sheet, window, window)

\* The answer of getEntertainmentData reloads the table.
FeaturesArrive ==
  /\ ~sheet.loaded
  /\ RowsBuilt([sheet EXCEPT !.loaded = TRUE], sheet.window, sheet.window)

clearAllPressed == RowsBuilt([sheet EXCEPT !.clearing = TRUE], sheet.window, sheet.window)

\* A button of the guests or a feature toggles the static variable, a switch
\* what it shows, and a number of people is chosen for good.
RowPressed(r) ==
  /\ InSheet
  /\ r \in sheet.window /\ (r = 2 => sheet.loaded)
  /\ LET on == CASE r \in {1, 2} -> r \notin chosen [] r = 3 -> 3 \notin sheet.drawn [] r = 4 -> TRUE
     IN  /\ chosen' = IF on THEN chosen \cup {r} ELSE chosen \ {r}
         /\ sheet' = [sheet EXCEPT !.drawn = IF on THEN @ \cup ({r} \ {2}) ELSE @ \ {r}]
  /\ UNCHANGED vars

sliderSwiping(x) ==
  /\ InSheet
  /\ 0 \in sheet.window
  /\ \/ x < sheet.right - 15 /\ sheet' = [sheet EXCEPT !.left = x, !.min = priceAt(x)]
     \/ x > sheet.left + 15 /\ sheet' = [sheet EXCEPT !.right = x, !.max = priceAt(x)]
  /\ UNCHANGED <<vars, chosen>>

\* The home screen is given what the static variables hold, and as the sheet
\* goes the rows on the screen are cleared.
showPressed ==
  /\ filtrData(sheet.min, sheet.max, chosen)
  /\ chosen' = choicesLeft(TRUE, sheet.window)
  /\ sheet' = NoSheet

HomeStep ==
  /\ \/ HousesArrive
     \/ \E load \in {"houses", "detail"} : LoadFails(load)
     \/ \E region \in Region : CategorySelected(region)
     \/ \E text \in Text : TextChanged(text)
     \/ serchByName
     \/ DelayedStop
     \/ HouseOpened
     \/ DetailArrives
     \/ BackFromHouse
  /\ UNCHANGED sheetVars

FiltrNext ==
  \/ HomeStep
  \/ SheetOpened
  \/ SheetDismissed
  \/ \E window \in Windows : Scrolled(window)
  \/ \E window \in Windows : showAllPressed(window)
  \/ FeaturesArrive
  \/ clearAllPressed
  \/ \E r \in Choice : RowPressed(r)
  \/ \E x \in Circle : sliderSwiping(x)
  \/ showPressed

\* The fairness of the home screen: see HomeVC.
FiltrSpec ==
  /\ FiltrInit /\ [][FiltrNext]_filtrVars
  /\ WF_vars(DelayedStop) /\ WF_vars(serchByName)
  /\ WF_vars(HousesArrive) /\ WF_vars(DetailArrives)

-----------------------------------------------------------------------------
FiltrTypeOK ==
  /\ TypeOK
  /\ chosen \subseteq Choice
  /\ sheet \in [window : SUBSET (0..4), drawn : SUBSET {1, 3, 4}, clearing : BOOLEAN, loaded : BOOLEAN,
                left : 15..315, right : 15..315, min : Int, max : Int]

\* "give selected parametrs to homeVC", as far as it is so: a guest or a switch
\* that looks selected is given, whatever was cleared, scrolled away, reloaded
\* by a late answer or left by an earlier sheet.
DrawnIsApplied == sheet.drawn \cap {1, 3} \subseteq chosen

=============================================================================
