---------------------------- MODULE TaxiServiceVC ----------------------------
(***************************************************************************)
(* The taxi tab over the call that polls its list: when the list comes it  *)
(* is sorted by price, once, and from then on three buttons choose between *)
(* the list as it came, the dearest first and the cheapest first.  The     *)
(* children's tab does the same with a menu.                               *)
(***************************************************************************)
EXTENDS ServicePoller

CONSTANT startingPrice   \* the price of each product

ASSUME PriceAssumption == startingPrice \in [Product -> Nat]

VARIABLES
  alive,            \* FALSE once the program has trapped
  taxiServices,     \* the list the table shows
  recommendedCars,  \* the three lists to choose from
  cheaperCars,
  expensiveCars

menus == <<recommendedCars, cheaperCars, expensiveCars>>
tabVars == <<alive, taxiServices, menus>>
allVars == <<vars, tabVars>>

-----------------------------------------------------------------------------
\* The place of the first of the highest prices.
findMaxVlue(list) ==
  CHOOSE i \in DOMAIN list :
    /\ \A j \in DOMAIN list : startingPrice[list[j]] <= startingPrice[list[i]]
    /\ \A j \in 1..(i - 1) : startingPrice[list[j]] < startingPrice[list[i]]

\* Mutant: the highest price is looked for, but the first product removed.
sortByExpensiveRemovesFirst(list) ==
  LET after[n \in 0..Len(list)] ==
        IF n = 0 THEN [sorted |-> <<>>, rest |-> list]
        ELSE LET before == after[n - 1]
                 i == findMaxVlue(before.rest)
             IN  [sorted |-> Append(before.sorted, before.rest[i]), rest |-> Tail(before.rest)]
  IN  after[Len(list)].sorted

\* Mutant: the last product is left where it is.
sortByExpensiveOneShort(list) ==
  LET after[n \in 0..Len(list)] ==
        IF n = 0 THEN [sorted |-> <<>>, rest |-> list]
        ELSE LET before == after[n - 1]
                 i == IF n = 1 THEN 1 ELSE findMaxVlue(before.rest)
             IN  [sorted |-> Append(before.sorted, before.rest[i]), rest |-> RemoveAt(before.rest, i)]
  IN  after[Len(list)].sorted

\* As many times as there are products, the dearest of the rest is taken.
sortByExpensive(list) ==
  LET after[n \in 0..Len(list)] ==
        IF n = 0 THEN [sorted |-> <<>>, rest |-> list]
        ELSE LET before == after[n - 1]
                 i == findMaxVlue(before.rest)
             IN  [sorted |-> Append(before.sorted, before.rest[i]), rest |-> RemoveAt(before.rest, i)]
  IN  after[Len(list)].sorted

\* The completion handler.  The sorted lists are appended to what is there,
\* and the sort traps on an empty list (1...0).
ListComes(list) ==
  /\ taxiServices' = list
  /\ IF list = <<>>
       THEN alive' = FALSE /\ UNCHANGED menus
       ELSE /\ expensiveCars' = expensiveCars \o sortByExpensive(list)
            /\ cheaperCars' = cheaperCars \o Reverse(sortByExpensive(list))
            /\ recommendedCars' = list
            /\ UNCHANGED alive

TabInit ==
  /\ Init
  /\ alive = TRUE
  /\ taxiServices = <<>>
  /\ recommendedCars = <<>>
  /\ cheaperCars = <<>>
  /\ expensiveCars = <<>>

\* A step of the poller calls the handler when it hands a list over.
Polled(step) ==
  /\ alive
  /\ step
  /\ IF delivered' = delivered THEN UNCHANGED tabVars ELSE ListComes(Last(delivered'))

\* A button.  Until the list comes the overlay is over them.
MenuPressed(list) ==
  /\ alive
  /\ delivered # <<>>
  /\ taxiServices' = list
  /\ UNCHANGED <<vars, alive, menus>>

TabNext ==
  \/ Polled(Next)
  \/ MenuPressed(recommendedCars)
  \/ MenuPressed(cheaperCars)
  \/ MenuPressed(expensiveCars)

\* The fairness of the poller (see ServicePoller), while the program runs.
TabSpec ==
  /\ TabInit
  /\ [][TabNext]_allVars
  /\ WF_vars(alive /\ Ticks)
  /\ WF_vars(alive /\ Arrivals)
  /\ \A p \in Product : SF_vars(alive /\ \E titled \in SUBSET Product : p \in titled /\ TickServed(titled))

-----------------------------------------------------------------------------
TabTypeOK ==
  /\ TypeOK
  /\ alive \in BOOLEAN
  /\ taxiServices \in Seq(Product)
  /\ recommendedCars \in Seq(Product) /\ cheaperCars \in Seq(Product) /\ expensiveCars \in Seq(Product)

\* Whatever is pressed and however late answers come, each of the three lists
\* and the table have every product that was handed over, each once.
MenusAreTheList ==
  alive /\ delivered # <<>> =>
    \A list \in {taxiServices, recommendedCars, cheaperCars, expensiveCars} :
      IsInjective(list) /\ ToSet(list) = ToSet(delivered[1])

\* "testSortingLogic": dearest first, and the other way round.
SortedByPrice ==
  \A i, j \in DOMAIN expensiveCars : i < j =>
    /\ startingPrice[expensiveCars[i]] >= startingPrice[expensiveCars[j]]
    /\ startingPrice[cheaperCars[i]] <= startingPrice[cheaperCars[j]]

=============================================================================
