---------------------------- MODULE ServicePoller ----------------------------
(***************************************************************************)
(* One call of API.getAllTaxiServices or API.getAllChildrenParties.  The   *)
(* server may list a product before it has a title, so the call asks for   *)
(* the list again at every tick of a timer, whether or not earlier answers *)
(* have come, collects the products that have a title, and hands them over *)
(* at a tick that finds as many as the last answer listed.                 *)
(***************************************************************************)
EXTENDS Integers, SequencesExt

CONSTANTS
  Product,       \* the products the server can list
  MaxInFlight,   \* bound: requests that are not answered yet
  MaxEdits       \* bound: changes of the server's list during the call

ASSUME PollerAssumption ==
  /\ IsFiniteSet(Product)
  /\ MaxInFlight \in Nat \ {0}
  /\ MaxEdits \in Nat

VARIABLES
  listing,      \* the products the server lists
  edits,        \* how often the listing has changed
  answers,      \* the answers on their way: what was listed, what had a title
  timer,        \* is the timer repeating?
  counter,      \* the length of the last answer that came, None for nil
  collected,    \* allTaxiServices, allChildrenParties; and existIDs
  delivered     \* the lists the completion handler was called with

vars == <<listing, edits, answers, timer, counter, collected, delivered>>

None == -1

Answer == {a \in [listed : SUBSET Product, titled : SUBSET Product] : a.titled \subseteq a.listed}

Init ==
  /\ listing \in SUBSET Product
  /\ edits = 0
  /\ answers = <<>>
  /\ timer = TRUE
  /\ counter = None
  /\ collected = <<>>
  /\ delivered = <<>>

-----------------------------------------------------------------------------
\* The server, by what the code expects of it: products come and go, and an
\* answer has a title for some of the products it lists.
ServerEdits ==
  /\ timer
  /\ edits < MaxEdits
  /\ edits' = edits + 1
  /\ \E l \in SUBSET Product : l # listing /\ listing' = l
  /\ UNCHANGED <<answers, timer, counter, collected, delivered>>

Served(titled) == [listed |-> listing, titled |-> titled]

\* Mutant: the list is handed over, but the timer goes on.
stopIfFullTimerRuns ==
  IF counter = Len(collected)
    THEN delivered' = Append(delivered, collected) /\ UNCHANGED timer
    ELSE UNCHANGED <<timer, delivered>>

\* Mutant: an empty list is not handed over.
stopIfFullNotEmpty ==
  IF counter = Len(collected) /\ collected # <<>>
    THEN timer' = FALSE /\ delivered' = Append(delivered, collected)
    ELSE UNCHANGED <<timer, delivered>>

\* The check at the end of a tick: stop the timer and hand over the list.
stopIfFull ==
  IF counter = Len(collected)
    THEN timer' = FALSE /\ delivered' = Append(delivered, collected)
    ELSE UNCHANGED <<timer, delivered>>

\* A tick asks first, and offline or on a failure hears nil; then it looks at
\* what the earlier answers have brought.
TickServed(titled) ==
  /\ timer
  /\ Len(answers) < MaxInFlight
  /\ titled \subseteq listing
  /\ answers' = Append(answers, Served(titled))
  /\ stopIfFull
  /\ UNCHANGED <<listing, edits, counter, collected>>

TickFails ==
  /\ timer
  /\ stopIfFull
  /\ UNCHANGED <<listing, edits, answers, counter, collected>>

\* Mutant: only the products that have a title are counted.
ArrivesCountsTitled(i) ==
  LET new == answers[i].titled \ ToSet(collected) IN
  /\ answers' = RemoveAt(answers, i)
  /\ counter' = Cardinality(answers[i].titled)
  /\ \E s \in SetToSeqs(new) : collected' = collected \o s
  /\ UNCHANGED <<listing, edits, timer, delivered>>

\* Mutant: the counts of the answers are added up.
ArrivesAddsUp(i) ==
  LET new == answers[i].titled \ ToSet(collected) IN
  /\ answers' = RemoveAt(answers, i)
  /\ counter' = counter + Cardinality(answers[i].listed)
  /\ \E s \in SetToSeqs(new) : collected' = collected \o s
  /\ UNCHANGED <<listing, edits, timer, delivered>>

\* An answer, in any order, even after the timer has stopped.
Arrives(i) ==
  LET new == answers[i].titled \ ToSet(collected) IN
  /\ answers' = RemoveAt(answers, i)
  /\ counter' = Cardinality(answers[i].listed)
  /\ \E s \in SetToSeqs(new) : collected' = collected \o s
  /\ UNCHANGED <<listing, edits, timer, delivered>>

Next ==
  \/ ServerEdits
  \/ \E titled \in SUBSET Product : TickServed(titled)
  \/ TickFails
  \/ \E i \in 1..MaxInFlight : i \in DOMAIN answers /\ Arrives(i)

Ticks == TickFails \/ \E titled \in SUBSET Product : TickServed(titled)
Arrivals == \E i \in 1..MaxInFlight : i \in DOMAIN answers /\ Arrives(i)

\* The timer fires, requests are answered, and no product that stays listed
\* is served without its title, or lost to a failing network, for ever.
Spec ==
  /\ Init
  /\ [][Next]_vars
  /\ WF_vars(Ticks)
  /\ WF_vars(Arrivals)
  /\ \A p \in Product : SF_vars(\E titled \in SUBSET Product : p \in titled /\ TickServed(titled))

-----------------------------------------------------------------------------
TypeOK ==
  /\ listing \in SUBSET Product
  /\ edits \in 0..MaxEdits
  /\ answers \in Seq(Answer)
  /\ timer \in BOOLEAN
  /\ counter \in {None} \cup 0..Cardinality(Product)
  /\ collected \in Seq(Product)
  /\ delivered \in Seq(Seq(Product))

\* The call implements ListOnce: answers that overlap, repeat or come after
\* the end give no product twice and no second list.
ListedOnce == INSTANCE ListOnce WITH Products <- Product

DeliversOnce == ListedOnce!Spec

\* While the listing does not change, what is handed over is the listing.
ListIsTheListing ==
  edits = 0 => \A i \in DOMAIN delivered : ToSet(delivered[i]) = listing

\* The screen that waits under its overlay gets its list, unless the listing
\* changes meanwhile.
Delivers == <>(delivered # <<>> \/ edits > 0)

\* "if allTaxiServices is full, stop timer and return": once every product the
\* server lists is collected, the timer stops and the list is handed over.
FullListStops == [](listing \subseteq ToSet(collected) /\ counter # None => <>(delivered # <<>>))

=============================================================================
