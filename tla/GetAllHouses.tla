---------------------------- MODULE GetAllHouses ----------------------------
(***************************************************************************)
(* One call of API.getAllHouses.  It asks for the ids of all houses, then  *)
(* for the details of each house of a fixed list of ids, all at once.  The *)
(* answers come in any order.  The completion handler is called with nil   *)
(* at every failure and with the list by the answer that completes the     *)
(* count, if that one brings a house.                                      *)
(***************************************************************************)
EXTENDS SequencesExt

CONSTANT House   \* the ids of the list in receivedAllIds

ASSUME HouseAssumption == IsFiniteSet(House) /\ House # {}

VARIABLES
  asked,       \* is the request for the ids in flight?
  waiting,     \* the houses whose details are in flight
  allHouses,   \* the houses collected, in the order of arrival
  counter,     \* the answers counted
  failures,    \* how often the completion handler was called with nil
  delivered,   \* the lists the completion handler was called with
  failed       \* history: the houses whose request failed

vars == <<asked, waiting, allHouses, counter, failures, delivered, failed>>

\* Net.request for the ids: offline it answers nil at once.
Init ==
  /\ asked \in BOOLEAN
  /\ failures = IF asked THEN 0 ELSE 1
  /\ waiting = {}
  /\ allHouses = <<>>
  /\ counter = 0
  /\ delivered = <<>>
  /\ failed = {}

\* receivedAllIds.  A request made while the phone is offline fails within
\* the loop that makes the requests.
IdsArrive ==
  /\ asked
  /\ asked' = FALSE
  /\ \E offline \in SUBSET House :
       /\ waiting' = House \ offline
       /\ counter' = Cardinality(offline)
       /\ failures' = failures + Cardinality(offline)
       /\ failed' = offline
  /\ UNCHANGED <<allHouses, delivered>>

\* Mutant: the failure is not reported.
IdsFailSilently ==
  /\ asked
  /\ asked' = FALSE
  /\ UNCHANGED <<waiting, allHouses, counter, failures, delivered, failed>>

IdsFail ==
  /\ asked
  /\ asked' = FALSE
  /\ failures' = failures + 1
  /\ UNCHANGED <<waiting, allHouses, counter, delivered, failed>>

\* Mutant: the list goes out one answer early, and again at the last.
HouseArrivesNearTheEnd(h) ==
  /\ h \in waiting
  /\ waiting' = waiting \ {h}
  /\ counter' = counter + 1
  /\ allHouses' = Append(allHouses, h)
  /\ delivered' = IF counter' >= Cardinality(House) - 1 THEN Append(delivered, allHouses')
                                                        ELSE delivered
  /\ UNCHANGED <<asked, failures, failed>>

\* Mutant: the list goes out one answer early.
HouseArrivesOneEarly(h) ==
  /\ h \in waiting
  /\ waiting' = waiting \ {h}
  /\ counter' = counter + 1
  /\ allHouses' = Append(allHouses, h)
  /\ delivered' = IF counter' = Cardinality(House) - 1 THEN Append(delivered, allHouses')
                                                       ELSE delivered
  /\ UNCHANGED <<asked, failures, failed>>

\* Mutant: the count is compared before the answer is counted.
HouseArrivesCountsAfter(h) ==
  /\ h \in waiting
  /\ waiting' = waiting \ {h}
  /\ counter' = counter + 1
  /\ allHouses' = Append(allHouses, h)
  /\ delivered' = IF counter = Cardinality(House) THEN Append(delivered, allHouses')
                                                  ELSE delivered
  /\ UNCHANGED <<asked, failures, failed>>

HouseArrives(h) ==
  /\ h \in waiting
  /\ waiting' = waiting \ {h}
  /\ counter' = counter + 1
  /\ allHouses' = Append(allHouses, h)
  /\ delivered' = IF counter' = Cardinality(House) THEN Append(delivered, allHouses')
                                                  ELSE delivered
  /\ UNCHANGED <<asked, failures, failed>>

\* Mutant: a failed answer is counted twice.
HouseFailsCountsTwice(h) ==
  /\ h \in waiting
  /\ waiting' = waiting \ {h}
  /\ counter' = counter + 2
  /\ failures' = failures + 1
  /\ failed' = failed \cup {h}
  /\ UNCHANGED <<asked, allHouses, delivered>>

HouseFails(h) ==
  /\ h \in waiting
  /\ waiting' = waiting \ {h}
  /\ counter' = counter + 1
  /\ failures' = failures + 1
  /\ failed' = failed \cup {h}
  /\ UNCHANGED <<asked, allHouses, delivered>>

Answer == IdsArrive \/ IdsFail \/ \E h \in House : HouseArrives(h) \/ HouseFails(h)

Next == Answer

\* Every request is answered: by the server, by an error or by its timeout.
Spec == Init /\ [][Next]_vars /\ WF_vars(Answer)

-----------------------------------------------------------------------------
TypeOK ==
  /\ asked \in BOOLEAN
  /\ waiting \in SUBSET House
  /\ allHouses \in Seq(House)
  /\ counter \in 0..Cardinality(House)
  /\ failures \in 0..Cardinality(House)
  /\ delivered \in Seq(Seq(House))
  /\ failed \in SUBSET House

\* The call implements ListOnce, however its answers are ordered: the screens
\* that set themselves up in the completion handler do so once.
ListedOnce == INSTANCE ListOnce WITH Products <- House

DeliversOnce == ListedOnce!Spec

\* The list that is handed over comes after every answer, and has each house
\* whose request did not fail.
ListIsWhatArrived ==
  \A i \in DOMAIN delivered : waiting = {} /\ ToSet(delivered[i]) = House \ failed

\* The caller hears of a call that ends without a list, and it hears of every
\* house that is missing from a list: the completion handler is called at the
\* end of the call, and with nil once for every missing house.
FailuresAreHeard ==
  /\ ~asked /\ waiting = {} => failures > 0 \/ delivered # <<>>
  /\ delivered # <<>> => failures = Cardinality(House) - Len(Last(delivered))

\* The call ends: some call of the completion handler is its last.
CallEnds == <>[](~asked /\ waiting = {} /\ (failures > 0 \/ delivered # <<>>))

\* "XCTAssertEqual(houses.count, 27)": a list that is not nil is the whole
\* list.
ListIsWhole == \A i \in DOMAIN delivered : Len(delivered[i]) = Cardinality(House)

=============================================================================
