-------------------------- MODULE GetAllHouses_proofs --------------------------
(***************************************************************************)
(* One call of getAllHouses, for any list of ids, whatever answers and in  *)
(* whatever order: what it hands over, and that it does so at most once.   *)
(***************************************************************************)
EXTENDS GetAllHouses, FiniteSetTheorems, SequenceTheorems, TLAPS

(* Until the ids are answered nothing has happened.                        *)
Fresh ==
  /\ waiting = {} /\ allHouses = <<>> /\ counter = 0
  /\ failures = 0 /\ delivered = <<>> /\ failed = {}

(* Without the ids the call is over: its caller has heard nil once.        *)
NoIds ==
  /\ ~asked
  /\ waiting = {} /\ allHouses = <<>> /\ counter = 0
  /\ failures = 1 /\ delivered = <<>> /\ failed = {}

(* Every house is waited for, has come or has failed, one of the three, and *)
(* the counters say how many of each; a list is handed over at the end.    *)
Answered ==
  /\ ~asked
  /\ ToSet(allHouses) = House \ (waiting \cup failed)
  /\ waiting \cap failed = {}
  /\ IsInjective(allHouses)
  /\ failures = Cardinality(failed)
  /\ counter = Cardinality(House) - Cardinality(waiting)
  /\ Len(allHouses) = counter - failures
  /\ delivered = <<>> \/ (waiting = {} /\ allHouses # <<>> /\ delivered = <<allHouses>>)
  /\ waiting = {} => failures > 0 \/ delivered # <<>>

Types ==
  /\ asked \in BOOLEAN
  /\ waiting \in SUBSET House
  /\ failed \in SUBSET House
  /\ allHouses \in Seq(House)

Inv == Types /\ ((asked /\ Fresh) \/ NoIds \/ Answered)

-----------------------------------------------------------------------------
LEMMA HouseCount ==
  /\ IsFiniteSet(House)
  /\ Cardinality(House) \in Nat \ {0}
  /\ Cardinality({}) = 0
<1>1. IsFiniteSet(House)
  BY HouseAssumption
<1>2. Cardinality(House) \in Nat /\ Cardinality(House) # 0
  BY <1>1, HouseAssumption, FS_CardinalityType, FS_EmptySet
<1>3. Cardinality({}) = 0
  BY FS_EmptySet
<1> QED BY <1>1, <1>2, <1>3

LEMMA SubsetCount ==
  ASSUME NEW S, S \subseteq House
  PROVE  /\ IsFiniteSet(S)
         /\ Cardinality(S) \in Nat
         /\ Cardinality(S) <= Cardinality(House)
         /\ Cardinality(House \ S) = Cardinality(House) - Cardinality(S)
         /\ Cardinality(S) = 0 <=> S = {}
<1>1. IsFiniteSet(S) /\ Cardinality(S) <= Cardinality(House)
  BY HouseCount, FS_Subset
<1>2. Cardinality(S) \in Nat
  BY <1>1, FS_CardinalityType
<1>3. Cardinality(House \ S) = Cardinality(House) - Cardinality(House \cap S)
  BY HouseCount, FS_Difference
<1>4. House \cap S = S
  OBVIOUS
<1>5. Cardinality(S) = 0 <=> S = {}
  BY <1>1, FS_EmptySet
<1> QED BY <1>1, <1>2, <1>3, <1>4, <1>5

(* One answer less to wait for, one answer more.                           *)
LEMMA OneMore ==
  ASSUME NEW S, S \subseteq House, NEW h \in House
  PROVE  /\ h \in S => Cardinality(S \ {h}) = Cardinality(S) - 1
         /\ h \notin S => Cardinality(S \cup {h}) = Cardinality(S) + 1
  BY SubsetCount, FS_RemoveElement, FS_AddElement

(* A house that comes stands last, and nowhere before.                     *)
LEMMA AppendHouse ==
  ASSUME NEW s \in Seq(House), NEW h \in House
  PROVE  /\ Append(s, h) \in Seq(House)
         /\ Len(Append(s, h)) = Len(s) + 1
         /\ Append(s, h) # <<>>
         /\ ToSet(Append(s, h)) = ToSet(s) \cup {h}
         /\ IsInjective(s) /\ h \notin ToSet(s) => IsInjective(Append(s, h))
<1> DEFINE t == Append(s, h)
<1>1. /\ t \in Seq(House) /\ Len(t) = Len(s) + 1
      /\ \A i \in 1..Len(s) : t[i] = s[i]
      /\ t[Len(s) + 1] = h
  BY AppendProperties
<1>2. DOMAIN t = 1..(Len(s) + 1) /\ DOMAIN s = 1..Len(s) /\ Len(s) \in Nat
  BY <1>1
<1> HIDE DEF t
<1>3. DOMAIN t = DOMAIN s \cup {Len(s) + 1} /\ Len(s) + 1 \notin DOMAIN s
  BY <1>2
<1>4. ToSet(t) = ToSet(s) \cup {h}
  BY <1>1, <1>2, <1>3 DEF ToSet
<1>5. ASSUME IsInjective(s), h \notin ToSet(s)
      PROVE  IsInjective(t)
  BY <1>1, <1>2, <1>3, <1>5 DEF IsInjective, ToSet
<1>6. t # <<>>
  BY <1>1, <1>2
<1> QED BY <1>1, <1>4, <1>5, <1>6 DEF t

-----------------------------------------------------------------------------
LEMMA InvInit == Init => Inv
<1> SUFFICES ASSUME Init PROVE Inv
  OBVIOUS
<1>1. Types
  BY DEF Init, Types
<1>2. CASE asked
  BY <1>1, <1>2 DEF Init, Inv, Fresh
<1>3. CASE ~asked
  BY <1>1, <1>3 DEF Init, Inv, NoIds
<1> QED BY <1>2, <1>3

LEMMA IdsArriveNext ==
  ASSUME Inv, IdsArrive
  PROVE  Inv'
<1>1. Fresh /\ Types
  BY DEF Inv, IdsArrive, NoIds, Answered
<1>2. PICK offline \in SUBSET House :
        /\ waiting' = House \ offline
        /\ counter' = Cardinality(offline)
        /\ failures' = failures + Cardinality(offline)
        /\ failed' = offline
  BY DEF IdsArrive
<1>3. asked' = FALSE /\ allHouses' = <<>> /\ delivered' = <<>>
  BY <1>1 DEF IdsArrive, Fresh
<1>4. ToSet(<<>>) = {} /\ IsInjective(<<>>) /\ Len(<<>>) = 0
  BY DEF ToSet, IsInjective
<1>5. /\ Cardinality(offline) \in Nat /\ Cardinality(House) \in Nat \ {0}
      /\ Cardinality(House \ offline) = Cardinality(House) - Cardinality(offline)
  BY <1>2, HouseCount, SubsetCount
<1>6. failures' = Cardinality(offline) /\ counter' = Cardinality(House) - Cardinality(waiting')
  BY <1>1, <1>2, <1>5 DEF Fresh
<1>7. waiting' = {} => failures' > 0
  <2>1. waiting' = {} => offline = House
    BY <1>2
  <2> QED BY <1>5, <1>6, <2>1
<1>8. Answered'
  BY <1>2, <1>3, <1>4, <1>5, <1>6, <1>7 DEF Answered
<1>9. Types'
  <2>1. waiting' \in SUBSET House /\ failed' \in SUBSET House
    BY <1>2
  <2>2. asked' \in BOOLEAN
    BY <1>3
  <2>3. allHouses' \in Seq(House)
    BY <1>3
  <2> QED BY <2>1, <2>2, <2>3 DEF Types
<1> QED BY <1>8, <1>9 DEF Inv

LEMMA IdsFailNext ==
  ASSUME Inv, IdsFail
  PROVE  Inv'
<1>1. Fresh /\ Types
  BY DEF Inv, IdsFail, NoIds, Answered
<1>2. NoIds'
  BY <1>1 DEF Fresh, NoIds, IdsFail
<1>3. Types'
  BY <1>1 DEF Types, IdsFail
<1> QED BY <1>2, <1>3 DEF Inv

(* What an answer of a house does to the counts, whichever answer it is.   *)
LEMMA AnswerCounts ==
  ASSUME Inv, NEW h \in waiting, waiting' = waiting \ {h}, counter' = counter + 1
  PROVE  /\ Answered /\ Types
         /\ h \in House /\ h \notin failed /\ h \notin ToSet(allHouses)
         /\ delivered = <<>>
         /\ waiting' \in SUBSET House
         /\ counter' = Cardinality(House) - Cardinality(waiting')
         /\ counter \in Nat /\ failures \in Nat /\ failures = Cardinality(failed)
         /\ counter' = Cardinality(House) <=> waiting' = {}
<1>1. Answered /\ Types
  BY DEF Inv, Fresh, NoIds
<1>2. h \in House /\ h \notin failed /\ h \notin ToSet(allHouses) /\ delivered = <<>>
  BY <1>1 DEF Answered, Types
<1>3. waiting' \in SUBSET House
  BY <1>1 DEF Types
<1>4. Cardinality(waiting') = Cardinality(waiting) - 1
  BY <1>1, <1>2, OneMore DEF Types
<1>5. /\ Cardinality(House) \in Nat
      /\ Cardinality(waiting) \in Nat
      /\ Cardinality(waiting) <= Cardinality(House)
      /\ Cardinality(failed) \in Nat
  BY <1>1, HouseCount, SubsetCount DEF Types
<1>6. counter = Cardinality(House) - Cardinality(waiting) /\ failures = Cardinality(failed)
  BY <1>1 DEF Answered
<1>7. Cardinality(waiting') = 0 <=> waiting' = {}
  BY <1>3, SubsetCount
<1>8. counter' = Cardinality(House) - Cardinality(waiting') /\ counter \in Nat
  BY <1>4, <1>5, <1>6
<1> QED BY <1>1, <1>2, <1>3, <1>4, <1>5, <1>6, <1>7, <1>8

LEMMA HouseArrivesNext ==
  ASSUME Inv, NEW h \in House, HouseArrives(h)
  PROVE  Inv'
<1>1. /\ h \in waiting /\ waiting' = waiting \ {h} /\ counter' = counter + 1
      /\ allHouses' = Append(allHouses, h)
      /\ UNCHANGED <<asked, failures, failed>>
      /\ delivered' = IF counter' = Cardinality(House) THEN Append(delivered, allHouses') ELSE delivered
  BY DEF HouseArrives
<1>2. /\ Answered /\ Types
      /\ h \notin failed /\ h \notin ToSet(allHouses)
      /\ delivered = <<>>
      /\ waiting' \in SUBSET House
      /\ counter' = Cardinality(House) - Cardinality(waiting')
      /\ counter \in Nat /\ failures \in Nat
      /\ counter' = Cardinality(House) <=> waiting' = {}
  BY <1>1, AnswerCounts
<1>3. /\ allHouses' \in Seq(House)
      /\ Len(allHouses') = Len(allHouses) + 1
      /\ allHouses' # <<>>
      /\ ToSet(allHouses') = ToSet(allHouses) \cup {h}
      /\ IsInjective(allHouses')
  BY <1>1, <1>2, AppendHouse DEF Types, Answered
<1>4. Len(allHouses') = counter' - failures'
  BY <1>1, <1>2, <1>3 DEF Answered
<1>5. ToSet(allHouses') = House \ (waiting' \cup failed') /\ waiting' \cap failed' = {}
  BY <1>1, <1>2, <1>3 DEF Answered
<1>6. /\ delivered' = <<>> \/ (waiting' = {} /\ delivered' = <<allHouses'>>)
      /\ waiting' = {} => delivered' # <<>>
  BY <1>1, <1>2
<1>7. Answered'
  BY <1>1, <1>2, <1>3, <1>4, <1>5, <1>6 DEF Answered
<1>8. Types'
  BY <1>1, <1>2, <1>3 DEF Types
<1> QED BY <1>7, <1>8 DEF Inv

LEMMA HouseFailsNext ==
  ASSUME Inv, NEW h \in House, HouseFails(h)
  PROVE  Inv'
<1>1. /\ h \in waiting /\ waiting' = waiting \ {h} /\ counter' = counter + 1
      /\ failures' = failures + 1 /\ failed' = failed \cup {h}
      /\ UNCHANGED <<asked, allHouses, delivered>>
  BY DEF HouseFails
<1>2. /\ Answered /\ Types
      /\ h \notin failed /\ h \notin ToSet(allHouses)
      /\ delivered = <<>>
      /\ waiting' \in SUBSET House
      /\ counter' = Cardinality(House) - Cardinality(waiting')
      /\ counter \in Nat /\ failures \in Nat /\ failures = Cardinality(failed)
  BY <1>1, AnswerCounts
<1>3. failures' = Cardinality(failed')
  BY <1>1, <1>2, OneMore DEF Types
<1>4. Len(allHouses') = counter' - failures'
  BY <1>1, <1>2 DEF Answered
<1>5. ToSet(allHouses') = House \ (waiting' \cup failed') /\ waiting' \cap failed' = {}
  BY <1>1, <1>2 DEF Answered
<1>6. Answered'
  <2>1. failures' > 0
    BY <1>1, <1>2
  <2> QED BY <1>1, <1>2, <1>3, <1>4, <1>5, <2>1 DEF Answered
<1>7. Types'
  BY <1>1, <1>2 DEF Types
<1> QED BY <1>6, <1>7 DEF Inv

LEMMA InvNext == Inv /\ [Next]_vars => Inv'
<1> SUFFICES ASSUME Inv, [Next]_vars
             PROVE  Inv'
  OBVIOUS
<1>1. CASE UNCHANGED vars
  BY <1>1 DEF Inv, Types, Fresh, NoIds, Answered, vars
<1>2. CASE Next
  BY <1>2, IdsArriveNext, IdsFailNext, HouseArrivesNext, HouseFailsNext DEF Next, Answer
<1> QED BY <1>1, <1>2

LEMMA Invariance == Spec => []Inv
  BY InvInit, InvNext, PTL DEF Spec

-----------------------------------------------------------------------------
(* The counters stay between zero and the number of the ids.               *)
THEOREM TypeCorrect == Spec => []TypeOK
<1>1. Inv => TypeOK
  <2> SUFFICES ASSUME Inv PROVE TypeOK
    OBVIOUS
  <2>1. Types
    BY DEF Inv
  <2>2. counter \in 0..Cardinality(House) /\ failures \in 0..Cardinality(House)
    <3>1. CASE Fresh \/ NoIds
      BY <3>1, HouseCount DEF Fresh, NoIds
    <3>2. CASE Answered
      <4>1. /\ Cardinality(House) \in Nat
            /\ Cardinality(waiting) \in Nat /\ Cardinality(waiting) <= Cardinality(House)
            /\ Cardinality(failed) \in Nat /\ Cardinality(failed) <= Cardinality(House)
        BY <2>1, HouseCount, SubsetCount DEF Types
      <4> QED BY <3>2, <4>1 DEF Answered
    <3> QED BY <3>1, <3>2 DEF Inv
  <2>3. delivered \in Seq(Seq(House))
    <3>1. delivered = <<>> \/ delivered = <<allHouses>>
      BY DEF Inv, Fresh, NoIds, Answered
    <3>2. allHouses \in Seq(House)
      BY <2>1 DEF Types
    <3>3. <<>> \in Seq(Seq(House)) /\ <<allHouses>> \in Seq(Seq(House))
      BY <3>2
    <3> QED BY <3>1, <3>3, Zenon
  <2> QED BY <2>1, <2>2, <2>3 DEF TypeOK, Types
<1> QED BY <1>1, Invariance, PTL

(* A list is handed over when nothing is waited for, and has each house    *)
(* whose request did not fail.                                             *)
THEOREM ListsAreWhatArrived == Spec => []ListIsWhatArrived
<1>1. Inv => ListIsWhatArrived
  <2> SUFFICES ASSUME Inv, NEW i \in DOMAIN delivered
               PROVE  waiting = {} /\ ToSet(delivered[i]) = House \ failed
    BY DEF ListIsWhatArrived
  <2>1. CASE Fresh \/ NoIds
    BY <2>1 DEF Fresh, NoIds
  <2>2. CASE Answered
    <3>1. waiting = {} /\ delivered = <<allHouses>>
      BY <2>2 DEF Answered
    <3>2. delivered[i] = allHouses
      BY <3>1
    <3> QED BY <2>2, <3>1, <3>2 DEF Answered
  <2> QED BY <2>1, <2>2 DEF Inv
<1> QED BY <1>1, Invariance, PTL

(* The caller hears of every failure, and of a call that ends without list. *)
THEOREM FailuresStayHeard == Spec => []FailuresAreHeard
<1>1. Inv => FailuresAreHeard
  <2> SUFFICES ASSUME Inv PROVE FailuresAreHeard
    OBVIOUS
  <2>1. CASE asked /\ Fresh
    BY <2>1 DEF Fresh, FailuresAreHeard
  <2>2. CASE NoIds
    BY <2>2 DEF NoIds, FailuresAreHeard
  <2>3. CASE Answered
    <3>1. /\ ~asked
          /\ waiting = {} => failures > 0 \/ delivered # <<>>
          /\ delivered = <<>> \/ (waiting = {} /\ delivered = <<allHouses>>)
      BY <2>3 DEF Answered
    <3>2. ASSUME delivered # <<>>
          PROVE  failures = Cardinality(House) - Len(Last(delivered))
      <4>1. waiting = {} /\ Last(delivered) = allHouses
        BY <3>1, <3>2 DEF Last
      <4>2. Cardinality(waiting) = 0 /\ Cardinality(House) \in Nat /\ Cardinality(failed) \in Nat
        BY <4>1, HouseCount, SubsetCount DEF Inv, Types
      <4>3. Len(allHouses) = Cardinality(House) - failures /\ failures \in Nat
        BY <2>3, <4>2 DEF Answered
      <4> QED BY <4>1, <4>2, <4>3
    <3> QED BY <3>1, <3>2 DEF FailuresAreHeard
  <2> QED BY <2>1, <2>2, <2>3 DEF Inv
<1> QED BY <1>1, Invariance, PTL

-----------------------------------------------------------------------------
(* A list with no house twice has as many entries as houses, so it is one  *)
(* of the lists that ListOnce allows.                                      *)
LEMMA ListAllowed ==
  ASSUME NEW list \in Seq(House), IsInjective(list)
  PROVE  list \in ListedOnce!Lists
<1> DEFINE n == Len(list)
<1>1. n \in Nat /\ list \in [1..n -> House]
  OBVIOUS
<1>2. list \in Injection(1..n, House)
  BY <1>1 DEF Injection
<1>3. Cardinality(1..n) <= Cardinality(House) /\ Cardinality(1..n) = n
  <2>1. Cardinality(1..n) <= Cardinality(House)
    BY <1>2, HouseCount, FS_Injection
  <2>2. Cardinality(1..n) = n
    BY <1>1, FS_Interval
  <2> QED BY <2>1, <2>2
<1>4. n \in 0..Cardinality(House)
  BY <1>1, <1>3, HouseCount
<1>5. list \in ListedOnce!SeqOf(House, Cardinality(House))
  BY <1>1, <1>4 DEF ListedOnce!SeqOf
<1>6. ListedOnce!IsInjective(list)
  BY DEF IsInjective, ListedOnce!IsInjective
<1>7. ListedOnce!Cardinality(House) = Cardinality(House)
  BY DEF Cardinality, ListedOnce!Cardinality
<1> QED BY <1>5, <1>6, <1>7 DEF ListedOnce!Lists

(* The call implements ListOnce: no order of the answers makes it hand     *)
(* over a second list, or a house twice.                                   *)
THEOREM ListIsHandedOverOnce == Spec => DeliversOnce
<1>1. Init => ListedOnce!Init
  BY DEF Init, ListedOnce!Init
<1>2. Inv /\ Inv' /\ [Next]_vars => [ListedOnce!Next]_delivered
  <2> SUFFICES ASSUME Inv, Inv', [Next]_vars, delivered' # delivered
               PROVE  ListedOnce!Next
    OBVIOUS
  <2>1. PICK h \in House : HouseArrives(h)
    BY DEF Next, Answer, IdsArrive, IdsFail, HouseFails, vars
  <2>2. delivered = <<>>
    BY <2>1, AnswerCounts DEF HouseArrives
  <2>3. delivered' = <<allHouses'>>
    BY <2>1, <2>2 DEF HouseArrives
  <2>4. Answered'
    BY <2>3 DEF Inv, Fresh, NoIds
  <2>5. allHouses' \in Seq(House) /\ IsInjective(allHouses')
    BY <2>4 DEF Inv, Types, Answered
  <2>6. allHouses' \in ListedOnce!Lists
    BY <2>5, ListAllowed
  <2> QED BY <2>2, <2>3, <2>6 DEF ListedOnce!Next, ListedOnce!Deliver
<1> QED BY <1>1, <1>2, Invariance, PTL DEF Spec, DeliversOnce, ListedOnce!Spec

-----------------------------------------------------------------------------
(* What the caller may build on: a list that is handed over is not empty   *)
(* and has every house of some set once.  HomeVC, MapVC and LikedHousesVC  *)
(* take such lists (guard let houses, then houses.first! or houses[0]).    *)
ListsAreOfSomeHouses ==
  \A i \in DOMAIN delivered : \E S \in (SUBSET House) \ {{}} : delivered[i] \in SetToSeqs(S)

(* A list of the call is one of those that the models of the screens take  *)
(* from it (API.getAllHouses).                                             *)
THEOREM ListsAreAsTheScreensTakeThem == Spec => []ListsAreOfSomeHouses
<1>1. Inv => ListsAreOfSomeHouses
  <2> SUFFICES ASSUME Inv, NEW i \in DOMAIN delivered
               PROVE  \E S \in (SUBSET House) \ {{}} : delivered[i] \in SetToSeqs(S)
    BY DEF ListsAreOfSomeHouses
  <2> DEFINE S == ToSet(allHouses)
  <2>1. Answered /\ waiting = {} /\ allHouses # <<>> /\ delivered[i] = allHouses
    <3>1. Answered
      BY DEF Inv, Fresh, NoIds
    <3> QED BY <3>1 DEF Answered
  <2>2. allHouses \in Seq(House) /\ IsInjective(allHouses) /\ S = House \ failed /\ failed \in SUBSET House
    BY <2>1 DEF Inv, Types, Answered
  <2>3. Len(allHouses) = Cardinality(S)
    <3>1. /\ Cardinality(House) \in Nat /\ Cardinality(waiting) = 0 /\ Cardinality(failed) \in Nat
          /\ Cardinality(House \ failed) = Cardinality(House) - Cardinality(failed)
      BY <2>1, <2>2, HouseCount, SubsetCount
    <3> QED BY <2>1, <2>2, <3>1 DEF Answered
  <2>4. S # {} /\ S \subseteq House
    <3>1. 1 \in DOMAIN allHouses
      BY <2>1, <2>2
    <3> QED BY <2>2, <3>1 DEF ToSet
  <2>5. allHouses \in [1..Cardinality(S) -> S]
    <3> DEFINE n == Len(allHouses)
    <3>1. allHouses \in [1..n -> House] /\ DOMAIN allHouses = 1..n
      BY <2>2
    <3>2. \A j \in 1..n : allHouses[j] \in S
      BY <3>1 DEF ToSet
    <3> HIDE DEF S, n
    <3>3. allHouses \in [1..n -> S]
      BY <3>1, <3>2
    <3>4. n = Cardinality(S)
      BY <2>3 DEF n
    <3> QED BY <3>3, <3>4
  <2>6. \A j, k \in 1..Cardinality(S) : j # k => allHouses[j] # allHouses[k]
    <3>1. DOMAIN allHouses = 1..Cardinality(S)
      BY <2>2, <2>3
    <3> HIDE DEF S
    <3> QED BY <2>2, <3>1 DEF IsInjective
  <2>7. allHouses \in SetToSeqs(S)
    <3> HIDE DEF S
    <3> QED BY <2>5, <2>6 DEF SetToSeqs
  <2> QED BY <2>1, <2>4, <2>7
<1> QED BY <1>1, Invariance, PTL

(* How many answers the call still needs at most.                          *)
answersLeft == IF asked THEN Cardinality(House) + 1 ELSE Cardinality(waiting)

(* Every step brings the end of the call nearer, and at the end the caller *)
(* has heard a list or a nil: so a call is over after one answer more than *)
(* there are houses, if only every request is answered.                    *)
AnswersCountDown ==
  /\ [](answersLeft \in Nat)
  /\ [][answersLeft' < answersLeft]_vars
  /\ [](answersLeft = 0 => ~asked /\ waiting = {} /\ (failures > 0 \/ delivered # <<>>))

(* The safety of CallEnds: with the fairness of the answers, a call can    *)
(* not go on for ever, or end unheard (API.getAllHouses).                  *)
THEOREM CallRunsOut == Spec => AnswersCountDown
<1>1. ASSUME Inv
      PROVE  /\ answersLeft \in Nat
             /\ answersLeft = 0 => ~asked /\ waiting = {} /\ (failures > 0 \/ delivered # <<>>)
  <2>1. Cardinality(House) \in Nat /\ Cardinality(waiting) \in Nat /\ (Cardinality(waiting) = 0 <=> waiting = {})
    BY <1>1, HouseCount, SubsetCount DEF Inv, Types
  <2>2. answersLeft = 0 => ~asked /\ waiting = {}
    BY <2>1 DEF answersLeft
  <2>3. ~asked /\ waiting = {} => failures > 0 \/ delivered # <<>>
    BY <1>1 DEF Inv, NoIds, Answered
  <2> QED BY <2>1, <2>2, <2>3 DEF answersLeft
<1>2. ASSUME Inv, Next
      PROVE  answersLeft' < answersLeft
  <2>1. CASE IdsArrive
    <3>1. asked /\ asked' = FALSE /\ waiting' \subseteq House
      BY <2>1 DEF IdsArrive
    <3>2. /\ Cardinality(House) \in Nat /\ Cardinality(waiting') \in Nat
          /\ Cardinality(waiting') <= Cardinality(House)
      BY <3>1, HouseCount, SubsetCount
    <3> QED BY <3>1, <3>2 DEF answersLeft
  <2>2. CASE IdsFail
    <3>1. asked /\ asked' = FALSE /\ waiting' = {}
      BY <1>2, <2>2 DEF IdsFail, Inv, Fresh, NoIds, Answered
    <3> QED BY <3>1, HouseCount DEF answersLeft
  <2>3. ASSUME NEW h \in House, HouseArrives(h) \/ HouseFails(h)
        PROVE  answersLeft' < answersLeft
    <3>1. h \in waiting /\ waiting' = waiting \ {h} /\ asked' = asked
      BY <2>3 DEF HouseArrives, HouseFails
    <3>2. ~asked /\ waiting \subseteq House
      BY <1>2, <3>1 DEF Inv, Types, Fresh, NoIds, Answered
    <3>3. Cardinality(waiting') = Cardinality(waiting) - 1 /\ Cardinality(waiting) \in Nat
      BY <3>1, <3>2, OneMore, SubsetCount
    <3> QED BY <3>1, <3>2, <3>3 DEF answersLeft
  <2> QED BY <1>2, <2>1, <2>2, <2>3 DEF Next, Answer
<1>3. Inv => answersLeft \in Nat
  BY <1>1
<1>4. Inv => (answersLeft = 0 => ~asked /\ waiting = {} /\ (failures > 0 \/ delivered # <<>>))
  BY <1>1
<1>5. Inv /\ [Next]_vars => [answersLeft' < answersLeft]_vars
  BY <1>2
<1> QED BY <1>3, <1>4, <1>5, Invariance, PTL DEF Spec, AnswersCountDown

=============================================================================
