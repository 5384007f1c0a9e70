------------------------- MODULE ServicePoller_proofs -------------------------
(***************************************************************************)
(* One call that polls a service, for any products, any number of answers  *)
(* on their way and any changes of the server's list: it hands over at     *)
(* most one list, and that is the server's while the server keeps it.  And *)
(* the taxi tab over it, for any prices: what its menu shows is that list, *)
(* sorted.                                                                 *)
(***************************************************************************)
EXTENDS TaxiServiceVC, ListLemmas

(* What is collected has no product twice, and what was handed over is one *)
(* such list, at the end of the timer.                                     *)
Once ==
  /\ IsInjective(collected)
  /\ timer => delivered = <<>>
  /\ ~timer => \E list \in Seq(Product) : IsInjective(list) /\ delivered = <<list>>

(* While the server keeps its list, every answer, whenever it comes, tells *)
(* of that list; so do the count and what is collected.                    *)
Kept ==
  /\ \A i \in DOMAIN answers : answers[i].listed = listing
  /\ ToSet(collected) \subseteq listing
  /\ counter \in {None, Cardinality(listing)}
  /\ \A i \in DOMAIN delivered : ToSet(delivered[i]) = listing

Inv == TypeOK /\ Once /\ (edits = 0 => Kept)

-----------------------------------------------------------------------------
LEMMA ProductCount ==
  ASSUME NEW S, S \subseteq Product
  PROVE  /\ IsFiniteSet(S)
         /\ Cardinality(S) \in Nat
         /\ Cardinality(S) \in 0..Cardinality(Product)
<1>1. IsFiniteSet(Product)
  BY PollerAssumption
<1>2. Cardinality(Product) \in Nat
  BY <1>1, FS_CardinalityType
<1>3. IsFiniteSet(S) /\ Cardinality(S) <= Cardinality(Product)
  BY <1>1, FS_Subset
<1>4. Cardinality(S) \in Nat
  BY <1>3, FS_CardinalityType
<1> QED BY <1>2, <1>3, <1>4

(* A list without repetitions of the products of a set is all of them as   *)
(* soon as it has as many.                                                 *)
LEMMA FullList ==
  ASSUME NEW S, S \subseteq Product, NEW list \in Seq(Product), IsInjective(list),
         ToSet(list) \subseteq S
  PROVE  /\ Len(list) <= Cardinality(S)
         /\ Len(list) = Cardinality(S) => ToSet(list) = S
<1> DEFINE n == Len(list)
<1>1. n \in Nat /\ DOMAIN list = 1..n
  OBVIOUS
<1>2. list \in [1..n -> S]
  BY <1>1 DEF ToSet
<1>3. list \in Injection(1..n, S)
  BY <1>2 DEF Injection
<1>4. Cardinality(1..n) = n
  BY <1>1, FS_Interval
<1>5. IsFiniteSet(S)
  BY ProductCount
<1>6. Cardinality(1..n) <= Cardinality(S) /\ (Cardinality(1..n) = Cardinality(S) <=> list \in Surjection(1..n, S))
  BY <1>3, <1>5, FS_Injection
<1>7. list \in Surjection(1..n, S) => ToSet(list) = S
  BY <1>1, <1>2 DEF Surjection, ToSet
<1> QED BY <1>4, <1>6, <1>7

(* The products that an answer adds come after those collected before.     *)
LEMMA Collected ==
  ASSUME NEW list \in Seq(Product), IsInjective(list),
         NEW new, new \subseteq Product \ ToSet(list), NEW s \in SetToSeqs(new)
  PROVE  /\ list \o s \in Seq(Product)
         /\ IsInjective(list \o s)
         /\ ToSet(list \o s) \subseteq ToSet(list) \cup new
<1> DEFINE t == list \o s
           n == Cardinality(new)
<1>1. n \in Nat
  BY ProductCount
<1>2. s \in [1..n -> new] /\ \A i, j \in 1..n : i # j => s[i] # s[j]
  BY DEF SetToSeqs
<1>3. s \in Seq(Product) /\ Len(s) = n
  <2>1. s \in [1..n -> Product]
    BY <1>2
  <2> QED BY <1>1, <2>1
<1>4. /\ t \in Seq(Product)
      /\ Len(t) = Len(list) + n
      /\ \A i \in 1..(Len(list) + n) : t[i] = IF i <= Len(list) THEN list[i] ELSE s[i - Len(list)]
  BY <1>3, ConcatProperties
<1> HIDE DEF t, n
<1>5. Len(list) \in Nat /\ DOMAIN list = 1..Len(list) /\ DOMAIN t = 1..(Len(list) + n)
  BY <1>1, <1>4
<1>6. ASSUME NEW i \in DOMAIN t
      PROVE  \/ i \in DOMAIN list /\ t[i] = list[i] /\ t[i] \in ToSet(list)
             \/ i - Len(list) \in 1..n /\ t[i] = s[i - Len(list)] /\ t[i] \in new
  <2>1. CASE i <= Len(list)
    BY <1>1, <1>4, <1>5, <2>1 DEF ToSet
  <2>2. CASE ~(i <= Len(list))
    <3>1. i - Len(list) \in 1..n
      BY <1>1, <1>5, <2>2
    <3> QED BY <1>2, <1>4, <1>5, <2>2, <3>1
  <2> QED BY <2>1, <2>2
<1>7. ToSet(t) \subseteq ToSet(list) \cup new
  BY <1>6 DEF ToSet
<1>8. ASSUME NEW i \in DOMAIN t, NEW j \in DOMAIN t, t[i] = t[j]
      PROVE  i = j
  <2>1. new \cap ToSet(list) = {}
    OBVIOUS
  <2>2. CASE i \in DOMAIN list /\ t[i] = list[i] /\ t[i] \in ToSet(list)
    <3>1. j \in DOMAIN list /\ t[j] = list[j]
      BY <1>6, <1>8, <2>1, <2>2
    <3> QED BY <1>8, <2>2, <3>1 DEF IsInjective
  <2>3. CASE i - Len(list) \in 1..n /\ t[i] = s[i - Len(list)] /\ t[i] \in new
    <3>1. j - Len(list) \in 1..n /\ t[j] = s[j - Len(list)]
      BY <1>6, <1>8, <2>1, <2>3
    <3>2. i - Len(list) = j - Len(list)
      BY <1>2, <1>8, <2>3, <3>1
    <3> QED BY <1>1, <1>5, <3>2
  <2> QED BY <1>6, <2>2, <2>3
<1>9. IsInjective(t)
  BY <1>8 DEF IsInjective
<1> QED BY <1>4, <1>7, <1>9 DEF t

(* The answers that stay on their way are some of those that were.         *)
LEMMA Remaining ==
  ASSUME NEW s \in Seq(Answer), NEW i \in DOMAIN s
  PROVE  /\ RemoveAt(s, i) \in Seq(Answer)
         /\ \A j \in DOMAIN RemoveAt(s, i) : \E k \in DOMAIN s : RemoveAt(s, i)[j] = s[k]
<1> DEFINE t == RemoveAt(s, i)
<1>1. i \in 1..Len(s) /\ Len(s) \in Nat /\ DOMAIN s = 1..Len(s)
  OBVIOUS
<1>2. /\ t \in Seq(Answer) /\ Len(t) = Len(s) - 1
      /\ \A j \in 1..(Len(s) - 1) : t[j] = IF j < i THEN s[j] ELSE s[j + 1]
  BY <1>1, RemoveAtProperties
<1> HIDE DEF t
<1>3. DOMAIN t = 1..(Len(s) - 1)
  BY <1>2
<1>4. ASSUME NEW j \in 1..(Len(s) - 1) PROVE \E k \in DOMAIN s : t[j] = s[k]
  <2>1. j \in DOMAIN s /\ j + 1 \in DOMAIN s
    BY <1>1
  <2> QED BY <1>2, <2>1
<1> QED BY <1>2, <1>3, <1>4 DEF t

-----------------------------------------------------------------------------
LEMMA InvInit == Init => Inv
<1> SUFFICES ASSUME Init PROVE Inv
  OBVIOUS
<1>1. TypeOK
  BY PollerAssumption DEF Init, TypeOK
<1>2. Once
  BY DEF Init, Once, IsInjective
<1>3. Kept
  BY DEF Init, Kept, ToSet
<1> QED BY <1>1, <1>2, <1>3 DEF Inv

LEMMA ServerEditsNext ==
  ASSUME Inv, ServerEdits
  PROVE  Inv'
<1>1. TypeOK'
  BY PollerAssumption DEF Inv, TypeOK, ServerEdits
<1>2. Once'
  BY DEF Inv, Once, ServerEdits
<1>3. edits' # 0
  BY DEF Inv, TypeOK, ServerEdits
<1> QED BY <1>1, <1>2, <1>3 DEF Inv

(* A tick that finds the list full hands it over and is the last.          *)
LEMMA stopIfFullNext ==
  ASSUME Inv, timer, stopIfFull, UNCHANGED <<listing, edits, counter, collected>>
  PROVE  /\ Once'
         /\ timer' \in BOOLEAN /\ delivered' \in Seq(Seq(Product))
         /\ edits = 0 => \A i \in DOMAIN delivered' : ToSet(delivered'[i]) = listing
<1>1. delivered = <<>> /\ collected \in Seq(Product) /\ IsInjective(collected)
  BY DEF Inv, Once, TypeOK
<1>2. CASE counter = Len(collected)
  <2>1. timer' = FALSE /\ delivered' = <<collected>>
    BY <1>1, <1>2 DEF stopIfFull
  <2>2. Once'
    <3>1. collected' = collected
      OBVIOUS
    <3> QED BY <1>1, <2>1, <3>1 DEF Once
  <2>3. delivered' \in Seq(Seq(Product))
    BY <1>1, <2>1
  <2>4. ASSUME edits = 0
        PROVE  ToSet(collected) = listing
    <3>1. ToSet(collected) \subseteq listing /\ counter \in {None, Cardinality(listing)} /\ listing \subseteq Product
      BY <2>4 DEF Inv, Kept, TypeOK
    <3>2. counter # None
      BY <1>1, <1>2 DEF None
    <3> QED BY <1>1, <1>2, <3>1, <3>2, FullList
  <2>5. \A i \in DOMAIN delivered' : delivered'[i] = collected
    BY <2>1
  <2> QED BY <2>1, <2>2, <2>3, <2>4, <2>5
<1>3. CASE counter # Len(collected)
  <2>1. UNCHANGED <<timer, delivered>>
    BY <1>3 DEF stopIfFull
  <2>2. Once'
    BY <2>1 DEF Inv, Once
  <2> QED BY <2>1, <2>2 DEF Inv, TypeOK, Kept
<1> QED BY <1>2, <1>3

LEMMA TickServedNext ==
  ASSUME Inv, NEW titled \in SUBSET Product, TickServed(titled)
  PROVE  Inv'
<1>1. /\ timer /\ titled \subseteq listing /\ stopIfFull
      /\ answers' = Append(answers, Served(titled))
      /\ UNCHANGED <<listing, edits, counter, collected>>
  BY DEF TickServed
<1>2. /\ Once'
      /\ timer' \in BOOLEAN /\ delivered' \in Seq(Seq(Product))
      /\ edits = 0 => \A i \in DOMAIN delivered' : ToSet(delivered'[i]) = listing
  BY <1>1, stopIfFullNext
<1>3. Served(titled) \in Answer /\ Served(titled).listed = listing
  BY <1>1 DEF Served, Answer, Inv, TypeOK
<1>4. answers \in Seq(Answer)
  BY DEF Inv, TypeOK
<1>5. /\ answers' \in Seq(Answer)
      /\ \A i \in DOMAIN answers' : answers'[i] = Served(titled) \/ (i \in DOMAIN answers /\ answers'[i] = answers[i])
  BY <1>1, <1>3, <1>4
<1>6. TypeOK'
  BY <1>1, <1>2, <1>5 DEF Inv, TypeOK
<1>7. edits' = 0 => Kept'
  BY <1>1, <1>2, <1>3, <1>5 DEF Inv, Kept
<1> QED BY <1>2, <1>6, <1>7 DEF Inv

LEMMA TickFailsNext ==
  ASSUME Inv, TickFails
  PROVE  Inv'
<1>1. /\ timer /\ stopIfFull
      /\ UNCHANGED <<listing, edits, answers, counter, collected>>
  BY DEF TickFails
<1>2. /\ Once'
      /\ timer' \in BOOLEAN /\ delivered' \in Seq(Seq(Product))
      /\ edits = 0 => \A i \in DOMAIN delivered' : ToSet(delivered'[i]) = listing
  BY <1>1, stopIfFullNext
<1>3. TypeOK'
  BY <1>1, <1>2 DEF Inv, TypeOK
<1>4. edits' = 0 => Kept'
  BY <1>1, <1>2 DEF Inv, Kept
<1> QED BY <1>2, <1>3, <1>4 DEF Inv

LEMMA ArrivesNext ==
  ASSUME Inv, NEW i \in DOMAIN answers, Arrives(i)
  PROVE  Inv'
<1> DEFINE new == answers[i].titled \ ToSet(collected)
<1>1. /\ answers' = RemoveAt(answers, i)
      /\ counter' = Cardinality(answers[i].listed)
      /\ UNCHANGED <<listing, edits, timer, delivered>>
  BY DEF Arrives
<1>2. PICK s \in SetToSeqs(new) : collected' = collected \o s
  BY DEF Arrives
<1>3. /\ answers \in Seq(Answer) /\ collected \in Seq(Product) /\ IsInjective(collected)
      /\ listing \subseteq Product
  BY DEF Inv, TypeOK, Once
<1>4. answers[i] \in Answer
  BY <1>3
<1>5. answers[i].titled \subseteq answers[i].listed /\ answers[i].listed \subseteq Product
  BY <1>4 DEF Answer
<1>6. new \subseteq Product \ ToSet(collected)
  BY <1>5
<1>7. /\ collected' \in Seq(Product)
      /\ IsInjective(collected')
      /\ ToSet(collected') \subseteq ToSet(collected) \cup new
  <2> HIDE DEF new
  <2> QED BY <1>2, <1>3, <1>6, Collected
<1>8. counter' \in 0..Cardinality(Product)
  BY <1>1, <1>5, ProductCount
<1>9. /\ answers' \in Seq(Answer)
      /\ \A j \in DOMAIN answers' : \E k \in DOMAIN answers : answers'[j] = answers[k]
  BY <1>1, <1>3, Remaining
<1>10. TypeOK'
  BY <1>1, <1>7, <1>8, <1>9 DEF Inv, TypeOK
<1>11. Once'
  BY <1>1, <1>7 DEF Inv, Once
<1>12. ASSUME edits' = 0
       PROVE  Kept'
  <2>1. Kept
    BY <1>1, <1>12 DEF Inv
  <2>2. answers[i].listed = listing
    BY <2>1 DEF Kept
  <2>3. ToSet(collected') \subseteq listing'
    BY <1>1, <1>5, <1>7, <2>1, <2>2 DEF Kept
  <2>4. \A j \in DOMAIN answers' : answers'[j].listed = listing'
    BY <1>1, <1>9, <2>1 DEF Kept
  <2>5. counter' \in {None, Cardinality(listing')}
    BY <1>1, <2>2
  <2>6. \A j \in DOMAIN delivered' : ToSet(delivered'[j]) = listing'
    BY <1>1, <2>1 DEF Kept
  <2> QED BY <2>3, <2>4, <2>5, <2>6 DEF Kept
<1> QED BY <1>10, <1>11, <1>12 DEF Inv

LEMMA InvNext == Inv /\ [Next]_vars => Inv'
<1> SUFFICES ASSUME Inv, [Next]_vars
             PROVE  Inv'
  OBVIOUS
<1>1. CASE UNCHANGED vars
  BY <1>1 DEF Inv, TypeOK, Once, Kept, vars
<1>2. CASE Next
  BY <1>2, ServerEditsNext, TickServedNext, TickFailsNext, ArrivesNext DEF Next
<1> QED BY <1>1, <1>2

LEMMA Invariance == Spec => []Inv
  BY InvInit, InvNext, PTL DEF Spec

-----------------------------------------------------------------------------
(* Every variable keeps its type, and the count that of an answer.         *)
THEOREM TypeCorrect == Spec => []TypeOK
<1>1. Inv => TypeOK
  BY DEF Inv
<1> QED BY <1>1, Invariance, PTL

(* While the server keeps its list, answers that overlap, repeat or come   *)
(* late cannot make the call hand over anything but that list.             *)
THEOREM ListStaysTheListing == Spec => []ListIsTheListing
<1>1. Inv => ListIsTheListing
  BY DEF Inv, Kept, ListIsTheListing
<1> QED BY <1>1, Invariance, PTL

(* The step that hands over a list is the one step of ListOnce.            *)
LEMMA DeliverNext == Inv /\ Inv' /\ [Next]_vars => [ListedOnce!Next]_delivered
<1> SUFFICES ASSUME Inv, Inv', [Next]_vars, delivered' # delivered
             PROVE  ListedOnce!Next
  OBVIOUS
<1>1. timer /\ stopIfFull
  BY DEF Next, ServerEdits, TickServed, TickFails, Arrives, vars
<1>2. delivered = <<>>
  BY <1>1 DEF Inv, Once
<1>3. delivered' = Append(<<>>, collected)
  BY <1>1, <1>2 DEF stopIfFull
<1>4. collected \in Seq(Product) /\ IsInjective(collected)
  BY DEF Inv, Once, TypeOK
<1>5. collected \in ListedOnce!Lists
  <2> DEFINE n == Len(collected)
  <2>1. ToSet(collected) \subseteq Product
    BY <1>4 DEF ToSet
  <2>2. n <= Cardinality(Product)
    BY <1>4, <2>1, FullList
  <2>3. n \in 0..Cardinality(Product) /\ collected \in [1..n -> Product]
    BY <1>4, <2>2, ProductCount
  <2>4. collected \in ListedOnce!SeqOf(Product, Cardinality(Product))
    BY <2>3 DEF ListedOnce!SeqOf
  <2>5. ListedOnce!IsInjective(collected)
    BY <1>4 DEF IsInjective, ListedOnce!IsInjective
  <2>6. ListedOnce!Cardinality(Product) = Cardinality(Product)
    BY DEF Cardinality, ListedOnce!Cardinality
  <2> QED BY <2>4, <2>5, <2>6 DEF ListedOnce!Lists
<1>6. delivered' = <<collected>>
  BY <1>3, <1>4
<1> QED BY <1>2, <1>5, <1>6 DEF ListedOnce!Next, ListedOnce!Deliver

(* The call implements ListOnce, also when the server changes its list.    *)
THEOREM ListIsHandedOverOnce == Spec => DeliversOnce
<1>1. Init => ListedOnce!Init
  BY DEF Init, ListedOnce!Init
<1> QED BY <1>1, DeliverNext, Invariance, PTL DEF Spec, DeliversOnce, ListedOnce!Spec

-----------------------------------------------------------------------------
(* With its length a list of every product of a set, each once, has all of *)
(* them, so an answer that comes leaves none of its products behind.       *)
LEMMA CollectedAll ==
  ASSUME NEW list \in Seq(Product), NEW new, new \subseteq Product, NEW s \in SetToSeqs(new)
  PROVE  ToSet(list) \cup new \subseteq ToSet(list \o s)
<1> DEFINE t == list \o s
           n == Cardinality(new)
<1>1. n \in Nat /\ IsFiniteSet(new)
  BY ProductCount
<1>2. s \in [1..n -> new] /\ \A i, j \in 1..n : i # j => s[i] # s[j]
  BY DEF SetToSeqs
<1>3. s \in Seq(Product) /\ Len(s) = n
  <2>1. s \in [1..n -> Product]
    BY <1>2
  <2> QED BY <1>1, <2>1
<1>4. /\ t \in Seq(Product)
      /\ Len(t) = Len(list) + n
      /\ \A i \in 1..(Len(list) + n) : t[i] = IF i <= Len(list) THEN list[i] ELSE s[i - Len(list)]
  BY <1>3, ConcatProperties
<1>5. s \in Surjection(1..n, new)
  <2>1. s \in Injection(1..n, new)
    <3> HIDE DEF n
    <3> QED BY <1>2 DEF Injection, IsInjective
  <2>2. Cardinality(1..n) = n
    BY <1>1, FS_Interval
  <2>3. Cardinality(1..n) = Cardinality(new) <=> s \in Surjection(1..n, new)
    <3> HIDE DEF n
    <3> QED BY <1>1, <2>1, FS_Injection
  <2> QED BY <2>2, <2>3
<1> HIDE DEF t, n
<1>6. Len(list) \in Nat /\ DOMAIN list = 1..Len(list) /\ DOMAIN t = 1..(Len(list) + n)
  BY <1>1, <1>4
<1>7. ASSUME NEW p \in ToSet(list) PROVE p \in ToSet(t)
  <2>1. PICK i \in 1..Len(list) : p = list[i]
    BY <1>6 DEF ToSet
  <2>2. i \in 1..(Len(list) + n) /\ t[i] = p
    BY <1>1, <1>4, <1>6, <2>1
  <2> QED BY <1>6, <2>2 DEF ToSet
<1>8. ASSUME NEW p \in new PROVE p \in ToSet(t)
  <2>1. PICK i \in 1..n : p = s[i]
    BY <1>5 DEF Surjection
  <2>2. i + Len(list) \in 1..(Len(list) + n) /\ ~(i + Len(list) <= Len(list)) /\ (i + Len(list)) - Len(list) = i
    BY <1>1, <1>6, <2>1
  <2>3. t[i + Len(list)] = p
    BY <1>4, <2>1, <2>2
  <2> QED BY <1>6, <2>2, <2>3 DEF ToSet
<1> QED BY <1>7, <1>8 DEF t

(* The answers that do not come stay on their way.                         *)
LEMMA OthersRemain ==
  ASSUME NEW s \in Seq(Answer), NEW i \in DOMAIN s, NEW k \in DOMAIN s, k # i
  PROVE  \E j \in DOMAIN RemoveAt(s, i) : RemoveAt(s, i)[j] = s[k]
<1> DEFINE t == RemoveAt(s, i)
<1>1. i \in 1..Len(s) /\ k \in 1..Len(s) /\ Len(s) \in Nat
  OBVIOUS
<1>2. /\ t \in Seq(Answer) /\ Len(t) = Len(s) - 1
      /\ \A j \in 1..(Len(s) - 1) : t[j] = IF j < i THEN s[j] ELSE s[j + 1]
  BY <1>1, RemoveAtProperties
<1> HIDE DEF t
<1>3. DOMAIN t = 1..(Len(s) - 1)
  BY <1>2
<1>4. CASE k < i
  <2>1. k \in 1..(Len(s) - 1) /\ t[k] = s[k]
    BY <1>1, <1>2, <1>4
  <2> QED BY <1>3, <2>1 DEF t
<1>5. CASE k > i
  <2>1. k - 1 \in 1..(Len(s) - 1) /\ ~(k - 1 < i) /\ (k - 1) + 1 = k
    BY <1>1, <1>5
  <2>2. t[k - 1] = s[k]
    BY <1>2, <2>1
  <2> QED BY <1>3, <2>1, <2>2 DEF t
<1> QED BY <1>1, <1>4, <1>5

(* An answer that has the title of p is on its way, or p is collected.     *)
Coming(p) == p \in ToSet(collected) \/ \E i \in DOMAIN answers : p \in answers[i].titled

(* No step loses such a product.                                           *)
LEMMA ServedNext ==
  ASSUME Inv, [Next]_vars, NEW p \in Product, Coming(p)
  PROVE  Coming(p)'
<1>0. answers \in Seq(Answer) /\ collected \in Seq(Product)
  BY DEF Inv, TypeOK
<1>1. CASE UNCHANGED <<answers, collected>>
  BY <1>1 DEF Coming
<1>2. ASSUME NEW titled \in SUBSET Product, TickServed(titled)
      PROVE  Coming(p)'
  <2>1. answers' = Append(answers, Served(titled)) /\ collected' = collected
    BY <1>2 DEF TickServed
  <2>2. \A i \in DOMAIN answers : i \in DOMAIN answers' /\ answers'[i] = answers[i]
    BY <1>0, <2>1
  <2> QED BY <2>1, <2>2 DEF Coming
<1>3. ASSUME NEW i \in DOMAIN answers, Arrives(i)
      PROVE  Coming(p)'
  <2> DEFINE new == answers[i].titled \ ToSet(collected)
  <2>1. answers' = RemoveAt(answers, i)
    BY <1>3 DEF Arrives
  <2>2. PICK s \in SetToSeqs(new) : collected' = collected \o s
    BY <1>3 DEF Arrives
  <2>3. new \subseteq Product
    <3>1. answers[i] \in Answer
      BY <1>0
    <3> QED BY <3>1 DEF Answer
  <2>4. ToSet(collected) \cup new \subseteq ToSet(collected')
    <3> HIDE DEF new
    <3> QED BY <1>0, <2>2, <2>3, CollectedAll
  <2>5. CASE p \in ToSet(collected) \/ p \in answers[i].titled
    BY <2>4, <2>5 DEF Coming
  <2>6. ASSUME NEW k \in DOMAIN answers, k # i, p \in answers[k].titled
        PROVE  Coming(p)'
    <3>1. PICK j \in DOMAIN answers' : answers'[j] = answers[k]
      BY <1>0, <2>1, <2>6, OthersRemain
    <3> QED BY <2>6, <3>1 DEF Coming
  <2> QED BY <2>5, <2>6 DEF Coming
<1>4. ServerEdits \/ TickFails \/ UNCHANGED vars => UNCHANGED <<answers, collected>>
  BY DEF ServerEdits, TickFails, vars
<1> QED BY <1>1, <1>2, <1>3, <1>4 DEF Next

(* No answer is lost on the way and no product dropped: once the server    *)
(* has served a product with its title, the call will have it, whatever    *)
(* answers come before or after and whatever else the server lists.        *)
ServedStaysComing == [][\A p \in Product : Coming(p) => Coming(p)']_vars

(* A product that was once served with its title stays on its way or       *)
(* collected (the handler of API.getAllTaxiServices).                      *)
THEOREM NothingServedIsLost == Spec => ServedStaysComing
<1>1. Inv /\ [Next]_vars => [\A p \in Product : Coming(p) => Coming(p)']_vars
  BY ServedNext
<1> QED BY <1>1, Invariance, PTL DEF Spec, ServedStaysComing

(* A tick that finds every listed product collected stops the timer.       *)
LEMMA FullListNext ==
  ASSUME Inv, edits = 0, timer, counter # None, listing \subseteq ToSet(collected), Ticks
  PROVE  delivered' = <<collected>> /\ ~timer'
<1>1. collected \in Seq(Product) /\ IsInjective(collected) /\ delivered = <<>> /\ listing \subseteq Product
  BY DEF Inv, TypeOK, Once
<1>2. ToSet(collected) = listing /\ counter = Cardinality(listing)
  BY DEF Inv, Kept
<1>3. Len(collected) = Cardinality(ToSet(collected))
  <2>1. /\ IsFiniteSet(ToSet(collected)) /\ Len(collected) \in Nat
        /\ collected \in [1..Len(collected) -> ToSet(collected)]
    BY <1>1, <1>2, ProductCount DEF ToSet
  <2>2. collected \in Surjection(1..Len(collected), ToSet(collected)) /\ collected \in Injection(1..Len(collected), ToSet(collected))
    BY <1>1, <2>1 DEF Surjection, Injection, ToSet, IsInjective
  <2>3. Cardinality(1..Len(collected)) = Len(collected) /\ IsFiniteSet(1..Len(collected))
    BY <2>1, FS_Interval
  <2>4. Cardinality(1..Len(collected)) = Cardinality(ToSet(collected))
    <3>1. Cardinality(1..Len(collected)) <= Cardinality(ToSet(collected))
      BY <2>1, <2>2, FS_Injection
    <3>2. Cardinality(ToSet(collected)) <= Cardinality(1..Len(collected))
      BY <2>2, <2>3, FS_Surjection
    <3>3. Cardinality(ToSet(collected)) \in Nat /\ Cardinality(1..Len(collected)) \in Nat
      BY <2>1, <2>3, FS_CardinalityType
    <3> QED BY <3>1, <3>2, <3>3
  <2> QED BY <2>3, <2>4
<1>4. stopIfFull
  BY DEF Ticks, TickFails, TickServed
<1>5. timer' = FALSE /\ delivered' = Append(delivered, collected)
  BY <1>2, <1>3, <1>4 DEF stopIfFull
<1> QED BY <1>1, <1>5

(* What bug_full_list refutes holds while the server keeps its list: the   *)
(* first tick after every listed product is collected hands the list over  *)
(* ("if allTaxiServices is full, stop timer and return"), whichever answer *)
(* was the last to set the count.                                          *)
FullListGoesOut ==
  [][edits = 0 /\ timer /\ counter # None /\ listing \subseteq ToSet(collected) /\ Ticks =>
       delivered' = <<collected>> /\ ~timer']_vars

(* The safety of Delivers: with the fairness of ticks and titles, a list   *)
(* that the server keeps is handed over (API.getAllTaxiServices).          *)
THEOREM FullListIsHandedOver == Spec => FullListGoesOut
<1>1. Inv /\ [Next]_vars =>
        [edits = 0 /\ timer /\ counter # None /\ listing \subseteq ToSet(collected) /\ Ticks =>
           delivered' = <<collected>> /\ ~timer']_vars
  BY FullListNext
<1> QED BY <1>1, Invariance, PTL DEF Spec, FullListGoesOut

-----------------------------------------------------------------------------
(* The sort.  A list that is not empty has a first of its highest prices,  *)
(* and that is where the code looks for it.                                *)
LEMMA findMaxVlueProperties ==
  ASSUME NEW list \in Seq(Product), list # <<>>
  PROVE  /\ findMaxVlue(list) \in 1..Len(list)
         /\ \A j \in 1..Len(list) : startingPrice[list[j]] <= startingPrice[list[findMaxVlue(list)]]
<1> DEFINE N == Len(list)
           price(i) == startingPrice[list[i]]
           Highest(i, n) == \A j \in 1..n : price(j) <= price(i)
           T == {n \in 0..N : n > 0 => \E i \in 1..n : Highest(i, n)}
<1>1. N \in Nat \ {0} /\ DOMAIN list = 1..N /\ \A i \in 1..N : price(i) \in Nat
  BY PriceAssumption
<1> HIDE DEF N, price
<1>2. 0 \in T
  BY <1>1
<1>3. ASSUME NEW n \in 1..N, n - 1 \in T PROVE n \in T
  <2>1. CASE n = 1
    <3>1. Highest(1, 1)
      BY <1>1
    <3> QED BY <1>1, <2>1, <3>1
  <2>2. CASE n # 1
    <3>1. PICK i \in 1..(n - 1) : Highest(i, n - 1)
      BY <1>1, <1>3, <2>2
    <3>2. i \in 1..N /\ price(i) \in Nat /\ price(n) \in Nat
      BY <1>1
    <3>3. CASE price(n) <= price(i)
      <4>1. Highest(i, n)
        <5> SUFFICES ASSUME NEW j \in 1..n PROVE price(j) <= price(i)
          OBVIOUS
        <5>1. j = n \/ j \in 1..(n - 1)
          BY <1>1
        <5> QED BY <3>1, <3>3, <5>1
      <4>2. i \in 1..n
        OBVIOUS
      <4> HIDE DEF Highest
      <4> QED BY <4>1, <4>2
    <3>4. CASE ~(price(n) <= price(i))
      <4>1. Highest(n, n)
        <5> SUFFICES ASSUME NEW j \in 1..n PROVE price(j) <= price(n)
          OBVIOUS
        <5>1. j = n \/ (j \in 1..(n - 1) /\ price(j) <= price(i))
          BY <1>1, <3>1
        <5>2. price(j) \in Nat
          BY <1>1
        <5> QED BY <3>2, <3>4, <5>1, <5>2
      <4>2. n \in 1..n
        OBVIOUS
      <4> HIDE DEF Highest
      <4> QED BY <4>1, <4>2
    <3> QED BY <3>3, <3>4
  <2> QED BY <2>1, <2>2
<1>4. N \in T
  <2> HIDE DEF T
  <2>1. \A n \in 0..N : n \in T
    BY <1>1, <1>2, <1>3, UpToInduction
  <2> QED BY <1>1, <2>1
<1> DEFINE M == {i \in 1..N : Highest(i, N)}
<1>5. PICK i \in M : \A m \in M : i <= m
  <2>1. M \subseteq Nat /\ M # {}
    BY <1>1, <1>4
  <2> HIDE DEF M
  <2> QED BY <2>1, LeastElement
<1>6. ASSUME NEW j \in 1..(i - 1) PROVE price(j) < price(i)
  <2>1. j \in 1..N /\ i \in 1..N /\ j \notin M
    BY <1>1, <1>5
  <2>2. PICK k \in 1..N : ~(price(k) <= price(j))
    BY <2>1
  <2>3. price(k) <= price(i)
    BY <1>5, <2>2
  <2>4. price(i) \in Nat /\ price(j) \in Nat /\ price(k) \in Nat
    BY <1>1, <2>1
  <2> QED BY <2>2, <2>3, <2>4
<1> DEFINE First(x) == /\ \A j \in DOMAIN list : price(j) <= price(x)
                       /\ \A j \in 1..(x - 1) : price(j) < price(x)
<1>7. i \in DOMAIN list /\ First(i)
  BY <1>1, <1>5, <1>6
<1>8. findMaxVlue(list) = CHOOSE x \in DOMAIN list : First(x)
  BY DEF findMaxVlue, price
<1>9. findMaxVlue(list) \in DOMAIN list /\ First(findMaxVlue(list))
  <2> HIDE DEF First
  <2> QED BY <1>7, <1>8, Zenon
<1> QED BY <1>1, <1>9 DEF N, price

(* What is sorted and what is left, and one turn of the loop.              *)
State == [sorted : Seq(Product), rest : Seq(Product)]

taken(v) ==
  [sorted |-> Append(v.sorted, v.rest[findMaxVlue(v.rest)]),
   rest |-> RemoveAt(v.rest, findMaxVlue(v.rest))]

(* Between two turns nothing is lost or doubled, what is sorted is sorted, *)
(* and no price that is left is above it.                                  *)
Descending(list) ==
  \A i, j \in 1..Len(list) : i < j => startingPrice[list[i]] >= startingPrice[list[j]]

Sorting(v, list, n) ==
  /\ v \in State
  /\ Len(v.sorted) = n /\ Len(v.rest) = Len(list) - n
  /\ IsInjective(v.sorted) /\ IsInjective(v.rest)
  /\ ToSet(v.sorted) \cap ToSet(v.rest) = {}
  /\ ToSet(v.sorted) \cup ToSet(v.rest) = ToSet(list)
  /\ Descending(v.sorted)
  /\ \A p \in ToSet(v.sorted), q \in ToSet(v.rest) : startingPrice[p] >= startingPrice[q]

(* One more element at the end of a sequence.                              *)
LEMMA Appended ==
  ASSUME NEW s \in Seq(Product), NEW x \in Product
  PROVE  /\ Append(s, x) \in Seq(Product) /\ Len(Append(s, x)) = Len(s) + 1
         /\ \A i \in 1..Len(s) : Append(s, x)[i] = s[i] /\ s[i] \in ToSet(s)
         /\ Append(s, x)[Len(s) + 1] = x
         /\ ToSet(Append(s, x)) = ToSet(s) \cup {x}
<1> DEFINE t == Append(s, x)
<1>1. /\ t \in Seq(Product) /\ Len(t) = Len(s) + 1 /\ t[Len(s) + 1] = x
      /\ \A i \in 1..Len(s) : t[i] = s[i]
  BY AppendProperties
<1>2. Len(s) \in Nat /\ DOMAIN s = 1..Len(s)
  OBVIOUS
<1> HIDE DEF t
<1>3. DOMAIN t = 1..(Len(s) + 1)
  BY <1>1
<1>4. \A i \in 1..(Len(s) + 1) : i \in 1..Len(s) \/ i = Len(s) + 1
  BY <1>2
<1>5. 1..Len(s) \subseteq 1..(Len(s) + 1) /\ Len(s) + 1 \in 1..(Len(s) + 1)
  BY <1>2
<1>6. ToSet(t) = ToSet(s) \cup {x}
  <2>1. ToSet(t) \subseteq ToSet(s) \cup {x}
    BY <1>1, <1>2, <1>3, <1>4 DEF ToSet
  <2>2. ToSet(s) \subseteq ToSet(t) /\ x \in ToSet(t)
    BY <1>1, <1>2, <1>3, <1>5 DEF ToSet
  <2> QED BY <2>1, <2>2
<1> QED BY <1>1, <1>2, <1>6 DEF t, ToSet

(* What is left after removing is everything but what was removed.         *)
LEMMA RemovedIsTheRest ==
  ASSUME NEW s \in Seq(Product), NEW i \in 1..Len(s), IsInjective(s)
  PROVE  /\ RemoveAt(s, i) \in Seq(Product) /\ Len(RemoveAt(s, i)) = Len(s) - 1
         /\ IsInjective(RemoveAt(s, i))
         /\ ToSet(RemoveAt(s, i)) = ToSet(s) \ {s[i]}
<1> DEFINE t == RemoveAt(s, i)
<1>1. /\ t \in Seq(Product) /\ Len(t) = Len(s) - 1
      /\ \A j \in 1..(Len(s) - 1) : t[j] = IF j < i THEN s[j] ELSE s[j + 1]
  BY RemoveAtProperties
<1>2. IsInjective(t)
  BY RemoveAtInjective
<1> HIDE DEF t
<1>3. Len(s) \in Nat /\ DOMAIN s = 1..Len(s) /\ DOMAIN t = 1..(Len(s) - 1)
  BY <1>1
<1>4. \A j, k \in 1..Len(s) : s[j] = s[k] => j = k
  BY <1>3 DEF IsInjective
<1>5. ASSUME NEW j \in 1..(Len(s) - 1) PROVE t[j] \in ToSet(s) \ {s[i]}
  <2>1. PICK k \in 1..Len(s) : t[j] = s[k] /\ k # i
    <3>1. CASE j < i
      BY <1>1, <1>3, <3>1
    <3>2. CASE ~(j < i)
      BY <1>1, <1>3, <3>2
    <3> QED BY <3>1, <3>2
  <2> QED BY <1>3, <1>4, <2>1 DEF ToSet
<1>6. ASSUME NEW k \in 1..Len(s), s[k] # s[i] PROVE s[k] \in ToSet(t)
  <2>1. k # i
    BY <1>6
  <2>2. PICK j \in 1..(Len(s) - 1) : t[j] = s[k]
    <3>1. CASE k < i
      <4>1. k \in 1..(Len(s) - 1)
        BY <1>3, <3>1
      <4> QED BY <1>1, <3>1, <4>1
    <3>2. CASE ~(k < i)
      <4>1. k - 1 \in 1..(Len(s) - 1) /\ ~(k - 1 < i) /\ (k - 1) + 1 = k
        BY <1>3, <2>1, <3>2
      <4> QED BY <1>1, <4>1
    <3> QED BY <3>1, <3>2
  <2> QED BY <1>3, <2>2 DEF ToSet
<1>7. ToSet(t) = ToSet(s) \ {s[i]}
  <2>1. ToSet(t) \subseteq ToSet(s) \ {s[i]}
    BY <1>3, <1>5 DEF ToSet
  <2>2. ToSet(s) \ {s[i]} \subseteq ToSet(t)
    BY <1>3, <1>6 DEF ToSet
  <2> QED BY <2>1, <2>2
<1> QED BY <1>1, <1>2, <1>7 DEF t

LEMMA takenSorting ==
  ASSUME NEW list \in Seq(Product), NEW n \in 1..Len(list), NEW v, Sorting(v, list, n - 1)
  PROVE  Sorting(taken(v), list, n)
<1> DEFINE s == v.sorted
           r == v.rest
           i == findMaxVlue(r)
           x == r[i]
           s2 == Append(s, x)
           r2 == RemoveAt(r, i)
<1>1. /\ s \in Seq(Product) /\ r \in Seq(Product)
      /\ Len(s) = n - 1 /\ Len(r) = Len(list) - (n - 1)
      /\ IsInjective(s) /\ IsInjective(r)
      /\ ToSet(s) \cap ToSet(r) = {} /\ ToSet(s) \cup ToSet(r) = ToSet(list)
      /\ Descending(s)
      /\ \A p \in ToSet(s), q \in ToSet(r) : startingPrice[p] >= startingPrice[q]
  BY DEF Sorting, State
<1>2. taken(v) = [sorted |-> s2, rest |-> r2]
  BY DEF taken
<1> HIDE DEF s, r
<1>3. r # <<>> /\ Len(list) \in Nat /\ DOMAIN r = 1..Len(r)
  BY <1>1
<1>4. i \in 1..Len(r) /\ \A j \in 1..Len(r) : startingPrice[r[j]] <= startingPrice[x]
  BY <1>1, <1>3, findMaxVlueProperties
<1> HIDE DEF i
<1>5. x \in Product /\ x \in ToSet(r)
  <2>1. r \in Seq(Product) /\ i \in 1..Len(r)
    BY <1>1, <1>4
  <2>2. r[i] \in Product
    BY <2>1
  <2>3. i \in DOMAIN r
    BY <1>3, <2>1
  <2> QED BY <2>2, <2>3 DEF ToSet
<1>6. \A q \in ToSet(r) : startingPrice[q] <= startingPrice[x]
  BY <1>3, <1>4 DEF ToSet
<1>7. /\ r2 \in Seq(Product) /\ Len(r2) = Len(r) - 1 /\ IsInjective(r2) /\ ToSet(r2) = ToSet(r) \ {x}
  BY <1>1, <1>4, RemovedIsTheRest
<1> HIDE DEF x
<1>8. /\ s2 \in Seq(Product) /\ Len(s2) = Len(s) + 1
      /\ \A j \in 1..Len(s) : s2[j] = s[j] /\ s[j] \in ToSet(s)
      /\ s2[Len(s) + 1] = x
      /\ ToSet(s2) = ToSet(s) \cup {x}
  BY <1>1, <1>5, Appended
<1> HIDE DEF s2, r2
<1>9. \A p \in Product : startingPrice[p] \in Nat
  BY PriceAssumption
<1>10. ToSet(s) \subseteq Product /\ ToSet(r) \subseteq Product
  BY <1>1 DEF ToSet
<1>11. \A k \in 1..n : k \in 1..Len(s) \/ k = Len(s) + 1
  BY <1>1
<1>12. IsInjective(s2)
  <2>1. \A j, k \in 1..Len(s) : s[j] = s[k] => j = k
    BY <1>1 DEF IsInjective
  <2>2. x \notin ToSet(s)
    BY <1>1, <1>5
  <2>3. ASSUME NEW j \in 1..n, NEW k \in 1..n, s2[j] = s2[k] PROVE j = k
    <3>1. CASE j \in 1..Len(s) /\ k \in 1..Len(s)
      BY <1>8, <2>1, <2>3, <3>1
    <3>2. CASE j = Len(s) + 1 /\ k \in 1..Len(s)
      BY <1>8, <2>2, <2>3, <3>2
    <3>3. CASE k = Len(s) + 1 /\ j \in 1..Len(s)
      BY <1>8, <2>2, <2>3, <3>3
    <3> QED BY <1>11, <3>1, <3>2, <3>3
  <2>4. DOMAIN s2 = 1..n
    BY <1>1, <1>8
  <2> QED BY <2>3, <2>4 DEF IsInjective
<1>13. Descending(s2)
  <2> SUFFICES ASSUME NEW j \in 1..n, NEW k \in 1..n, j < k
               PROVE  startingPrice[s2[j]] >= startingPrice[s2[k]]
    BY <1>1, <1>8 DEF Descending
  <2>1. j \in 1..Len(s) /\ s2[j] = s[j] /\ s[j] \in ToSet(s)
    BY <1>1, <1>8
  <2>2. CASE k \in 1..Len(s)
    BY <1>1, <1>8, <2>1, <2>2 DEF Descending
  <2>3. CASE k = Len(s) + 1
    BY <1>1, <1>5, <1>8, <2>1, <2>3
  <2> QED BY <1>11, <2>2, <2>3
<1>14. ASSUME NEW p \in ToSet(s2), NEW q \in ToSet(r2) PROVE startingPrice[p] >= startingPrice[q]
  <2>1. q \in ToSet(r)
    BY <1>7
  <2>2. p \in ToSet(s) \/ p = x
    BY <1>8
  <2>3. CASE p \in ToSet(s)
    BY <1>1, <2>1, <2>3
  <2>4. CASE p = x
    BY <1>5, <1>6, <1>9, <1>10, <2>1, <2>4
  <2> QED BY <2>2, <2>3, <2>4
<1>15. ToSet(s2) \cap ToSet(r2) = {} /\ ToSet(s2) \cup ToSet(r2) = ToSet(list)
  BY <1>1, <1>5, <1>7, <1>8
<1>16. Len(s2) = n /\ Len(r2) = Len(list) - n
  BY <1>1, <1>3, <1>7, <1>8
<1>17. [sorted |-> s2, rest |-> r2] \in State
  BY <1>7, <1>8 DEF State
<1> QED BY <1>2, <1>7, <1>12, <1>13, <1>14, <1>15, <1>16, <1>17 DEF Sorting

(* The loop of the sort is that turn, as often as there are products.      *)
LEMMA sortByExpensiveRecursion ==
  ASSUME NEW list \in Seq(Product), IsInjective(list)
  PROVE  \E v : Sorting(v, list, Len(list)) /\ sortByExpensive(list) = v.sorted
<1> DEFINE N == Len(list)
           start == [sorted |-> <<>>, rest |-> list]
           next(v) == IF v.rest = <<>> THEN v ELSE taken(v)
           step == [n \in 1..N |-> [v \in State |-> IF taken(v) \in State THEN taken(v) ELSE v]]
           Body(F, n) == IF n = 0 THEN start ELSE taken(F[n - 1])
           Is(F) == F = [n \in 0..N |-> Body(F, n)]
<1>1. N \in Nat /\ start \in State
  BY DEF State
<1>2. step \in [1..N -> [State -> State]]
  OBVIOUS
<1>3. PICK f : FollowsFrom(f, N, State, start, step)
  <2> HIDE DEF step, N, start
  <2> QED BY <1>1, <1>2, UpToRecursion
<1> USE <1>3 DEF FollowsFrom
<1>4. ASSUME NEW n \in 1..N
      PROVE  f[n - 1] \in State /\ f[n] = IF taken(f[n - 1]) \in State THEN taken(f[n - 1]) ELSE f[n - 1]
  <2>1. n - 1 \in 0..N
    BY <1>1
  <2> QED BY <1>3, <2>1
<1> HIDE DEF step
<1> DEFINE T == {n \in 0..N : Sorting(f[n], list, n)}
<1>5. 0 \in T
  <2>1. f[0] = start
    BY <1>3
  <2>2. Sorting(start, list, 0)
    BY <1>1 DEF Sorting, State, IsInjective, Descending, ToSet
  <2> QED BY <1>1, <2>1, <2>2
<1>6. ASSUME NEW n \in 1..N, n - 1 \in T PROVE n \in T /\ f[n] = taken(f[n - 1])
  <2>1. Sorting(taken(f[n - 1]), list, n)
    BY <1>6, takenSorting
  <2>2. taken(f[n - 1]) \in State
    BY <2>1 DEF Sorting
  <2>3. f[n] = taken(f[n - 1])
    BY <1>4, <2>2
  <2> QED BY <2>1, <2>3
<1>7. \A n \in 0..N : n \in T
  <2> HIDE DEF N, T
  <2> QED BY <1>1, <1>5, <1>6, UpToInduction
<1>8. Is(f)
  <2>1. ASSUME NEW n \in 0..N PROVE f[n] = Body(f, n)
    <3>1. CASE n = 0
      BY <1>3, <3>1
    <3>2. CASE n # 0
      <4>1. n \in 1..N /\ n - 1 \in 0..N
        BY <1>1, <3>2
      <4>2. f[n] = taken(f[n - 1])
        <5> HIDE DEF T
        <5> QED BY <1>6, <1>7, <4>1
      <4> QED BY <3>2, <4>2
    <3> QED BY <3>1, <3>2
  <2> HIDE DEF Body
  <2> QED BY <1>3, <2>1
<1> DEFINE K == CHOOSE F : Is(F)
<1>9. Is(K)
  <2> HIDE DEF Is
  <2> QED BY <1>8, Zenon
<1>10. sortByExpensive(list) = K[N].sorted
  BY DEF sortByExpensive, taken
<1> HIDE DEF K
<1> DEFINE U == {n \in 0..N : K[n] = f[n]}
<1>11. 0 \in U
  BY <1>1, <1>3, <1>9
<1>12. ASSUME NEW n \in 1..N, n - 1 \in U PROVE n \in U
  <2>1. n \in 0..N /\ n # 0 /\ n - 1 \in 0..N
    BY <1>1
  <2>2. K[n] = Body(K, n)
    <3> HIDE DEF Body
    <3> QED BY <1>9, <2>1
  <2>3. f[n] = Body(f, n)
    <3> HIDE DEF Body
    <3> QED BY <1>8, <2>1
  <2>4. K[n - 1] = f[n - 1]
    BY <1>12
  <2>5. K[n] = f[n]
    BY <2>1, <2>2, <2>3, <2>4
  <2> QED BY <2>1, <2>5
<1> HIDE DEF U, N
<1>13. N \in 0..N /\ \A n \in 0..N : n \in U
  <2>1. \A n \in 0..N : n \in U
    BY <1>1, <1>11, <1>12, UpToInduction
  <2> QED BY <1>1, <2>1
<1>14. K[N] = f[N] /\ Sorting(f[N], list, N)
  BY <1>7, <1>13 DEF U
<1> QED BY <1>10, <1>14 DEF N

(* The sort gives back the same products, dearest first.                   *)
SameList(list, other) == list \in Seq(Product) /\ IsInjective(list) /\ ToSet(list) = ToSet(other)

LEMMA sortByExpensiveProperties ==
  ASSUME NEW list \in Seq(Product), IsInjective(list)
  PROVE  /\ SameList(sortByExpensive(list), list)
         /\ Descending(sortByExpensive(list))
<1>1. PICK v : Sorting(v, list, Len(list)) /\ sortByExpensive(list) = v.sorted
  BY sortByExpensiveRecursion
<1>2. v.sorted \in Seq(Product) /\ v.rest \in Seq(Product) /\ Len(v.rest) = 0
  BY <1>1 DEF Sorting, State
<1>3. ToSet(v.rest) = {}
  BY <1>2 DEF ToSet
<1> QED BY <1>1, <1>2, <1>3 DEF Sorting, SameList

LEMMA ReverseProperties ==
  ASSUME NEW list \in Seq(Product), IsInjective(list)
  PROVE  /\ SameList(Reverse(list), list)
         /\ Len(Reverse(list)) = Len(list)
         /\ \A i \in 1..Len(list) : Reverse(list)[i] = list[Len(list) - i + 1]
<1> DEFINE N == Len(list)
           t == Reverse(list)
<1>1. N \in Nat /\ DOMAIN list = 1..N /\ \A i \in 1..N : list[i] \in Product /\ N - i + 1 \in 1..N
  OBVIOUS
<1>2. t = [i \in 1..N |-> list[N - i + 1]]
  BY DEF Reverse
<1> HIDE DEF t
<1>3. t \in [1..N -> Product]
  BY <1>1, <1>2
<1>4. t \in Seq(Product) /\ Len(t) = N /\ DOMAIN t = 1..N
  BY <1>1, <1>3
<1>5. \A i \in 1..N : t[i] = list[N - i + 1]
  BY <1>2
<1>6. IsInjective(t)
  <2>1. \A j, k \in 1..N : list[j] = list[k] => j = k
    BY <1>1 DEF IsInjective
  <2>2. ASSUME NEW j \in 1..N, NEW k \in 1..N, t[j] = t[k] PROVE j = k
    <3>1. N - j + 1 = N - k + 1
      BY <1>1, <1>5, <2>1, <2>2
    <3> QED BY <1>1, <3>1
  <2> QED BY <1>4, <2>2 DEF IsInjective
<1>7. ToSet(t) = ToSet(list)
  <2>1. \A i \in 1..N : t[i] \in ToSet(list)
    BY <1>1, <1>5 DEF ToSet
  <2>2. \A i \in 1..N : list[i] \in ToSet(t)
    <3> SUFFICES ASSUME NEW i \in 1..N PROVE list[i] \in ToSet(t)
      OBVIOUS
    <3>1. N - i + 1 \in 1..N /\ N - (N - i + 1) + 1 = i
      BY <1>1
    <3>2. t[N - i + 1] = list[i]
      BY <1>5, <3>1
    <3> QED BY <1>4, <3>1, <3>2 DEF ToSet
  <2> QED BY <1>1, <1>4, <2>1, <2>2 DEF ToSet
<1> QED BY <1>4, <1>5, <1>6, <1>7 DEF t, SameList

-----------------------------------------------------------------------------
(* The tab.  Before the list comes there is nothing in it; afterwards its  *)
(* three lists and the table hold that list, each in its order, until the  *)
(* program traps, which ends it.                                           *)
TabKept ==
  /\ alive \in BOOLEAN
  /\ delivered = <<>> => \A list \in {taxiServices, recommendedCars, cheaperCars, expensiveCars} : list = <<>>
  /\ \A list \in {taxiServices, recommendedCars, cheaperCars, expensiveCars} : list \in Seq(Product)
  /\ MenusAreTheList
  /\ SortedByPrice

TabInv == Inv /\ TabKept

LEMMA TabInvInit == TabInit => TabInv
<1> SUFFICES ASSUME TabInit PROVE TabInv
  OBVIOUS
<1>1. Inv
  BY InvInit DEF TabInit
<1>2. alive \in BOOLEAN
  BY Zenon DEF TabInit
<1>3. \A list \in {taxiServices, recommendedCars, cheaperCars, expensiveCars} : list = <<>> /\ list \in Seq(Product)
  <2>1. <<>> \in Seq(Product)
    OBVIOUS
  <2> QED BY <2>1, Zenon DEF TabInit
<1>4. MenusAreTheList
  BY DEF TabInit, Init, MenusAreTheList
<1>5. SortedByPrice
  BY DEF TabInit, SortedByPrice
<1> QED BY <1>1, <1>2, <1>3, <1>4, <1>5, Zenon DEF TabInv, TabKept

(* A step of the poller hands over nothing, or its one list.               *)
LEMMA HandsOver ==
  ASSUME Inv, [Next]_vars, delivered' # delivered
  PROVE  /\ delivered = <<>> /\ delivered' = <<Last(delivered')>>
         /\ Last(delivered') \in Seq(Product) /\ IsInjective(Last(delivered'))
<1>1. timer /\ stopIfFull
  BY DEF Next, ServerEdits, TickServed, TickFails, Arrives, vars
<1>2. delivered = <<>> /\ collected \in Seq(Product) /\ IsInjective(collected)
  BY <1>1 DEF Inv, Once, TypeOK
<1>3. delivered' = <<collected>>
  <2>1. delivered' = Append(<<>>, collected)
    BY <1>1, <1>2 DEF stopIfFull
  <2> QED BY <1>2, <2>1
<1>4. Last(delivered') = collected
  BY <1>3 DEF Last
<1> QED BY <1>2, <1>3, <1>4

LEMMA ListComesNext ==
  ASSUME TabKept, delivered = <<>>, NEW list \in Seq(Product), IsInjective(list), delivered' = <<list>>,
         ListComes(list)
  PROVE  TabKept'
<1>1. taxiServices = <<>> /\ recommendedCars = <<>> /\ cheaperCars = <<>> /\ expensiveCars = <<>>
  BY DEF TabKept
<1>2. CASE list = <<>>
  <2>1. ~alive' /\ alive' = FALSE
    BY <1>2 DEF ListComes
  <2>2. taxiServices' = <<>> /\ recommendedCars' = <<>> /\ cheaperCars' = <<>> /\ expensiveCars' = <<>>
    BY <1>1, <1>2 DEF ListComes, menus
  <2>3. \A l \in {taxiServices', recommendedCars', cheaperCars', expensiveCars'} : l = <<>> /\ l \in Seq(Product)
    <3>1. <<>> \in Seq(Product)
      OBVIOUS
    <3> QED BY <2>2, <3>1, Zenon
  <2>4. MenusAreTheList'
    BY <2>1 DEF MenusAreTheList
  <2>5. SortedByPrice'
    BY <2>2 DEF SortedByPrice
  <2>6. alive' \in BOOLEAN
    BY <2>1, Zenon
  <2> QED BY <2>3, <2>4, <2>5, <2>6, Zenon DEF TabKept
<1>3. CASE list # <<>>
  <2> DEFINE s == sortByExpensive(list)
             r == Reverse(s)
  <2>1. SameList(s, list) /\ Descending(s)
    BY sortByExpensiveProperties
  <2>2. expensiveCars' = <<>> \o s /\ cheaperCars' = <<>> \o r /\ recommendedCars' = list /\ taxiServices' = list
    BY <1>1, <1>3 DEF ListComes
  <2>3. alive' \in BOOLEAN
    BY <1>3, Zenon DEF ListComes, TabKept
  <2> HIDE DEF s
  <2>4. s \in Seq(Product) /\ IsInjective(s) /\ ToSet(s) = ToSet(list)
    BY <2>1 DEF SameList
  <2>5. /\ SameList(r, s) /\ Len(r) = Len(s)
        /\ \A i \in 1..Len(s) : r[i] = s[Len(s) - i + 1]
    BY <2>4, ReverseProperties
  <2> HIDE DEF r
  <2>6. r \in Seq(Product) /\ IsInjective(r) /\ ToSet(r) = ToSet(list)
    BY <2>4, <2>5 DEF SameList
  <2>7. expensiveCars' = s /\ cheaperCars' = r
    BY <2>2, <2>4, <2>6, ConcatEmptySeq
  <2>8. delivered'[1] = list
    OBVIOUS
  <2>9. \A l \in {taxiServices', recommendedCars', cheaperCars', expensiveCars'} :
          l \in Seq(Product) /\ IsInjective(l) /\ ToSet(l) = ToSet(delivered'[1])
    BY <2>2, <2>4, <2>6, <2>7, <2>8
  <2>10. MenusAreTheList'
    BY <2>9 DEF MenusAreTheList
  <2>11. SortedByPrice'
    <3> SUFFICES ASSUME NEW i \in DOMAIN s, NEW j \in DOMAIN s, i < j
                 PROVE  /\ startingPrice[s[i]] >= startingPrice[s[j]]
                        /\ startingPrice[r[i]] <= startingPrice[r[j]]
      BY <2>7 DEF SortedByPrice
    <3>1. i \in 1..Len(s) /\ j \in 1..Len(s) /\ Len(s) \in Nat
      BY <2>4
    <3> DEFINE k == Len(s) - j + 1
               l == Len(s) - i + 1
    <3>2. k \in 1..Len(s) /\ l \in 1..Len(s) /\ k < l
      BY <3>1
    <3>3. r[j] = s[k] /\ r[i] = s[l]
      BY <2>5, <3>1
    <3> HIDE DEF k, l
    <3>4. startingPrice[s[k]] >= startingPrice[s[l]] /\ startingPrice[s[i]] >= startingPrice[s[j]]
      BY <2>1, <3>1, <3>2 DEF Descending
    <3>5. startingPrice[s[k]] \in Nat /\ startingPrice[s[l]] \in Nat
      BY <2>4, <3>2, PriceAssumption
    <3> QED BY <3>3, <3>4, <3>5
  <2>12. delivered' # <<>>
    OBVIOUS
  <2> QED BY <2>3, <2>9, <2>10, <2>11, <2>12, Zenon DEF TabKept
<1> QED BY <1>2, <1>3

LEMMA PolledNext ==
  ASSUME TabInv, Polled(Next)
  PROVE  TabInv'
<1>1. Inv'
  BY InvNext DEF TabInv, Polled
<1>2. TabKept'
  <2>1. CASE delivered' = delivered
    BY <2>1 DEF TabInv, TabKept, Polled, tabVars, menus, MenusAreTheList, SortedByPrice
  <2>2. CASE delivered' # delivered
    <3>1. /\ delivered = <<>> /\ delivered' = <<Last(delivered')>>
          /\ Last(delivered') \in Seq(Product) /\ IsInjective(Last(delivered'))
      BY <2>2, HandsOver DEF TabInv, Polled
    <3>2. ListComes(Last(delivered'))
      BY <2>2 DEF Polled
    <3> QED BY <3>1, <3>2, ListComesNext DEF TabInv
  <2> QED BY <2>1, <2>2
<1> QED BY <1>1, <1>2 DEF TabInv

LEMMA MenuPressedNext ==
  ASSUME TabInv, NEW list \in {recommendedCars, cheaperCars, expensiveCars}, MenuPressed(list)
  PROVE  TabInv'
<1>1. UNCHANGED vars /\ delivered # <<>> /\ taxiServices' = list /\ UNCHANGED menus
  BY DEF MenuPressed
<1>2. Inv'
  BY <1>1, InvNext DEF TabInv
<1>3. alive' \in BOOLEAN
  BY Zenon DEF MenuPressed, TabInv, TabKept
<1>4. delivered' = delivered /\ recommendedCars' = recommendedCars /\ cheaperCars' = cheaperCars /\ expensiveCars' = expensiveCars
  BY <1>1 DEF vars, menus
<1>5. \A l \in {taxiServices', recommendedCars', cheaperCars', expensiveCars'} :
        l \in {recommendedCars, cheaperCars, expensiveCars}
  BY <1>1, <1>4
<1>6. \A l \in {taxiServices', recommendedCars', cheaperCars', expensiveCars'} : l \in Seq(Product)
  BY <1>5 DEF TabInv, TabKept
<1>7. MenusAreTheList'
  <2>1. alive
    BY DEF MenuPressed
  <2>2. \A l \in {recommendedCars, cheaperCars, expensiveCars} : IsInjective(l) /\ ToSet(l) = ToSet(delivered[1])
    BY <1>1, <2>1 DEF TabInv, TabKept, MenusAreTheList
  <2>3. \A l \in {taxiServices', recommendedCars', cheaperCars', expensiveCars'} :
          IsInjective(l) /\ ToSet(l) = ToSet(delivered'[1])
    BY <1>4, <1>5, <2>2
  <2> QED BY <2>3 DEF MenusAreTheList
<1>8. SortedByPrice'
  BY <1>4 DEF TabInv, TabKept, SortedByPrice
<1>9. delivered' # <<>>
  BY <1>1, <1>4
<1> QED BY <1>2, <1>3, <1>6, <1>7, <1>8, <1>9, Zenon DEF TabInv, TabKept

LEMMA TabInvNext == TabInv /\ [TabNext]_allVars => TabInv'
<1> SUFFICES ASSUME TabInv, [TabNext]_allVars
             PROVE  TabInv'
  OBVIOUS
<1>1. CASE UNCHANGED allVars
  <2>1. Inv'
    BY <1>1, InvNext DEF TabInv, allVars
  <2>2. TabKept'
    BY <1>1 DEF allVars, vars, tabVars, menus, TabInv, TabKept, MenusAreTheList, SortedByPrice
  <2> QED BY <2>1, <2>2 DEF TabInv
<1>2. CASE TabNext
  BY <1>2, PolledNext, MenuPressedNext DEF TabNext
<1> QED BY <1>1, <1>2

LEMMA TabInvariance == TabSpec => []TabInv
  BY TabInvInit, TabInvNext, PTL DEF TabSpec

(* The tab and its call keep their types.                                  *)
THEOREM TabTypeCorrect == TabSpec => []TabTypeOK
<1>1. TabInv => TabTypeOK
  BY Zenon DEF TabInv, TabKept, Inv, TabTypeOK
<1> QED BY <1>1, TabInvariance, PTL

(* Each of the menu's lists is a rearrangement of the list that was handed *)
(* over: a selection sort that removes from the array it searches loses    *)
(* and doubles nothing, for any list (SortingPrices.swift).                *)
THEOREM MenusStayTheList == TabSpec => []MenusAreTheList
<1>1. TabInv => MenusAreTheList
  BY DEF TabInv, TabKept
<1> QED BY <1>1, TabInvariance, PTL

(* The lists by price are sorted, for any number of products at any prices *)
(* ("testSortingLogic" tries one).                                         *)
THEOREM MenusStaySorted == TabSpec => []SortedByPrice
<1>1. TabInv => SortedByPrice
  BY DEF TabInv, TabKept
<1> QED BY <1>1, TabInvariance, PTL

(* What is proved of the call holds under the tab, which only looks at it. *)
THEOREM TabListStaysTheListing == TabSpec => []ListIsTheListing
<1>1. TabInv => ListIsTheListing
  BY DEF TabInv, Inv, Kept, ListIsTheListing
<1> QED BY <1>1, TabInvariance, PTL

(* Under the tab too the call implements ListOnce.                         *)
THEOREM TabListIsHandedOverOnce == TabSpec => DeliversOnce
<1>1. TabInit => ListedOnce!Init
  BY DEF TabInit, Init, ListedOnce!Init
<1>2. TabInv /\ TabInv' /\ [TabNext]_allVars => [ListedOnce!Next]_delivered
  <2>1. [TabNext]_allVars => [Next]_vars
    BY DEF TabNext, Polled, MenuPressed, allVars
  <2> QED BY <2>1, DeliverNext DEF TabInv
<1> QED BY <1>1, <1>2, TabInvariance, PTL DEF TabSpec, DeliversOnce, ListedOnce!Spec

(* The tab only adds to the call: each of its behaviours is one of the     *)
(* call's, cut short where an empty list ends the program.  So what is     *)
(* proved of the steps of the call holds under the tab.                    *)
THEOREM TabImplementsCall == TabSpec => Init /\ [][Next]_vars
<1>1. TabInit => Init
  BY DEF TabInit
<1>2. [TabNext]_allVars => [Next]_vars
  BY DEF TabNext, Polled, MenuPressed, allVars
<1> QED BY <1>1, <1>2, PTL DEF TabSpec

(* No answer is lost under the tab, and a full list is handed over.        *)
THEOREM TabGetsTheFullList == TabSpec => ServedStaysComing /\ FullListGoesOut
<1>1. TabInv /\ [TabNext]_allVars => Inv /\ [Next]_vars
  BY DEF TabInv, TabNext, Polled, MenuPressed, allVars
<1>2. Inv /\ [Next]_vars => [\A p \in Product : Coming(p) => Coming(p)']_vars
  BY ServedNext
<1>3. Inv /\ [Next]_vars =>
        [edits = 0 /\ timer /\ counter # None /\ listing \subseteq ToSet(collected) /\ Ticks =>
           delivered' = <<collected>> /\ ~timer']_vars
  BY FullListNext
<1> QED BY <1>1, <1>2, <1>3, TabInvariance, PTL DEF TabSpec, ServedStaysComing, FullListGoesOut

(* Nothing but an empty list ends the program, so one whose server lists a *)
(* product and keeps its list runs on; and while it runs the first of the  *)
(* three lists is the one that came, in its order (1...collection.count of *)
(* SortingPrices.swift, the completion handler of TaxiServiceVC.swift).    *)
OnlyAnEmptyListEndsIt ==
  IF alive THEN delivered # <<>> => delivered[1] # <<>> /\ recommendedCars = delivered[1]
  ELSE delivered = <<<<>>>> /\ (edits = 0 => listing = {})

(* What the strengthening says of the list; the rest follows from Kept.    *)
ListOrEnd ==
  IF alive THEN delivered # <<>> => delivered[1] # <<>> /\ recommendedCars = delivered[1]
  ELSE delivered = <<<<>>>>

LEMMA ListOrEndNext == TabInv /\ ListOrEnd /\ [TabNext]_allVars => ListOrEnd'
<1> SUFFICES ASSUME TabInv, ListOrEnd, [TabNext]_allVars
             PROVE  ListOrEnd'
  OBVIOUS
<1>1. CASE UNCHANGED allVars
  BY <1>1 DEF allVars, vars, tabVars, menus, ListOrEnd
<1>2. CASE Polled(Next)
  <2>1. CASE delivered' = delivered
    BY <1>2, <2>1 DEF Polled, tabVars, menus, ListOrEnd
  <2>2. CASE delivered' # delivered
    <3> DEFINE list == Last(delivered')
    <3>1. delivered' = <<list>> /\ list \in Seq(Product)
      BY <1>2, <2>2, HandsOver DEF Polled, TabInv
    <3>2. alive /\ ListComes(list)
      BY <1>2, <2>2 DEF Polled
    <3> HIDE DEF list
    <3>3. delivered'[1] = list /\ delivered' # <<>>
      BY <3>1
    <3>4. CASE list = <<>>
      <4>1. ~alive'
        BY <3>2, <3>4 DEF ListComes
      <4> QED BY <3>1, <3>4, <4>1 DEF ListOrEnd
    <3>5. CASE list # <<>>
      <4>1. alive' = alive /\ recommendedCars' = list
        BY <3>2, <3>5 DEF ListComes
      <4> QED BY <3>2, <3>3, <3>5, <4>1 DEF ListOrEnd
    <3> QED BY <3>4, <3>5
  <2> QED BY <2>1, <2>2
<1>3. ASSUME NEW list, MenuPressed(list)
      PROVE  ListOrEnd'
  BY <1>3 DEF MenuPressed, vars, menus, ListOrEnd
<1> QED BY <1>1, <1>2, <1>3 DEF TabNext

(* The tab traps at an empty list and nowhere else, and shows the list     *)
(* that came as it came.                                                   *)
THEOREM NothingElseEndsIt == TabSpec => []OnlyAnEmptyListEndsIt
<1>1. TabInit => ListOrEnd
  <2> SUFFICES ASSUME TabInit PROVE ListOrEnd
    OBVIOUS
  <2>1. alive /\ delivered = <<>>
    BY DEF TabInit, Init
  <2> QED BY <2>1 DEF ListOrEnd
<1>2. TabInv /\ ListOrEnd => OnlyAnEmptyListEndsIt
  <2> SUFFICES ASSUME Inv, delivered = <<<<>>>>, edits = 0
               PROVE  listing = {}
    BY DEF TabInv, ListOrEnd, OnlyAnEmptyListEndsIt
  <2>1. ToSet(delivered[1]) = listing /\ delivered[1] = <<>>
    BY DEF Inv, Kept
  <2> QED BY <2>1 DEF ToSet
<1> QED BY <1>1, <1>2, ListOrEndNext, TabInvariance, PTL DEF TabSpec

(* The three lists, which the handler appends to, are made once: no later  *)
(* tick, answer or button changes them, or ends the program.               *)
MenusAreBuiltOnce == [][delivered # <<>> => UNCHANGED <<menus, alive>>]_allVars

(* The lists of the menu are appended to only once (TaxiServiceVC.swift).  *)
THEOREM MenusStayBuilt == TabSpec => MenusAreBuiltOnce
<1>1. ASSUME TabInv, [TabNext]_allVars, delivered # <<>>
      PROVE  UNCHANGED <<menus, alive>>
  <2>1. CASE Polled(Next)
    <3>1. delivered' = delivered
      BY <1>1, <2>1, HandsOver DEF Polled, TabInv
    <3> QED BY <2>1, <3>1 DEF Polled, tabVars
  <2>2. ASSUME NEW list, MenuPressed(list)
        PROVE  UNCHANGED <<menus, alive>>
    BY <2>2 DEF MenuPressed
  <2>3. CASE UNCHANGED allVars
    BY <2>3 DEF allVars, tabVars
  <2> QED BY <1>1, <2>1, <2>2, <2>3 DEF TabNext
<1>2. TabInv /\ [TabNext]_allVars => [delivered # <<>> => UNCHANGED <<menus, alive>>]_allVars
  BY <1>1
<1> QED BY <1>2, TabInvariance, PTL DEF TabSpec, MenusAreBuiltOnce

=============================================================================
