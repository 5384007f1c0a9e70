---------------------------- MODULE HomeVC_proofs ----------------------------
(***************************************************************************)
(* The home screen, for any houses, regions, texts and filters: a load, or *)
(* the second a filter is said to take, is always under the overlay, so    *)
(* one never starts during the other; and what is shown stays a selection  *)
(* of what the server delivered.                                           *)
(***************************************************************************)
EXTENDS HomeVC, ListLemmas

(* K[n] is what the first n houses of a list leave of a set.               *)
KeptUpTo(K, X, list, S) ==
  /\ K \in [0..Len(list) -> Seq(X)]
  /\ K[0] = <<>>
  /\ \A n \in 1..Len(list) :
       K[n] = IF list[n] \in S THEN Append(K[n - 1], list[n]) ELSE K[n - 1]

(* kept is computed one house at a time.                                   *)
LEMMA keptRecursion ==
  ASSUME NEW X, NEW list \in Seq(X), NEW S
  PROVE  \E K : KeptUpTo(K, X, list, S) /\ kept(list, S) = K[Len(list)]
<1> DEFINE N == Len(list)
           Body(F, n) == IF n = 0 THEN <<>>
                         ELSE IF list[n] \in S THEN Append(F[n - 1], list[n])
                         ELSE F[n - 1]
           Is(F) == F = [n \in 0..N |-> Body(F, n)]
           step == [n \in 1..N |-> [v \in Seq(X) |-> IF list[n] \in S THEN Append(v, list[n]) ELSE v]]
<1>1. N \in Nat /\ <<>> \in Seq(X) /\ \A n \in 1..N : list[n] \in X
  OBVIOUS
<1>2. step \in [1..N -> [Seq(X) -> Seq(X)]]
  BY <1>1, AppendProperties
<1>3. PICK f : FollowsFrom(f, N, Seq(X), <<>>, step)
  <2> HIDE DEF step, N
  <2> QED BY <1>1, <1>2, UpToRecursion
<1> USE <1>3 DEF FollowsFrom
<1>4. ASSUME NEW n \in 1..N
      PROVE  f[n] = IF list[n] \in S THEN Append(f[n - 1], list[n]) ELSE f[n - 1]
  <2>1. n - 1 \in 0..N
    BY <1>1
  <2> QED BY <1>3, <2>1
<1> HIDE DEF step
<1>5. Is(f)
  <2>1. ASSUME NEW n \in 0..N PROVE f[n] = Body(f, n)
    <3>1. CASE n = 0
      BY <1>3, <3>1
    <3>2. CASE n # 0
      <4>1. n \in 1..N
        BY <1>1, <3>2
      <4> QED BY <1>4, <3>2, <4>1
    <3> QED BY <3>1, <3>2
  <2> HIDE DEF Body
  <2> QED BY <1>3, <2>1
<1> DEFINE K == CHOOSE F : Is(F)
<1>6. Is(K)
  <2> HIDE DEF Is
  <2> QED BY <1>5, Zenon
<1>7. kept(list, S) = K[N]
  BY DEF kept
<1> HIDE DEF K
<1> DEFINE T == {n \in 0..N : K[n] = f[n]}
<1>8. 0 \in T
  BY <1>1, <1>3, <1>6
<1>9. ASSUME NEW n \in 1..N, n - 1 \in T PROVE n \in T
  <2>1. n \in 0..N /\ n # 0 /\ n - 1 \in 0..N
    BY <1>1
  <2>2. K[n] = Body(K, n)
    <3> HIDE DEF Body
    <3> QED BY <1>6, <2>1
  <2>3. K[n - 1] = f[n - 1]
    BY <1>9
  <2>4. K[n] = IF list[n] \in S THEN Append(K[n - 1], list[n]) ELSE K[n - 1]
    BY <2>1, <2>2
  <2>5. K[n] = f[n]
    BY <1>4, <2>3, <2>4
  <2> QED BY <2>1, <2>5
<1> HIDE DEF T, N
<1>10. N \in 0..N /\ \A n \in 0..N : n \in T
  <2>1. \A n \in 0..N : n \in T
    BY <1>1, <1>8, <1>9, UpToInduction
  <2> QED BY <1>1, <2>1
<1>11. K[N] = f[N]
  BY <1>10 DEF T
<1> QED BY <1>3, <1>4, <1>7, <1>11 DEF N, KeptUpTo

(* It leaves the houses of the list that are in the set, and no others.    *)
LEMMA keptProperties ==
  ASSUME NEW X, NEW list \in Seq(X), NEW S
  PROVE  kept(list, S) \in Seq(X) /\ ToSet(kept(list, S)) = ToSet(list) \cap S
<1>1. PICK K : KeptUpTo(K, X, list, S) /\ kept(list, S) = K[Len(list)]
  BY keptRecursion
<1> USE <1>1 DEF KeptUpTo
<1> DEFINE N == Len(list)
           upTo(n) == {list[i] : i \in 1..n}
           T == {n \in 0..N : ToSet(K[n]) = upTo(n) \cap S}
<1>2. N \in Nat
  OBVIOUS
<1>3. 0 \in T
  BY <1>1, <1>2 DEF ToSet
<1>4. ASSUME NEW n \in 1..N, n - 1 \in T PROVE n \in T
  <2>1. K[n - 1] \in Seq(X) /\ list[n] \in X
    BY <1>1, <1>2
  <2>2. upTo(n) = upTo(n - 1) \cup {list[n]}
    OBVIOUS
  <2>3. ToSet(Append(K[n - 1], list[n])) = ToSet(K[n - 1]) \cup {list[n]}
    <3> DEFINE s == K[n - 1]
               t == Append(s, list[n])
    <3>1. /\ Len(t) = Len(s) + 1 /\ t \in Seq(X)
          /\ \A i \in 1..Len(s) : t[i] = s[i]
          /\ t[Len(s) + 1] = list[n]
      BY <2>1, AppendProperties
    <3>2. Len(s) \in Nat /\ s \in Seq(X)
      BY <2>1
    <3> HIDE DEF s, t
    <3>3. \A x : x \in ToSet(t) => x \in ToSet(s) \/ x = list[n]
      <4> SUFFICES ASSUME NEW i \in 1..Len(t), t[i] # list[n] PROVE t[i] \in ToSet(s)
        BY <3>1 DEF ToSet
      <4>1. i \in 1..Len(s)
        BY <3>1, <3>2
      <4> QED BY <3>1, <3>2, <4>1 DEF ToSet
    <3>4. \A x : x \in ToSet(s) \/ x = list[n] => x \in ToSet(t)
      <4>1. 1..Len(s) \subseteq 1..Len(t) /\ Len(s) + 1 \in 1..Len(t)
        BY <3>1, <3>2
      <4>2. \A i \in 1..Len(s) : s[i] \in ToSet(t)
        BY <3>1, <4>1 DEF ToSet
      <4>3. list[n] \in ToSet(t)
        BY <3>1, <4>1 DEF ToSet
      <4>4. \A x \in ToSet(s) : \E i \in 1..Len(s) : x = s[i]
        BY <3>2 DEF ToSet
      <4> QED BY <4>2, <4>3, <4>4
    <3>5. ToSet(t) = ToSet(s) \cup {list[n]}
      BY <3>3, <3>4
    <3> QED BY <3>5 DEF s, t
  <2>4. ToSet(K[n - 1]) = upTo(n - 1) \cap S
    BY <1>4
  <2>5. K[n] = IF list[n] \in S THEN Append(K[n - 1], list[n]) ELSE K[n - 1]
    BY <1>1
  <2> HIDE DEF upTo
  <2>6. ToSet(K[n]) = upTo(n) \cap S
    BY <2>2, <2>3, <2>4, <2>5
  <2> QED BY <2>6
<1> HIDE DEF T, N
<1>5. N \in T
  <2>1. \A n \in 0..N : n \in T
    BY <1>2, <1>3, <1>4, UpToInduction
  <2> QED BY <1>2, <2>1
<1>6. upTo(N) = ToSet(list)
  BY DEF ToSet, N
<1>7. kept(list, S) = K[N] /\ K[N] \in Seq(X)
  BY <1>1, <1>2 DEF N
<1> HIDE DEF upTo
<1> QED BY <1>5, <1>6, <1>7 DEF T

(* Only what the set says of the houses of the list matters.               *)
LEMMA keptSame ==
  ASSUME NEW X, NEW list \in Seq(X), NEW S, NEW R,
         \A i \in 1..Len(list) : list[i] \in S <=> list[i] \in R
  PROVE  kept(list, S) = kept(list, R)
<1>1. PICK K : KeptUpTo(K, X, list, S) /\ kept(list, S) = K[Len(list)]
  BY keptRecursion
<1> USE <1>1 DEF KeptUpTo
<1>2. PICK L : KeptUpTo(L, X, list, R) /\ kept(list, R) = L[Len(list)]
  BY keptRecursion
<1> USE <1>2 DEF KeptUpTo
<1> DEFINE N == Len(list)
           T == {n \in 0..N : K[n] = L[n]}
<1>3. N \in Nat
  OBVIOUS
<1>4. 0 \in T
  BY <1>1, <1>2, <1>3
<1>5. \A n \in 1..N : n - 1 \in T => n \in T
  BY <1>1, <1>2
<1> HIDE DEF T
<1>6. \A n \in 0..N : n \in T
  <2> HIDE DEF N
  <2> QED BY <1>3, <1>4, <1>5, UpToInduction
<1>7. N \in T
  BY <1>3, <1>6
<1> QED BY <1>1, <1>2, <1>7 DEF T

(* A list whose houses are all in the set is left as it is.                *)
LEMMA keptAll ==
  ASSUME NEW X, NEW list \in Seq(X), NEW S, \A i \in 1..Len(list) : list[i] \in S
  PROVE  kept(list, S) = list
<1>1. PICK K : KeptUpTo(K, X, list, S) /\ kept(list, S) = K[Len(list)]
  BY keptRecursion
<1> USE <1>1 DEF KeptUpTo
<1> DEFINE N == Len(list)
           T == {n \in 0..N : Len(K[n]) = n /\ \A i \in 1..n : K[n][i] = list[i]}
<1>2. N \in Nat
  OBVIOUS
<1>3. 0 \in T
  BY <1>1, <1>2
<1>4. ASSUME NEW n \in 1..N, n - 1 \in T PROVE n \in T
  <2> DEFINE s == K[n - 1]
             t == Append(s, list[n])
  <2>1. s \in Seq(X) /\ list[n] \in X /\ Len(s) = n - 1 /\ \A i \in 1..(n - 1) : s[i] = list[i]
    BY <1>1, <1>2, <1>4
  <2>2. K[n] = t
    BY <1>1
  <2> HIDE DEF s
  <2>3. /\ Len(t) = Len(s) + 1
        /\ \A i \in 1..Len(s) : t[i] = s[i]
        /\ t[Len(s) + 1] = list[n]
    BY <2>1, AppendProperties
  <2> HIDE DEF t
  <2>4. Len(t) = n /\ \A i \in 1..n : t[i] = list[i]
    BY <2>1, <2>3
  <2> QED BY <2>2, <2>4
<1> HIDE DEF T
<1>5. \A n \in 0..N : n \in T
  <2> HIDE DEF N
  <2> QED BY <1>2, <1>3, <1>4, UpToInduction
<1>6. Len(K[N]) = N /\ \A i \in 1..N : K[N][i] = list[i]
  BY <1>2, <1>5 DEF T
<1>7. K[N] \in Seq(X)
  BY <1>1, <1>2
<1>8. K[N] = list
  BY <1>6, <1>7, SeqEqual
<1> QED BY <1>1, <1>8

(* One more house at the end of a list is the last one kept, or not kept.  *)
LEMMA keptAppend ==
  ASSUME NEW X, NEW list \in Seq(X), NEW x \in X, NEW S
  PROVE  kept(Append(list, x), S) = IF x \in S THEN Append(kept(list, S), x) ELSE kept(list, S)
<1> DEFINE N == Len(list)
           more == Append(list, x)
<1>1. /\ more \in Seq(X) /\ Len(more) = N + 1 /\ more[N + 1] = x
      /\ \A i \in 1..N : more[i] = list[i]
  BY AppendProperties
<1>2. N \in Nat
  OBVIOUS
<1> HIDE DEF more
<1>3. PICK K : KeptUpTo(K, X, more, S) /\ kept(more, S) = K[Len(more)]
  BY <1>1, keptRecursion
<1>4. PICK L : KeptUpTo(L, X, list, S) /\ kept(list, S) = L[Len(list)]
  BY keptRecursion
<1> DEFINE T == {n \in 0..N : K[n] = L[n]}
<1>5. 0 \in T
  BY <1>2, <1>3, <1>4 DEF KeptUpTo
<1>6. ASSUME NEW n \in 1..N, n - 1 \in T PROVE n \in T
  <2>1. n \in 1..Len(more) /\ more[n] = list[n]
    BY <1>1, <1>2
  <2>2. K[n] = IF list[n] \in S THEN Append(K[n - 1], list[n]) ELSE K[n - 1]
    BY <1>3, <2>1 DEF KeptUpTo
  <2>3. L[n] = IF list[n] \in S THEN Append(L[n - 1], list[n]) ELSE L[n - 1]
    BY <1>4 DEF KeptUpTo
  <2> QED BY <1>6, <2>2, <2>3
<1> HIDE DEF T
<1>7. \A n \in 0..N : n \in T
  <2> HIDE DEF N
  <2> QED BY <1>2, <1>5, <1>6, UpToInduction
<1>8. K[N] = L[N]
  BY <1>2, <1>7 DEF T
<1>9. K[N + 1] = IF x \in S THEN Append(K[N], x) ELSE K[N]
  <2>1. N + 1 \in 1..Len(more) /\ (N + 1) - 1 = N
    BY <1>1, <1>2
  <2> QED BY <1>1, <1>3, <2>1 DEF KeptUpTo
<1> QED BY <1>1, <1>3, <1>4, <1>8, <1>9 DEF more

(* What is kept of what was kept is kept of the list at once.              *)
LEMMA keptKept ==
  ASSUME NEW X, NEW list \in Seq(X), NEW S, NEW R
  PROVE  kept(kept(list, S), R) = kept(list, S \cap R)
<1> DEFINE N == Len(list)
<1>1. PICK K : KeptUpTo(K, X, list, S) /\ kept(list, S) = K[Len(list)]
  BY keptRecursion
<1>2. PICK L : KeptUpTo(L, X, list, S \cap R) /\ kept(list, S \cap R) = L[Len(list)]
  BY keptRecursion
<1> DEFINE T == {n \in 0..N : kept(K[n], R) = L[n]}
<1>3. N \in Nat
  OBVIOUS
<1>4. 0 \in T
  <2>1. <<>> \in Seq(X) /\ Len(<<>>) = 0
    OBVIOUS
  <2>2. PICK F : KeptUpTo(F, X, <<>>, R) /\ kept(<<>>, R) = F[Len(<<>>)]
    BY <2>1, keptRecursion
  <2>3. kept(<<>>, R) = <<>>
    BY <2>1, <2>2 DEF KeptUpTo
  <2> QED BY <1>1, <1>2, <1>3, <2>3 DEF KeptUpTo
<1>5. ASSUME NEW n \in 1..N, n - 1 \in T PROVE n \in T
  <2>1. K[n - 1] \in Seq(X) /\ list[n] \in X
    BY <1>1, <1>3 DEF KeptUpTo
  <2>2. kept(K[n - 1], R) = L[n - 1]
    BY <1>5
  <2>3. kept(Append(K[n - 1], list[n]), R) = IF list[n] \in R THEN Append(L[n - 1], list[n]) ELSE L[n - 1]
    <3> DEFINE s == K[n - 1]
               x == list[n]
    <3>1. s \in Seq(X) /\ x \in X /\ kept(s, R) = L[n - 1]
      BY <2>1, <2>2
    <3> HIDE DEF s, x
    <3>2. kept(Append(s, x), R) = IF x \in R THEN Append(kept(s, R), x) ELSE kept(s, R)
      BY <3>1, keptAppend
    <3> QED BY <3>1, <3>2 DEF s, x
  <2>4. K[n] = IF list[n] \in S THEN Append(K[n - 1], list[n]) ELSE K[n - 1]
    BY <1>1 DEF KeptUpTo
  <2>5. L[n] = IF list[n] \in S \cap R THEN Append(L[n - 1], list[n]) ELSE L[n - 1]
    BY <1>2 DEF KeptUpTo
  <2>6. kept(K[n], R) = L[n]
    BY <2>2, <2>3, <2>4, <2>5
  <2> QED BY <2>6
<1> HIDE DEF T
<1>6. \A n \in 0..N : n \in T
  <2> HIDE DEF N
  <2> QED BY <1>3, <1>4, <1>5, UpToInduction
<1>7. N \in T
  BY <1>3, <1>6
<1> QED BY <1>1, <1>2, <1>7 DEF T

(* The list is made of houses of another one, in the order of that one.    *)
SelectedFrom(list, all) == list = kept(all, ToSet(list))

(* A list is selected from itself, and a selection from it by any set is   *)
(* one; so is what a further set leaves of a selection.                    *)
LEMMA keptSelected ==
  ASSUME NEW X, NEW all \in Seq(X), NEW S
  PROVE  /\ SelectedFrom(all, all)
         /\ SelectedFrom(kept(all, S), all)
         /\ \A list \in Seq(X) : SelectedFrom(list, all) => SelectedFrom(kept(list, S), all)
<1>1. \A i \in 1..Len(all) : all[i] \in ToSet(all)
  BY DEF ToSet
<1>2. SelectedFrom(all, all)
  BY <1>1, keptAll DEF SelectedFrom
<1>3. ASSUME NEW R PROVE SelectedFrom(kept(all, R), all)
  <2>1. ToSet(kept(all, R)) = ToSet(all) \cap R
    BY keptProperties
  <2>2. \A i \in 1..Len(all) : all[i] \in R <=> all[i] \in ToSet(kept(all, R))
    BY <1>1, <2>1
  <2> QED BY <2>2, keptSame DEF SelectedFrom
<1>4. ASSUME NEW list \in Seq(X), SelectedFrom(list, all) PROVE SelectedFrom(kept(list, S), all)
  <2>1. kept(list, S) = kept(all, ToSet(list) \cap S)
    BY <1>4, keptKept DEF SelectedFrom
  <2> QED BY <1>3, <2>1
<1> QED BY <1>2, <1>3, <1>4

-----------------------------------------------------------------------------
Interval == [min : Nat, max : Nat]

(* A house widens an interval of prices to its own lower price, and the    *)
(* upper end stays or becomes its higher one.                              *)
LEMMA widenProperties ==
  ASSUME NEW h \in House, NEW v \in Interval
  PROVE  /\ pricesOf(h) \in Interval
         /\ pricesOf(h).min = priceForWorkingDays[h] /\ pricesOf(h).max = priceForWeekends[h]
         /\ widen(v, h) \in Interval
         /\ widen(v, h).min \in {v.min, priceForWorkingDays[h]}
         /\ widen(v, h).min <= v.min /\ widen(v, h).min <= priceForWorkingDays[h]
         /\ widen(v, h).max \in {v.max, priceForWeekends[h]}
<1>1. priceForWorkingDays[h] \in Nat /\ priceForWeekends[h] \in Nat
  BY HomeAssumption
<1> QED BY <1>1 DEF Interval, pricesOf, widen

(* findPriceInterval passes over the houses one at a time.                 *)
LEMMA findPriceIntervalRecursion ==
  ASSUME NEW list \in Seq(House), list # <<>>
  PROVE  \E K : /\ K \in [0..Len(list) -> Interval]
                /\ K[0] = pricesOf(list[1])
                /\ \A n \in 1..Len(list) : K[n] = widen(K[n - 1], list[n])
                /\ findPriceInterval(list) = K[Len(list)]
<1> DEFINE N == Len(list)
           Body(F, n) == IF n = 0 THEN pricesOf(list[1]) ELSE widen(F[n - 1], list[n])
           Is(F) == F = [n \in 0..N |-> Body(F, n)]
           step == [n \in 1..N |-> [v \in Interval |-> widen(v, list[n])]]
<1>1. N \in Nat /\ 1 \in 1..N /\ \A n \in 1..N : list[n] \in House
  OBVIOUS
<1>2. pricesOf(list[1]) \in Interval /\ step \in [1..N -> [Interval -> Interval]]
  <2>1. list[1] \in House
    BY <1>1
  <2>2. pricesOf(list[1]) \in Interval
    BY <2>1, HomeAssumption DEF Interval, pricesOf
  <2>3. \A n \in 1..N : \A v \in Interval : widen(v, list[n]) \in Interval
    <3> HIDE DEF N
    <3> QED BY <1>1, widenProperties
  <2> HIDE DEF N
  <2> QED BY <2>2, <2>3
<1>3. PICK f : FollowsFrom(f, N, Interval, pricesOf(list[1]), step)
  <2> HIDE DEF step, N
  <2> QED BY <1>1, <1>2, UpToRecursion
<1> USE <1>3 DEF FollowsFrom
<1>4. ASSUME NEW n \in 1..N
      PROVE  f[n] = widen(f[n - 1], list[n])
  <2>1. n - 1 \in 0..N
    BY <1>1
  <2> QED BY <1>3, <2>1
<1> HIDE DEF step
<1>5. Is(f)
  <2>1. ASSUME NEW n \in 0..N PROVE f[n] = Body(f, n)
    <3>1. CASE n = 0
      BY <1>3, <3>1
    <3>2. CASE n # 0
      <4>1. n \in 1..N
        BY <1>1, <3>2
      <4> QED BY <1>4, <3>2, <4>1
    <3> QED BY <3>1, <3>2
  <2> HIDE DEF Body
  <2> QED BY <1>3, <2>1
<1> DEFINE K == CHOOSE F : Is(F)
<1>6. Is(K)
  <2> HIDE DEF Is
  <2> QED BY <1>5, Zenon
<1>7. findPriceInterval(list) = K[N]
  BY DEF findPriceInterval
<1> HIDE DEF K
<1> DEFINE T == {n \in 0..N : K[n] = f[n]}
<1>8. 0 \in T
  BY <1>1, <1>3, <1>6
<1>9. ASSUME NEW n \in 1..N, n - 1 \in T PROVE n \in T
  <2>1. n \in 0..N /\ n # 0 /\ n - 1 \in 0..N
    BY <1>1
  <2>2. K[n] = Body(K, n)
    <3> HIDE DEF Body
    <3> QED BY <1>6, <2>1
  <2>3. K[n - 1] = f[n - 1]
    BY <1>9
  <2>4. K[n] = widen(K[n - 1], list[n])
    BY <2>1, <2>2
  <2>5. K[n] = f[n]
    BY <1>4, <2>3, <2>4
  <2> QED BY <2>1, <2>5
<1> HIDE DEF T, N
<1>10. N \in 0..N /\ \A n \in 0..N : n \in T
  <2>1. \A n \in 0..N : n \in T
    BY <1>1, <1>8, <1>9, UpToInduction
  <2> QED BY <1>1, <2>1
<1>11. K[N] = f[N]
  BY <1>10 DEF T
<1> QED BY <1>3, <1>4, <1>7, <1>11 DEF N

(* It finds the lowest price of the list, and a higher price of one of its *)
(* houses.                                                                 *)
LEMMA findPriceIntervalProperties ==
  ASSUME NEW list \in Seq(House), list # <<>>
  PROVE  /\ findPriceInterval(list) \in Interval
         /\ findPriceInterval(list).min = Min({priceForWorkingDays[h] : h \in ToSet(list)})
         /\ findPriceInterval(list).max \in {priceForWeekends[h] : h \in ToSet(list)}
         /\ \A h \in ToSet(list) : findPriceInterval(list).min <= priceForWorkingDays[h]
<1> DEFINE N == Len(list)
           lower == {priceForWorkingDays[h] : h \in ToSet(list)}
           upper == {priceForWeekends[h] : h \in ToSet(list)}
<1>1. PICK K : /\ K \in [0..Len(list) -> Interval]
               /\ K[0] = pricesOf(list[1])
               /\ \A n \in 1..Len(list) : K[n] = widen(K[n - 1], list[n])
               /\ findPriceInterval(list) = K[Len(list)]
  BY findPriceIntervalRecursion
<1>2. N \in Nat /\ 1 \in 1..N
  OBVIOUS
<1>3. \A i \in 1..N : /\ list[i] \in House /\ list[i] \in ToSet(list)
                      /\ priceForWorkingDays[list[i]] \in Nat
  BY HomeAssumption DEF ToSet
<1> DEFINE Right(v, n) == /\ v.min \in lower /\ v.max \in upper
                          /\ \A i \in 1..n : v.min <= priceForWorkingDays[list[i]]
           T == {n \in 0..N : Right(K[n], n)}
<1>4. 0 \in T
  <2>1. K[0].min = priceForWorkingDays[list[1]] /\ K[0].max = priceForWeekends[list[1]]
    BY <1>1 DEF pricesOf
  <2>2. K[0].min \in lower /\ K[0].max \in upper
    BY <1>2, <1>3, <2>1
  <2> QED BY <1>2, <2>2
<1>5. ASSUME NEW n \in 1..N, n - 1 \in T PROVE n \in T
  <2> DEFINE v == K[n - 1]
             w == K[n]
             h == list[n]
  <2>1. v \in Interval /\ h \in House /\ h \in ToSet(list) /\ w = widen(v, h)
    BY <1>1, <1>2, <1>3
  <2>2. Right(v, n - 1)
    BY <1>5
  <2> HIDE DEF v, w, h
  <2>3. /\ w \in Interval
        /\ w.min \in {v.min, priceForWorkingDays[h]}
        /\ w.min <= v.min /\ w.min <= priceForWorkingDays[h]
        /\ w.max \in {v.max, priceForWeekends[h]}
    BY <2>1, widenProperties
  <2>4. w.min \in lower /\ w.max \in upper
    BY <2>1, <2>2, <2>3
  <2>5. ASSUME NEW i \in 1..n PROVE w.min <= priceForWorkingDays[list[i]]
    <3>1. CASE i = n
      BY <2>3, <3>1 DEF h
    <3>2. CASE i # n
      <4>1. i \in 1..(n - 1) /\ i \in 1..N
        BY <1>2, <3>2
      <4>2. v.min <= priceForWorkingDays[list[i]] /\ priceForWorkingDays[list[i]] \in Nat
        BY <1>3, <2>2, <4>1
      <4>3. v.min \in Nat /\ w.min \in Nat
        BY <2>1, <2>3 DEF Interval
      <4> QED BY <2>3, <4>2, <4>3
    <3> QED BY <3>1, <3>2
  <2> QED BY <1>2, <2>4, <2>5 DEF w
<1> HIDE DEF T
<1>6. N \in T
  <2>1. \A n \in 0..N : n \in T
    <3> HIDE DEF N
    <3> QED BY <1>2, <1>4, <1>5, UpToInduction
  <2> QED BY <1>2, <2>1
<1>7. Right(K[N], N) /\ K[N] \in Interval
  BY <1>1, <1>2, <1>6 DEF T
<1>8. K[N].min = Min(lower)
  <2>1. \A y \in lower : K[N].min <= y
    BY <1>7 DEF ToSet
  <2>2. \A x \in lower : x \in Nat
    BY <1>3 DEF ToSet
  <2> DEFINE m == K[N].min
  <2>3. m \in lower /\ \A y \in lower : m <= y
    BY <1>7, <2>1
  <2> HIDE DEF m, lower
  <2>4. \A x \in lower : (\A y \in lower : x <= y) => x = m
    BY <2>2, <2>3
  <2>5. Min(lower) = m
    BY <2>3, <2>4 DEF Min
  <2> QED BY <2>5 DEF m
<1>9. \A h \in ToSet(list) : K[N].min <= priceForWorkingDays[h]
  BY <1>7 DEF ToSet
<1> QED BY <1>1, <1>7, <1>8, <1>9

(* Where no house is cheaper on weekends than on working days, the prices  *)
(* found are the right way round.                                          *)
LEMMA findPriceIntervalIsOne ==
  ASSUME NEW list \in Seq(House), list # <<>>,
         \A h \in House : priceForWorkingDays[h] <= priceForWeekends[h]
  PROVE  findPriceInterval(list).min <= findPriceInterval(list).max
<1>1. /\ findPriceInterval(list) \in Interval
      /\ findPriceInterval(list).max \in {priceForWeekends[h] : h \in ToSet(list)}
      /\ \A h \in ToSet(list) : findPriceInterval(list).min <= priceForWorkingDays[h]
  BY findPriceIntervalProperties
<1>2. PICK h \in ToSet(list) : findPriceInterval(list).max = priceForWeekends[h]
  BY <1>1
<1>3. h \in House
  BY DEF ToSet
<1>4. findPriceInterval(list).min \in Nat /\ priceForWorkingDays[h] \in Nat /\ priceForWeekends[h] \in Nat
  BY <1>1, <1>3, HomeAssumption DEF Interval
<1> QED BY <1>1, <1>2, <1>3, <1>4

-----------------------------------------------------------------------------
(* Nothing is under way without an overlay, at most one thing is under it, *)
(* and the houses are loaded once, before anything else.                   *)
OneAtATime ==
  /\ overlays = 0 => loads = {} /\ stopsDue = 0
  /\ loads \in {{}, {"houses"}, {"detail"}}
  /\ stopsDue \in {0, 1}
  /\ stopsDue = 1 => loads = {}
  /\ isConfigured = TRUE
  /\ "houses" \in loads => allVillas = <<>>
  /\ overlays \in Nat

LEMMA OneAtATimeInit == Init => OneAtATime
  BY DEF Init, OneAtATime

(* A filter is applied only when nothing is under way, whatever it is.     *)
LEMMA filtrDataInTurn ==
  ASSUME OneAtATime, NEW min, NEW max, NEW f, filtrData(min, max, f)
  PROVE  OneAtATime' /\ allVillas' = allVillas
  BY DEF OneAtATime, filtrData, Touched, Touchable, LoaderStart

LEMMA OneAtATimeNext == OneAtATime /\ [Next]_vars => OneAtATime'
<1> SUFFICES ASSUME OneAtATime, [Next]_vars
             PROVE  OneAtATime'
  OBVIOUS
<1>1. CASE HousesArrive
  BY <1>1 DEF OneAtATime, HousesArrive, LoaderStop
<1>2. ASSUME NEW load \in {"houses", "detail"}, LoadFails(load)
      PROVE  OneAtATime'
  BY <1>2 DEF OneAtATime, LoadFails
<1>3. ASSUME NEW region \in Region, CategorySelected(region)
      PROVE  OneAtATime'
  BY <1>3 DEF OneAtATime, CategorySelected
<1>4. ASSUME NEW text \in Text, TextChanged(text)
      PROVE  OneAtATime'
  BY <1>4 DEF OneAtATime, TextChanged
<1>5. CASE serchByName
  BY <1>5 DEF OneAtATime, serchByName
<1>6. CASE FilterOpened
  BY <1>6 DEF OneAtATime, FilterOpened
<1>7. CASE FilterDismissed
  BY <1>7 DEF OneAtATime, FilterDismissed
<1>8. ASSUME NEW min \in Price, NEW max \in Price, NEW f \in Filter, filtrData(min, max, f)
      PROVE  OneAtATime'
  BY <1>8, filtrDataInTurn
<1>9. CASE DelayedStop
  BY <1>9 DEF OneAtATime, DelayedStop, LoaderStop
<1>10. CASE HouseOpened
  BY <1>10 DEF OneAtATime, HouseOpened, Touched, Touchable, LoaderStart
<1>11. CASE DetailArrives
  BY <1>11 DEF OneAtATime, DetailArrives, LoaderStop
<1>12. CASE BackFromHouse
  BY <1>12 DEF OneAtATime, BackFromHouse, HomeWillAppear
<1>13. CASE UNCHANGED vars
  BY <1>13 DEF OneAtATime, vars
<1> QED
  BY <1>1, <1>2, <1>3, <1>4, <1>5, <1>6, <1>7, <1>8, <1>9, <1>10, <1>11, <1>12, <1>13 DEF Next

LEMMA OneAtATimeAlways == Spec => []OneAtATime
  BY OneAtATimeInit, OneAtATimeNext, PTL DEF Spec

(* The Loader.stop that setFiltredHouses schedules (HomeVC.swift:290) never *)
(* finds a load under way, so it removes no overlay but its own.            *)
THEOREM StopsStayInTurn == Spec => []NoStrayStop
<1>1. OneAtATime => NoStrayStop
  BY DEF OneAtATime, NoStrayStop
<1> QED BY <1>1, OneAtATimeAlways, PTL

LEMMA VillasNext ==
  ASSUME OneAtATime, [Next]_vars
  PROVE  [allVillas # <<>> => allVillas' = allVillas]_vars
<1>1. CASE HousesArrive
  BY <1>1 DEF OneAtATime, HousesArrive
<1>2. CASE ~HousesArrive
  BY <1>2 DEF Next, LoadFails, CategorySelected, TextChanged, serchByName, FilterOpened,
    FilterDismissed, filtrData, DelayedStop, HouseOpened, DetailArrives, BackFromHouse
<1> QED BY <1>1, <1>2

(* allVillas is replaced by the first list only (HomeVC.swift:63): while a *)
(* list is awaited there are no houses yet, and it is not awaited again.   *)
THEOREM VillasStay == Spec => VillasChangeOnce
  BY VillasNext, OneAtATimeAlways, PTL DEF Spec, VillasChangeOnce

-----------------------------------------------------------------------------
(* What the handlers make of the lists they start from is again a list of  *)
(* houses, selected from allVillas.                                        *)
LEMMA ListsAreSelected ==
  ASSUME allVillas \in Seq(House), allHouses \in Seq(House), SelectedFrom(allHouses, allVillas)
  PROVE  /\ \A region : /\ sortByProvince(region) \in Seq(House)
                        /\ SelectedFrom(sortByProvince(region), allVillas)
         /\ \A text, region : /\ searchByKey(text, region) \in Seq(House)
                              /\ SelectedFrom(searchByKey(text, region), allVillas)
         /\ \A min, max, f, region : /\ filtrHouses(min, max, f, region) \in Seq(House)
                                     /\ SelectedFrom(filtrHouses(min, max, f, region), allVillas)
<1>1. \A S : kept(allVillas, S) \in Seq(House) /\ SelectedFrom(kept(allVillas, S), allVillas)
  BY keptProperties, keptSelected
<1>2. SelectedFrom(allVillas, allVillas)
  BY keptSelected
<1>3. \A list \in Seq(House) : \A S :
        SelectedFrom(list, allVillas) => kept(list, S) \in Seq(House) /\ SelectedFrom(kept(list, S), allVillas)
  BY keptProperties, keptSelected
<1>4. \A region : sortByProvince(region) \in Seq(House) /\ SelectedFrom(sortByProvince(region), allVillas)
  BY <1>1, <1>2, Zenon DEF sortByProvince
<1>5. \A text, region : searchByKey(text, region) \in Seq(House) /\ SelectedFrom(searchByKey(text, region), allVillas)
  BY <1>1, <1>2, Zenon DEF searchByKey
<1>6. ASSUME NEW min, NEW max, NEW f, NEW region
      PROVE  filtrHouses(min, max, f, region) \in Seq(House) /\ SelectedFrom(filtrHouses(min, max, f, region), allVillas)
  <2> DEFINE filtred == kept(allHouses, inPriceRange(min, max) \cap passes[f])
  <2>1. filtred \in Seq(House) /\ SelectedFrom(filtred, allVillas)
    BY <1>3
  <2>2. filtrHouses(min, max, f, region) = IF region = AllRegions THEN filtred ELSE kept(filtred, ofProvince(region))
    BY Zenon DEF filtrHouses
  <2> HIDE DEF filtred
  <2>3. kept(filtred, ofProvince(region)) \in Seq(House) /\ SelectedFrom(kept(filtred, ofProvince(region)), allVillas)
    BY <1>3, <2>1
  <2> QED BY <2>1, <2>2, <2>3, Zenon
<1> QED BY <1>4, <1>5, <1>6, Zenon

(* Each of them looks at the region it is given.                           *)
InRegion(list, region) ==
  \A h \in ToSet(list) : provinceOf[h] \in {region, cityOf[region]}

LEMMA ListsAreOfTheRegion ==
  ASSUME allVillas \in Seq(House), allHouses \in Seq(House), NEW region, region # AllRegions
  PROVE  /\ InRegion(sortByProvince(region), region)
         /\ \A text : text \notin Blank => InRegion(searchByKey(text, region), region)
         /\ \A min, max, f : InRegion(filtrHouses(min, max, f, region), region)
<1>1. ASSUME NEW list \in Seq(House), NEW S, NEW p \in {region, cityOf[region]}, S \subseteq ofProvince(p)
      PROVE  InRegion(kept(list, S), region)
  <2>1. ToSet(kept(list, S)) \subseteq S
    BY keptProperties
  <2> QED BY <1>1, <2>1 DEF InRegion, ofProvince
<1>2. InRegion(sortByProvince(region), region)
  BY <1>1 DEF sortByProvince
<1>3. ASSUME NEW text, text \notin Blank PROVE InRegion(searchByKey(text, region), region)
  <2>1. searchByKey(text, region) = kept(allVillas, nameHas[text] \cap ofProvince(region))
    BY <1>3, Zenon DEF searchByKey
  <2>2. nameHas[text] \cap ofProvince(region) \subseteq ofProvince(region)
    OBVIOUS
  <2> QED BY <1>1, <2>1, <2>2
<1>4. ASSUME NEW min, NEW max, NEW f PROVE InRegion(filtrHouses(min, max, f, region), region)
  <2> DEFINE filtred == kept(allHouses, inPriceRange(min, max) \cap passes[f])
  <2>1. filtred \in Seq(House)
    BY keptProperties
  <2>2. filtrHouses(min, max, f, region) = kept(filtred, ofProvince(region))
    BY Zenon DEF filtrHouses
  <2> HIDE DEF filtred
  <2> QED BY <1>1, <2>1, <2>2
<1> QED BY <1>2, <1>3, <1>4

(* Of what is delivered, a list is made of houses.                         *)
LEMMA ListsAreOfHouses ==
  ASSUME NEW S \in SUBSET House, NEW list \in SetToSeqs(S)
  PROVE  list \in Seq(House)
<1>1. Cardinality(S) \in Nat
  BY HomeAssumption, FS_Subset, FS_CardinalityType
<1>2. list \in [1..Cardinality(S) -> S]
  BY DEF SetToSeqs
<1> QED BY <1>1, <1>2

-----------------------------------------------------------------------------
(* No region is selected before the houses have been asked for in vain or  *)
(* have come, since the overlay of the load takes the taps.                *)
HomeInv ==
  /\ OneAtATime
  /\ TypeOK
  /\ SelectedFrom(allHouses, allVillas)
  /\ RegionIsKept
  /\ "houses" \in loads => selectedRegion = AllRegions

LEMMA HomeInvInit == Init => HomeInv
<1> SUFFICES ASSUME Init PROVE HomeInv
  OBVIOUS
<1>1. OneAtATime
  BY OneAtATimeInit
<1>2. TypeOK
  <2>1. searchText \in Text /\ selectedRegion \in Region
    BY HomeAssumption DEF Init
  <2>2. searchDue \in BOOLEAN /\ isConfigured \in BOOLEAN
    <3>1. searchDue = FALSE /\ isConfigured = TRUE
      BY DEF Init
    <3> QED BY <3>1, Zenon
  <2>3. priceInterval \in [min : Nat, max : Nat] /\ stopsDue \in 0..1 /\ lists \in Nat /\ overlays \in Nat
    BY DEF Init
  <2>4. allVillas \in Seq(House) /\ allHouses \in Seq(House)
    BY DEF Init
  <2>5. top \in {"home", "filter", "detail"} /\ loads \subseteq {"houses", "detail"}
    BY DEF Init
  <2> QED BY <2>1, <2>2, <2>3, <2>4, <2>5, Zenon DEF TypeOK
<1>3. SelectedFrom(allHouses, allVillas)
  <2>1. <<>> \in Seq(House)
    OBVIOUS
  <2>2. SelectedFrom(<<>>, <<>>)
    BY <2>1, keptSelected
  <2> QED BY <2>2 DEF Init
<1>4. RegionIsKept /\ selectedRegion = AllRegions
  BY DEF Init, RegionIsKept
<1> QED BY <1>1, <1>2, <1>3, <1>4 DEF HomeInv

LEMMA HousesArriveKeeps ==
  ASSUME HomeInv, HousesArrive
  PROVE  TypeOK' /\ SelectedFrom(allHouses, allVillas)' /\ RegionIsKept' /\ ("houses" \in loads => selectedRegion = AllRegions)'
<1>1. PICK list \in Seq(House) : setHouses(list)
  BY ListsAreOfHouses DEF HousesArrive
<1>2. allHouses' = list /\ allVillas' = list /\ list \in Seq(House)
  BY <1>1 DEF setHouses
<1>3. TypeOK'
  BY <1>2 DEF HomeInv, HousesArrive, LoaderStop, choiceVars, TypeOK, OneAtATime
<1>4. SelectedFrom(list, list)
  BY keptSelected
<1>5. SelectedFrom(allHouses', allVillas')
  BY <1>2, <1>4
<1>6. selectedRegion' = AllRegions
  BY DEF HomeInv, HousesArrive, choiceVars
<1> QED BY <1>3, <1>5, <1>6 DEF RegionIsKept, SelectedFrom

(* A handler that leaves the lists, or makes the one shown anew from them, *)
(* for the region of that moment.                                          *)
LEMMA CategorySelectedKeeps ==
  ASSUME HomeInv, NEW region \in Region, CategorySelected(region)
  PROVE  TypeOK' /\ SelectedFrom(allHouses, allVillas)' /\ RegionIsKept' /\ ("houses" \in loads => selectedRegion = AllRegions)'
<1>1. /\ allHouses' = sortByProvince(region) /\ selectedRegion' = region
      /\ UNCHANGED <<overlays, allVillas, searchText, searchDue, priceInterval, isConfigured, top, loads, lists, stopsDue>>
  BY DEF CategorySelected
<1>2. sortByProvince(region) \in Seq(House) /\ SelectedFrom(sortByProvince(region), allVillas)
  BY ListsAreSelected DEF HomeInv, TypeOK
<1>3. TypeOK'
  BY <1>1, <1>2 DEF HomeInv, TypeOK
<1>4. SelectedFrom(allHouses', allVillas')
  BY <1>1, <1>2
<1>5. region # AllRegions => InRegion(sortByProvince(region), region)
  BY ListsAreOfTheRegion DEF HomeInv, TypeOK
<1>6. RegionIsKept'
  BY <1>1, <1>5 DEF RegionIsKept, InRegion
<1>7. loads' = {}
  BY <1>1 DEF CategorySelected, Touched, Touchable, HomeInv, OneAtATime
<1> QED BY <1>3, <1>4, <1>6, <1>7 DEF SelectedFrom

LEMMA serchByNameKeeps ==
  ASSUME HomeInv, serchByName
  PROVE  TypeOK' /\ SelectedFrom(allHouses, allVillas)' /\ RegionIsKept' /\ ("houses" \in loads => selectedRegion = AllRegions)'
<1>1. /\ allHouses' = searchByKey(searchText, selectedRegion) /\ searchDue' = FALSE
      /\ UNCHANGED <<overlays, allVillas, selectedRegion, searchText, priceInterval, isConfigured, top, loads, lists, stopsDue>>
  BY DEF serchByName
<1> DEFINE found == searchByKey(searchText, selectedRegion)
<1>2. found \in Seq(House) /\ SelectedFrom(found, allVillas)
  BY ListsAreSelected DEF HomeInv, TypeOK
<1>3. selectedRegion # AllRegions /\ searchText \notin Blank => InRegion(found, selectedRegion)
  BY ListsAreOfTheRegion DEF HomeInv, TypeOK
<1> HIDE DEF found
<1>4. allHouses' = found
  BY <1>1 DEF found
<1>5. TypeOK'
  BY <1>1, <1>2, <1>4 DEF HomeInv, TypeOK
<1>6. SelectedFrom(allHouses', allVillas')
  BY <1>1, <1>2, <1>4
<1>7. RegionIsKept'
  BY <1>1, <1>3, <1>4 DEF RegionIsKept, InRegion
<1>8. ("houses" \in loads => selectedRegion = AllRegions)'
  BY <1>1 DEF HomeInv
<1> QED BY <1>5, <1>6, <1>7, <1>8 DEF SelectedFrom

LEMMA filtrDataKeeps ==
  ASSUME HomeInv, NEW min, NEW max, NEW f, filtrData(min, max, f)
  PROVE  TypeOK' /\ SelectedFrom(allHouses, allVillas)' /\ RegionIsKept' /\ ("houses" \in loads => selectedRegion = AllRegions)'
<1>1. /\ allHouses' = filtrHouses(min, max, f, selectedRegion) /\ top' = "home"
      /\ stopsDue' = stopsDue + 1
      /\ UNCHANGED <<allVillas, selectedRegion, searchText, searchDue, priceInterval, isConfigured, loads, lists>>
  BY DEF filtrData, choiceVars
<1> DEFINE left == filtrHouses(min, max, f, selectedRegion)
<1>2. left \in Seq(House) /\ SelectedFrom(left, allVillas)
  BY ListsAreSelected DEF HomeInv, TypeOK
<1>3. selectedRegion # AllRegions => InRegion(left, selectedRegion)
  BY ListsAreOfTheRegion DEF HomeInv, TypeOK
<1> HIDE DEF left
<1>4. allHouses' = left
  BY <1>1 DEF left
<1>5. overlays' \in Nat /\ stopsDue' \in 0..1
  <2>1. OneAtATime'
    BY filtrDataInTurn DEF HomeInv
  <2> QED BY <2>1 DEF OneAtATime
<1>6. TypeOK'
  <2>1. searchDue' \in BOOLEAN /\ isConfigured' \in BOOLEAN
    BY <1>1, Zenon DEF HomeInv, TypeOK
  <2>2. allVillas' \in Seq(House) /\ allHouses' \in Seq(House)
    BY <1>1, <1>2, <1>4 DEF HomeInv, TypeOK
  <2>3. /\ selectedRegion' \in Region /\ searchText' \in Text /\ lists' \in Nat
        /\ priceInterval' \in [min : Nat, max : Nat] /\ loads' \subseteq {"houses", "detail"}
    BY <1>1 DEF HomeInv, TypeOK
  <2>4. top' \in {"home", "filter", "detail"}
    BY <1>1
  <2> QED BY <1>5, <2>1, <2>2, <2>3, <2>4, Zenon DEF TypeOK
<1>7. SelectedFrom(allHouses', allVillas')
  BY <1>1, <1>2, <1>4
<1>8. RegionIsKept'
  BY <1>1, <1>3, <1>4 DEF RegionIsKept, InRegion
<1>9. ("houses" \in loads => selectedRegion = AllRegions)'
  BY <1>1 DEF HomeInv
<1> QED BY <1>6, <1>7, <1>8, <1>9 DEF SelectedFrom

(* A handler that leaves the lists and the region, or has a search due for *)
(* what is typed.                                                          *)
LEMMA OthersKeep ==
  ASSUME HomeInv, OneAtATime',
         UNCHANGED <<allVillas, allHouses, selectedRegion, lists>>,
         UNCHANGED <<searchText, searchDue>> \/ (searchDue' = TRUE /\ searchText' \in Text),
         "houses" \in loads' => "houses" \in loads,
         priceInterval' \in Interval,
         top' \in {"home", "filter", "detail"}
  PROVE  HomeInv'
<1>1. TypeOK'
  <2>1. searchDue' \in BOOLEAN /\ isConfigured' \in BOOLEAN
    BY Zenon DEF HomeInv, TypeOK, OneAtATime
  <2>2. /\ allVillas' \in Seq(House) /\ allHouses' \in Seq(House)
        /\ selectedRegion' \in Region /\ lists' \in Nat
    BY DEF HomeInv, TypeOK
  <2>3. searchText' \in Text
    BY DEF HomeInv, TypeOK
  <2>4. overlays' \in Nat /\ loads' \subseteq {"houses", "detail"} /\ stopsDue' \in 0..1
    BY DEF OneAtATime
  <2> QED BY <2>1, <2>2, <2>3, <2>4, Zenon DEF TypeOK, Interval
<1>2. SelectedFrom(allHouses', allVillas')
  BY DEF HomeInv
<1>3. RegionIsKept'
  BY DEF HomeInv, RegionIsKept
<1>4. ("houses" \in loads => selectedRegion = AllRegions)'
  BY DEF HomeInv
<1> QED BY <1>1, <1>2, <1>3, <1>4 DEF HomeInv, SelectedFrom

LEMMA HomeInvNext == HomeInv /\ [Next]_vars => HomeInv'
<1> SUFFICES ASSUME HomeInv, [Next]_vars
             PROVE  HomeInv'
  OBVIOUS
<1>0. OneAtATime' /\ priceInterval \in Interval /\ top \in {"home", "filter", "detail"}
  BY OneAtATimeNext DEF HomeInv, TypeOK, Interval
<1>1. CASE HousesArrive
  BY <1>0, <1>1, HousesArriveKeeps DEF HomeInv
<1>2. ASSUME NEW load \in {"houses", "detail"}, LoadFails(load)
      PROVE  HomeInv'
  BY <1>0, <1>2, OthersKeep DEF LoadFails, choiceVars
<1>3. ASSUME NEW region \in Region, CategorySelected(region)
      PROVE  HomeInv'
  BY <1>0, <1>3, CategorySelectedKeeps DEF HomeInv
<1>4. ASSUME NEW text \in Text, TextChanged(text)
      PROVE  HomeInv'
  BY <1>0, <1>4, OthersKeep DEF TextChanged
<1>5. CASE serchByName
  BY <1>0, <1>5, serchByNameKeeps DEF HomeInv
<1>6. CASE FilterOpened
  <2>1. priceInterval' \in Interval
    BY <1>0, <1>6, findPriceIntervalProperties DEF FilterOpened, HomeInv, TypeOK
  <2>2. /\ UNCHANGED <<allVillas, allHouses, selectedRegion, lists, searchText, searchDue, loads>>
        /\ top' = "filter"
    BY <1>6 DEF FilterOpened, choiceVars
  <2> QED BY <1>0, <2>1, <2>2, OthersKeep
<1>7. CASE FilterDismissed
  BY <1>0, <1>7, OthersKeep DEF FilterDismissed, choiceVars
<1>8. ASSUME NEW min \in Price, NEW max \in Price, NEW f \in Filter, filtrData(min, max, f)
      PROVE  HomeInv'
  BY <1>0, <1>8, filtrDataKeeps DEF HomeInv
<1>9. CASE DelayedStop
  BY <1>0, <1>9, OthersKeep DEF DelayedStop, choiceVars
<1>10. CASE HouseOpened
  BY <1>0, <1>10, OthersKeep DEF HouseOpened, choiceVars
<1>11. CASE DetailArrives
  BY <1>0, <1>11, OthersKeep DEF DetailArrives, choiceVars
<1>12. CASE BackFromHouse
  BY <1>0, <1>12, OthersKeep DEF BackFromHouse, HomeWillAppear, choiceVars, HomeInv, OneAtATime
<1>13. CASE UNCHANGED vars
  BY <1>0, <1>13, OthersKeep DEF vars, choiceVars
<1> QED
  BY <1>1, <1>2, <1>3, <1>4, <1>5, <1>6, <1>7, <1>8, <1>9, <1>10, <1>11, <1>12, <1>13 DEF Next

LEMMA HomeInvAlways == Spec => []HomeInv
  BY HomeInvInit, HomeInvNext, PTL DEF Spec

(* The home screen keeps its types: the prices its filter starts from stay *)
(* two natural numbers, whatever list they were found in, and never more   *)
(* than one Loader.stop is scheduled.                                      *)
THEOREM TypeCorrect == Spec => []TypeOK
<1>1. HomeInv => TypeOK
  BY DEF HomeInv
<1> QED BY <1>1, HomeInvAlways, PTL

(* However searches, taps and filters follow each other, what is shown is  *)
(* selected from the houses the server delivered, in their order.          *)
THEOREM ShownStayDelivered == Spec => []ShownAreDelivered
<1>1. HomeInv => ShownAreDelivered
  BY DEF HomeInv, SelectedFrom, ShownAreDelivered
<1> QED BY <1>1, HomeInvAlways, PTL

(* The region that was tapped holds for every search by a word and every   *)
(* filter after it (HousesSortingManager.swift, HomeVC.swift).             *)
THEOREM RegionStays == Spec => []RegionIsKept
<1>1. HomeInv => RegionIsKept
  BY DEF HomeInv
<1> QED BY <1>1, HomeInvAlways, PTL

LEMMA SliderNext ==
  ASSUME HomeInv, [Next]_vars
  PROVE  [top = "home" /\ top' = "filter" /\ allHouses # <<>> =>
           /\ priceInterval'.min = Min({priceForWorkingDays[h] : h \in ToSet(allHouses)})
           /\ priceInterval'.max \in {priceForWeekends[h] : h \in ToSet(allHouses)}]_vars
<1>1. CASE FilterOpened
  <2>1. ASSUME allHouses # <<>>
        PROVE  /\ priceInterval'.min = Min({priceForWorkingDays[h] : h \in ToSet(allHouses)})
               /\ priceInterval'.max \in {priceForWeekends[h] : h \in ToSet(allHouses)}
    <3>1. priceInterval' = findPriceInterval(allHouses) /\ allHouses \in Seq(House)
      BY <1>1, <2>1 DEF FilterOpened, HomeInv, TypeOK
    <3> QED BY <2>1, <3>1, findPriceIntervalProperties
  <2> QED BY <2>1
<1>2. CASE ~FilterOpened
  <2>1. top' = "filter" => top = "filter"
    BY <1>2 DEF Next, HousesArrive, LoadFails, CategorySelected, TextChanged, serchByName,
      FilterDismissed, filtrData, DelayedStop, HouseOpened, DetailArrives, BackFromHouse, vars
  <2> QED BY <2>1
<1> QED BY <1>1, <1>2

(* The slider of the filter starts at the lowest price shown and at a      *)
(* highest price that is shown, for lists of any length.                   *)
THEOREM SliderStarts == Spec => SliderStartsAtThePrices
  BY SliderNext, HomeInvAlways, PTL DEF Spec, SliderStartsAtThePrices

-----------------------------------------------------------------------------
(* The home screen is in front with its houses, and takes no touch.        *)
HomeCovered == top = "home" /\ allVillas # <<>> /\ ~Touchable

(* It is so only while a Loader.stop is scheduled, and stays so, with that *)
(* Loader.stop still to come, until all overlays go.  What is typed, or    *)
(* searched, or fails meanwhile delays nothing and leaves no overlay.      *)
OnlyAFilterCovers ==
  /\ [](HomeCovered => stopsDue > 0)
  /\ [][HomeCovered => Touchable' \/ (HomeCovered' /\ stopsDue' = stopsDue)]_vars

(* A house is asked for as its screen comes, which then takes no touch     *)
(* before the answer: so an overlay left by a failure is never over the    *)
(* home screen.                                                            *)
HouseLoadsInFront ==
  /\ OneAtATime
  /\ "detail" \in loads => top = "detail"
  /\ HomeCovered => stopsDue > 0

LEMMA HouseLoadsInFrontNext ==
  ASSUME HouseLoadsInFront, [Next]_vars
  PROVE  HouseLoadsInFront'
<1> USE DEF HouseLoadsInFront, HomeCovered
<1>0. OneAtATime'
  BY OneAtATimeNext
<1>1. CASE HousesArrive
  BY <1>0, <1>1 DEF OneAtATime, HousesArrive, LoaderStop, Touchable
<1>2. ASSUME NEW load \in {"houses", "detail"}, LoadFails(load)
      PROVE  HouseLoadsInFront'
  BY <1>0, <1>2 DEF OneAtATime, LoadFails, Touchable
<1>3. CASE \/ \E region \in Region : CategorySelected(region)
           \/ \E text \in Text : TextChanged(text)
           \/ serchByName
  BY <1>0, <1>3 DEF CategorySelected, TextChanged, serchByName, Touched, Touchable
<1>4. CASE FilterOpened \/ FilterDismissed \/ HouseOpened \/ BackFromHouse
  BY <1>0, <1>4 DEF OneAtATime, FilterOpened, FilterDismissed, HouseOpened, BackFromHouse, HomeWillAppear, Touched, Touchable
<1>5. ASSUME NEW min, NEW max, NEW f, filtrData(min, max, f)
      PROVE  HouseLoadsInFront'
  BY <1>0, <1>5 DEF OneAtATime, filtrData, Touched, Touchable
<1>6. CASE DelayedStop \/ DetailArrives
  BY <1>0, <1>6 DEF DelayedStop, DetailArrives, LoaderStop, Touchable
<1>7. CASE UNCHANGED vars
  BY <1>0, <1>7 DEF vars, Touchable
<1> QED BY <1>1, <1>2, <1>3, <1>4, <1>5, <1>6, <1>7 DEF Next

(* The same with any prices and any choice, as the sheet hands them over.  *)
LEMMA HouseLoadsInFrontFiltr ==
  ASSUME HouseLoadsInFront, NEW min, NEW max, NEW f, filtrData(min, max, f)
  PROVE  HouseLoadsInFront' /\ ~HomeCovered
  BY filtrDataInTurn DEF HouseLoadsInFront, HomeCovered, OneAtATime, filtrData, Touched, Touchable

LEMMA CoveredNext ==
  ASSUME HouseLoadsInFront, [Next]_vars, HomeCovered
  PROVE  Touchable' \/ (HomeCovered' /\ stopsDue' = stopsDue)
<1> USE DEF HomeCovered
<1>1. CASE HousesArrive \/ DelayedStop \/ DetailArrives
  BY <1>1 DEF HousesArrive, DelayedStop, DetailArrives, LoaderStop, Touchable
<1>2. CASE \/ \E load \in {"houses", "detail"} : LoadFails(load)
           \/ \E text \in Text : TextChanged(text)
           \/ serchByName
           \/ UNCHANGED vars
  BY <1>2 DEF LoadFails, TextChanged, serchByName, vars, Touchable
<1>3. CASE \/ \E region \in Region : CategorySelected(region)
           \/ FilterOpened \/ FilterDismissed \/ HouseOpened \/ BackFromHouse
           \/ \E min, max \in Price, f \in Filter : filtrData(min, max, f)
  BY <1>3 DEF CategorySelected, FilterOpened, FilterDismissed, HouseOpened, BackFromHouse, filtrData, Touched
<1> QED BY <1>1, <1>2, <1>3 DEF Next

(* The safety of the second that a filter takes (HomeVC.swift:286-292):    *)
(* with the fairness of DelayedStop it gives FilterLifts.                  *)
THEOREM HomeIsCoveredByFilters == Spec => OnlyAFilterCovers
<1>1. Init => HouseLoadsInFront
  BY OneAtATimeInit DEF Init, HouseLoadsInFront, HomeCovered
<1>2. HouseLoadsInFront /\ [Next]_vars => HouseLoadsInFront'
  BY HouseLoadsInFrontNext
<1>3. HouseLoadsInFront /\ [Next]_vars =>
        [HomeCovered => Touchable' \/ (HomeCovered' /\ stopsDue' = stopsDue)]_vars
  BY CoveredNext
<1>4. HouseLoadsInFront => (HomeCovered => stopsDue > 0)
  BY DEF HouseLoadsInFront
<1> QED BY <1>1, <1>2, <1>3, <1>4, PTL DEF Spec, OnlyAFilterCovers

-----------------------------------------------------------------------------
(* What the home screen has been given, as ListOnce sees it.               *)
given == IF allVillas = <<>> THEN <<>> ELSE <<allVillas>>

GivenOnce == INSTANCE ListOnce WITH Products <- House, delivered <- given

(* A list that HousesArrive takes is one that a load may hand over.        *)
LEMMA ListIsGiven ==
  ASSUME NEW S \in SUBSET House, S # {}, NEW list \in SetToSeqs(S)
  PROVE  list # <<>> /\ list \in GivenOnce!Lists
<1> DEFINE n == Cardinality(S)
<1>1. /\ n \in Nat \ {0} /\ Cardinality(House) \in Nat
      /\ n <= Cardinality(House)
  <2>1. IsFiniteSet(S) /\ n <= Cardinality(House)
    BY HomeAssumption, FS_Subset
  <2> QED BY <2>1, HomeAssumption, FS_CardinalityType, FS_EmptySet
<1>2. list \in [1..n -> S] /\ \A i, j \in 1..n : i # j => list[i] # list[j]
  BY DEF SetToSeqs
<1> HIDE DEF n
<1>3. list \in [1..n -> House] /\ n \in 0..Cardinality(House)
  BY <1>1, <1>2
<1>4. list # <<>>
  <2>1. 1 \in DOMAIN list
    BY <1>1, <1>2
  <2>2. DOMAIN <<>> = {}
    OBVIOUS
  <2> QED BY <2>1, <2>2
<1>5. GivenOnce!Cardinality(House) = Cardinality(House)
  BY DEF Cardinality, GivenOnce!Cardinality
<1>6. list \in GivenOnce!SeqOf(House, Cardinality(House))
  BY <1>3 DEF GivenOnce!SeqOf
<1>7. GivenOnce!IsInjective(list)
  BY <1>2 DEF GivenOnce!IsInjective
<1> QED BY <1>4, <1>5, <1>6, <1>7 DEF GivenOnce!Lists

LEMMA GivenNext ==
  ASSUME OneAtATime, [Next]_vars
  PROVE  [GivenOnce!Next]_given
<1>1. CASE HousesArrive
  <2>1. PICK S \in (SUBSET House) \ {{}} : \E list \in SetToSeqs(S) : setHouses(list)
    BY <1>1 DEF HousesArrive
  <2>2. PICK list \in SetToSeqs(S) : setHouses(list)
    BY <2>1
  <2>3. list # <<>> /\ list \in GivenOnce!Lists
    BY ListIsGiven
  <2>4. given = <<>> /\ given' = <<list>>
    BY <1>1, <2>2, <2>3 DEF OneAtATime, HousesArrive, setHouses, given
  <2> QED BY <2>3, <2>4 DEF GivenOnce!Next, GivenOnce!Deliver
<1>2. CASE ~HousesArrive
  <2>1. allVillas' = allVillas
    BY <1>2 DEF Next, LoadFails, CategorySelected, TextChanged, serchByName, FilterOpened,
      FilterDismissed, filtrData, DelayedStop, HouseOpened, DetailArrives, BackFromHouse, vars
  <2> QED BY <2>1 DEF given
<1> QED BY <1>1, <1>2

(* The home screen implements ListOnce, which the load of its houses does  *)
(* too: what it searches and filters is the one list of that load, with no *)
(* house twice, whatever becomes of the list that is shown.                *)
THEOREM HomeIsGivenOnce == Spec => GivenOnce!Spec
<1>1. Init => GivenOnce!Init
  BY DEF Init, given, GivenOnce!Init
<1>2. OneAtATime /\ [Next]_vars => [GivenOnce!Next]_given
  BY GivenNext
<1> QED BY <1>1, <1>2, OneAtATimeAlways, PTL DEF Spec, GivenOnce!Spec

=============================================================================
