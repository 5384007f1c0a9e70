------------------------------- MODULE ListLemmas -------------------------------
(***************************************************************************)
(* What the operations on arrays that several of the modules are built     *)
(* from return, for any sequence over any set; and, for the functions      *)
(* defined by recursion over the length of an array, induction up to a     *)
(* number and the existence of such a function.                            *)
(***************************************************************************)
EXTENDS Integers, SequencesExt, FiniteSetTheorems, SequenceTheorems, WellFoundedInduction, TLAPS

(* A set of natural numbers that has an element has a least one.           *)
LEMMA LeastElement ==
  ASSUME NEW T, T \subseteq Nat, T # {}
  PROVE  \E n \in T : \A m \in T : n <= m
<1>1. PICK n \in T : \A m \in T : ~ (<<m, n>> \in OpToRel(<, Nat))
  BY NatLessThanWellFounded, WFMin, Zenon
<1>2. \A m \in T : ~(m < n)
  BY <1>1 DEF OpToRel
<1> QED BY <1>2

(* What holds of 0, and of each number up to N if of the one before it,    *)
(* holds of all of them.                                                   *)
LEMMA UpToInduction ==
  ASSUME NEW N \in Nat, NEW T, 0 \in T, \A n \in 1..N : n - 1 \in T => n \in T
  PROVE  \A n \in 0..N : n \in T
<1> DEFINE Bad == {n \in 0..N : n \notin T}
<1> SUFFICES ASSUME Bad # {} PROVE FALSE
  OBVIOUS
<1>1. PICK n \in Bad : \A m \in Bad : n <= m
  <2>1. Bad \subseteq Nat
    OBVIOUS
  <2> HIDE DEF Bad
  <2> QED BY <2>1, LeastElement
<1>2. n \in 1..N /\ n \notin T
  OBVIOUS
<1>3. n - 1 \in 0..N /\ n - 1 \notin Bad
  <2> HIDE DEF Bad
  <2> QED BY <1>1, <1>2
<1> QED BY <1>2, <1>3

(* f gives each number up to N a value of V, from the value for 0 and from *)
(* how each value follows from the one before it.                          *)
FollowsFrom(f, N, V, first, step) ==
  /\ f \in [0..N -> V]
  /\ f[0] = first
  /\ \A n \in 1..N : f[n] = step[n][f[n - 1]]

(* There is such a function.                                               *)
LEMMA UpToRecursion ==
  ASSUME NEW N \in Nat, NEW V, NEW first \in V, NEW step \in [1..N -> [V -> V]]
  PROVE  \E f : FollowsFrom(f, N, V, first, step)
<1> DEFINE Right(n, f) == f[0] = first /\ \A i \in 1..n : f[i] = step[i][f[i - 1]]
           T == {n \in 0..N : \E f \in [0..n -> V] : Right(n, f)}
<1>1. 0 \in T
  <2>1. [i \in 0..0 |-> first] \in [0..0 -> V] /\ Right(0, [i \in 0..0 |-> first])
    OBVIOUS
  <2> HIDE DEF Right
  <2>2. 0 \in 0..N
    OBVIOUS
  <2> QED BY <2>1, <2>2, Zenon
<1>2. ASSUME NEW n \in 1..N, n - 1 \in T PROVE n \in T
  <2>1. PICK f \in [0..(n - 1) -> V] : Right(n - 1, f)
    BY <1>2
  <2> DEFINE g == [i \in 0..n |-> IF i < n THEN f[i] ELSE step[n][f[n - 1]]]
  <2>2. step[n][f[n - 1]] \in V
    BY <2>1
  <2>3. g \in [0..n -> V]
    BY <2>2
  <2>4. g[n] = step[n][f[n - 1]] /\ \A i \in 0..(n - 1) : g[i] = f[i]
    OBVIOUS
  <2> HIDE DEF g
  <2>5. g[0] = first
    BY <2>1, <2>4
  <2>6. ASSUME NEW i \in 1..n PROVE g[i] = step[i][g[i - 1]]
    <3>1. i - 1 \in 0..(n - 1)
      OBVIOUS
    <3>2. CASE i = n
      BY <2>4, <3>1, <3>2
    <3>3. CASE i # n
      <4>1. i \in 1..(n - 1) /\ i \in 0..(n - 1)
        BY <3>3
      <4> QED BY <2>1, <2>4, <3>1, <4>1
    <3> QED BY <3>2, <3>3
  <2> QED BY <2>3, <2>5, <2>6
<1> HIDE DEF T
<1>3. N \in T
  <2>1. \A n \in 0..N : n \in T
    BY <1>1, <1>2, UpToInduction
  <2>2. N \in 0..N
    OBVIOUS
  <2> QED BY <2>1, <2>2
<1> QED BY <1>3 DEF T, FollowsFrom

(* RemoveAt takes one element out and moves the later ones one place down. *)
LEMMA RemoveAtProperties ==
  ASSUME NEW S, NEW s \in Seq(S), NEW i \in 1..Len(s)
  PROVE  /\ RemoveAt(s, i) \in Seq(S)
         /\ Len(RemoveAt(s, i)) = Len(s) - 1
         /\ \A j \in 1..(Len(s) - 1) :
              RemoveAt(s, i)[j] = IF j < i THEN s[j] ELSE s[j + 1]
<1> DEFINE a == SubSeq(s, 1, i - 1)
           b == SubSeq(s, i + 1, Len(s))
<1>1. /\ a \in Seq(S)
      /\ Len(a) = i - 1
      /\ \A j \in 1..(i - 1) : a[j] = s[j]
  <2>1. \A j \in 1..(i - 1) : s[j] \in S
    OBVIOUS
  <2> QED BY <2>1, SubSeqProperties
<1>2. /\ b \in Seq(S)
      /\ Len(b) = Len(s) - i
      /\ \A j \in 1..(Len(s) - i) : b[j] = s[i + j]
  <2>1. \A j \in (i + 1)..Len(s) : s[j] \in S
    OBVIOUS
  <2> QED BY <2>1, SubSeqProperties
<1>3. RemoveAt(s, i) = a \o b
  BY DEF RemoveAt
<1> HIDE DEF a, b
<1>4. /\ a \o b \in Seq(S)
      /\ Len(a \o b) = Len(a) + Len(b)
      /\ \A j \in 1..(Len(a) + Len(b)) :
           (a \o b)[j] = IF j <= Len(a) THEN a[j] ELSE b[j - Len(a)]
  BY <1>1, <1>2, ConcatProperties
<1>5. ASSUME NEW j \in 1..(Len(s) - 1)
      PROVE  (a \o b)[j] = IF j < i THEN s[j] ELSE s[j + 1]
  <2>1. j \in 1..(Len(a) + Len(b))
    BY <1>1, <1>2
  <2>2. CASE j < i
    BY <1>1, <1>4, <2>1, <2>2
  <2>3. CASE ~(j < i)
    <3>1. j - Len(a) \in 1..(Len(s) - i) /\ i + (j - Len(a)) = j + 1
      BY <1>1, <2>3
    <3>2. (a \o b)[j] = b[j - Len(a)]
      <4>1. ~(j <= Len(a))
        BY <1>1, <2>3
      <4> QED BY <1>4, <2>1, <4>1
    <3>3. b[j - Len(a)] = s[i + (j - Len(a))]
      BY <1>2, <3>1
    <3> QED BY <2>3, <3>1, <3>2, <3>3
  <2> QED BY <2>2, <2>3
<1> QED BY <1>1, <1>2, <1>3, <1>4, <1>5

(* Without repetitions, removing the first occurrence of an element is     *)
(* removing at the index where it stands.                                  *)
LEMMA RemoveFirstIsRemoveAt ==
  ASSUME NEW S, NEW s \in Seq(S), NEW x, Contains(s, x), IsInjective(s)
  PROVE  \E i \in 1..Len(s) : s[i] = x /\ RemoveFirst(s, x) = RemoveAt(s, i)
<1>1. PICK i \in 1..Len(s) : s[i] = x
  BY DEF Contains
<1>2. {j \in 1..Len(s) : s[j] = x} = {i}
  BY <1>1 DEF IsInjective
<1>3. Min({i}) = i
  BY DEF Min
<1>4. SelectInSeq(s, LAMBDA y : y = x) = i
  BY <1>2, <1>3 DEF SelectInSeq
<1> QED BY <1>1, <1>4 DEF RemoveFirst

(* Removing an element brings no repetition into an array without any.     *)
LEMMA RemoveAtInjective ==
  ASSUME NEW S, NEW s \in Seq(S), NEW i \in 1..Len(s), IsInjective(s)
  PROVE  IsInjective(RemoveAt(s, i))
<1> DEFINE t == RemoveAt(s, i)
<1>1. /\ t \in Seq(S)
      /\ Len(t) = Len(s) - 1
      /\ \A j \in 1..(Len(s) - 1) : t[j] = IF j < i THEN s[j] ELSE s[j + 1]
  BY RemoveAtProperties
<1> HIDE DEF t
<1>2. \A j, k \in 1..Len(s) : s[j] = s[k] => j = k
  BY DEF IsInjective
<1>3. ASSUME NEW j \in DOMAIN t, NEW k \in DOMAIN t, t[j] = t[k]
      PROVE  j = k
  <2>1. j \in 1..(Len(s) - 1) /\ k \in 1..(Len(s) - 1)
    BY <1>1
  <2> QED BY <1>1, <1>2, <1>3, <2>1
<1> QED BY <1>3 DEF IsInjective, t

(* What is left after the first n elements is an array without             *)
(* repetitions, if the whole is.                                           *)
LEMMA SubSeqInjective ==
  ASSUME NEW S, NEW s \in Seq(S), NEW n \in 0..Len(s), IsInjective(s)
  PROVE  /\ SubSeq(s, n + 1, Len(s)) \in Seq(S)
         /\ IsInjective(SubSeq(s, n + 1, Len(s)))
<1> DEFINE t == SubSeq(s, n + 1, Len(s))
<1>1. /\ t \in Seq(S)
      /\ Len(t) = Len(s) - n
      /\ \A j \in 1..(Len(s) - n) : t[j] = s[n + j]
  <2>1. \A j \in (n + 1)..Len(s) : s[j] \in S
    OBVIOUS
  <2> QED BY <2>1, SubSeqProperties
<1> HIDE DEF t
<1>2. \A j, k \in 1..Len(s) : s[j] = s[k] => j = k
  BY DEF IsInjective
<1>3. ASSUME NEW j \in DOMAIN t, NEW k \in DOMAIN t, t[j] = t[k]
      PROVE  j = k
  <2>1. j \in 1..(Len(s) - n) /\ k \in 1..(Len(s) - n)
    BY <1>1
  <2> QED BY <1>1, <1>2, <1>3, <2>1
<1>4. IsInjective(t)
  BY <1>3 DEF IsInjective
<1> QED BY <1>1, <1>4 DEF t

(* Removing an element, or the first n, leaves only elements of the array. *)
LEMMA RemovedToSet ==
  ASSUME NEW S, NEW s \in Seq(S)
  PROVE  /\ \A i \in 1..Len(s) : ToSet(RemoveAt(s, i)) \subseteq ToSet(s)
         /\ \A n \in 0..Len(s) : ToSet(SubSeq(s, n + 1, Len(s))) \subseteq ToSet(s)
<1>1. ASSUME NEW i \in 1..Len(s), NEW x \in ToSet(RemoveAt(s, i))
      PROVE  x \in ToSet(s)
  <2> DEFINE t == RemoveAt(s, i)
  <2>1. /\ t \in Seq(S)
        /\ Len(t) = Len(s) - 1
        /\ \A j \in 1..(Len(s) - 1) : t[j] = IF j < i THEN s[j] ELSE s[j + 1]
    BY RemoveAtProperties
  <2>0. x \in ToSet(t)
    BY <1>1
  <2> HIDE DEF t
  <2>2. PICK j \in 1..(Len(s) - 1) : x = t[j]
    BY <2>1, <2>0 DEF ToSet
  <2>3. x = s[j] \/ x = s[j + 1]
    BY <2>1, <2>2
  <2> QED BY <2>2, <2>3 DEF ToSet
<1>2. ASSUME NEW n \in 0..Len(s), NEW x \in ToSet(SubSeq(s, n + 1, Len(s)))
      PROVE  x \in ToSet(s)
  <2> DEFINE t == SubSeq(s, n + 1, Len(s))
  <2>1. /\ t \in Seq(S)
        /\ Len(t) = Len(s) - n
        /\ \A j \in 1..(Len(s) - n) : t[j] = s[n + j]
    <3>1. \A j \in (n + 1)..Len(s) : s[j] \in S
      OBVIOUS
    <3> QED BY <3>1, SubSeqProperties
  <2>0. x \in ToSet(t)
    BY <1>2
  <2> HIDE DEF t
  <2>2. PICK j \in 1..(Len(s) - n) : x = t[j]
    BY <2>1, <2>0 DEF ToSet
  <2>3. x = s[n + j] /\ n + j \in 1..Len(s)
    BY <2>1, <2>2
  <2> QED BY <2>3 DEF ToSet
<1> QED BY <1>1, <1>2

(* An array without repetitions, all of whose elements another array has,  *)
(* is no longer than that one.                                             *)
LEMMA ContainedIsNoLonger ==
  ASSUME NEW S, NEW s \in Seq(S), NEW T, NEW t \in Seq(T), IsInjective(s),
         \A i \in 1..Len(s) : Contains(t, s[i])
  PROVE  Len(s) <= Len(t)
<1> DEFINE place(i) == CHOOSE j \in 1..Len(t) : t[j] = s[i]
           f == [i \in 1..Len(s) |-> place(i)]
<1>1. \A i \in 1..Len(s) : f[i] \in 1..Len(t) /\ t[f[i]] = s[i]
  BY DEF Contains
<1>2. f \in [1..Len(s) -> 1..Len(t)]
  BY <1>1
<1> HIDE DEF f
<1>3. \A i, j \in 1..Len(s) : s[i] = s[j] => i = j
  BY DEF IsInjective
<1>4. f \in Injection(1..Len(s), 1..Len(t))
  <2>1. \A i, j \in 1..Len(s) : f[i] = f[j] => i = j
    BY <1>1, <1>3, Zenon
  <2>2. IsInjective(f)
    BY <1>2, <2>1 DEF IsInjective
  <2> QED BY <1>2, <2>2 DEF Injection
<1>5. \A n \in Nat : IsFiniteSet(1..n) /\ Cardinality(1..n) = n
  <2> SUFFICES ASSUME NEW n \in Nat PROVE IsFiniteSet(1..n) /\ Cardinality(1..n) = n
    OBVIOUS
  <2>1. IsFiniteSet(1..n) /\ Cardinality(1..n) = IF 1 > n THEN 0 ELSE n - 1 + 1
    BY FS_Interval
  <2> QED BY <2>1
<1>6. Len(s) \in Nat /\ Len(t) \in Nat
  OBVIOUS
<1>7. Cardinality(1..Len(s)) <= Cardinality(1..Len(t))
  BY <1>4, <1>5, <1>6, FS_Injection
<1> QED BY <1>5, <1>6, <1>7

=============================================================================
