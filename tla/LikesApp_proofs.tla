--------------------------- MODULE LikesApp_proofs ---------------------------
(***************************************************************************)
(* Proofs about LikesApp for any products and any screens.                 *)
(***************************************************************************)
EXTENDS LikesApp, ListLemmas

USE DEF Kind, LikedId

(* How the screens stand to each other: the map is pushed on the home tab, *)
(* the sheet lies on an open map that nothing covers, it always does once  *)
(* the map has its houses, and the prices the map holds are those of the   *)
(* house on it.                                                            *)
MapOrder ==
  /\ mapOpen => tab = "home"
  /\ "map" \in pending => mapOpen /\ detail.kind = "none" /\ mapHouses = <<>>
  /\ sheetUp => mapOpen /\ detail.kind = "none"
  /\ sheetUp \/ (mapOpen /\ detail.kind # "none") => mapHouses # <<>>
  /\ mapOpen /\ detail.kind = "none" /\ mapHouses # <<>> => sheetExists /\ sheetUp
  /\ PriceIsOfTheSheet

(* The arrays of likes the screens keep are free of repetitions.           *)
CopiesAreSets ==
  /\ \A k \in Kind : IsInjective(userDef[k]) /\ IsInjective(likedIDs[k])
  /\ \A k \in Kind : IsInjective(wlIDs[k])
  /\ IsInjective(sheetLiked)

Inv == TypeOK /\ MapOrder /\ CopiesAreSets

(* Every copy of an array of likes that the next press may write back is   *)
(* the stored array, and the hearts on display are drawn after it.  This   *)
(* holds under an overlay too, where no press can come.                    *)
Fresh ==
  /\ sheetUp => sheetLiked = userDef["house"]
  /\ detail.kind # "none" /\ detail.loaded =>
       /\ likedIDs[detail.kind] = userDef[detail.kind]
       /\ detail.heart <=> Contains(userDef[detail.kind], detail.id)
  /\ tab = "children" /\ listed["party"] # {} => likedIDs["party"] = userDef["party"]
  /\ tab = "children" /\ detail.kind = "none" =>
       \A p \in listed["party"] : partyHeart[p] <=> Contains(userDef["party"], p)

(* The wishlist's copy of the arrays, which a deletion stores, is the      *)
(* stored arrays whenever the wishlist is in front.                        *)
WishlistFresh == tab = "liked" /\ detail.kind = "none" => wlIDs = userDef

\* Is the wishlist waiting for the products of kind k?  As a number.
open(k) == IF wishlistLoad[k] \in pending THEN 1 ELSE 0

(* Who waits under an overlay: only the map loads without one; the timer   *)
(* of the wishlist runs exactly while its loads do, if any does, and no    *)
(* two screens wait at once; each of the three services answers once, and  *)
(* not before the wishlist is opened.                                      *)
BusyOrder ==
  /\ wlTimer \/ pending \ {"map"} # {} => ~Touchable
  /\ \A load \in pending \ {"map"} : wlTimer <=> \E k \in Kind : load = wishlistLoad[k]
  /\ ~wlTimer => \A load, other \in pending \ {"map"} : load = other
  /\ wlResponded + open("house") + open("taxi") + open("party") <= 3
  /\ "liked" \notin opened => wlResponded = 0 /\ ~wlTimer

(* The rows lag behind the list only while the timer runs, and no list of  *)
(* liked products is longer than the array they were selected by.          *)
RowsInStep ==
  /\ wlTimer \/ wlRows = wlShown[wlCategory]
  /\ \A k \in Kind : IsInjective(wlAll[k]) /\ Len(wlShown[k]) <= Len(wlIDs[k])

-----------------------------------------------------------------------------
(* repetitions.                                                            *)
LEMMA removeOrAddProperties ==
  ASSUME NEW S, NEW s \in Seq(S), NEW x \in S, IsInjective(s)
  PROVE  removeOrAdd(s, x) \in Seq(S) /\ IsInjective(removeOrAdd(s, x))
<1>1. CASE Contains(s, x)
  <2>1. PICK i \in 1..Len(s) : RemoveFirst(s, x) = RemoveAt(s, i)
    BY <1>1, RemoveFirstIsRemoveAt
  <2> QED BY <1>1, <2>1, RemoveAtProperties, RemoveAtInjective DEF removeOrAdd
<1>2. CASE ~Contains(s, x)
  <2> DEFINE t == Append(s, x)
  <2>1. /\ t \in Seq(S)
        /\ Len(t) = Len(s) + 1
        /\ \A i \in 1..Len(s) : t[i] = s[i]
        /\ t[Len(s) + 1] = x
    BY AppendProperties
  <2> HIDE DEF t
  <2>2. \A i \in 1..Len(s) : s[i] # x
    BY <1>2 DEF Contains
  <2>3. \A j, k \in 1..Len(s) : s[j] = s[k] => j = k
    BY DEF IsInjective
  <2>4. ASSUME NEW j \in DOMAIN t, NEW k \in DOMAIN t, t[j] = t[k]
        PROVE  j = k
    <3>1. j \in 1..(Len(s) + 1) /\ k \in 1..(Len(s) + 1)
      BY <2>1
    <3> QED BY <2>1, <2>2, <2>3, <2>4, <3>1
  <2>5. IsInjective(t)
    BY <2>4 DEF IsInjective
  <2> QED BY <1>2, <2>1, <2>5 DEF removeOrAdd, t
<1> QED BY <1>1, <1>2

(* The toggle changes whether the one id is liked, and no other.           *)
LEMMA removeOrAddContains ==
  ASSUME NEW S, NEW s \in Seq(S), NEW x \in S, IsInjective(s), NEW y
  PROVE  Contains(removeOrAdd(s, x), y) <=> IF y = x THEN ~Contains(s, x) ELSE Contains(s, y)
<1>1. CASE Contains(s, x)
  <2>1. PICK i \in 1..Len(s) : s[i] = x /\ RemoveFirst(s, x) = RemoveAt(s, i)
    BY <1>1, RemoveFirstIsRemoveAt
  <2> DEFINE t == RemoveAt(s, i)
  <2>2. /\ t \in Seq(S)
        /\ Len(t) = Len(s) - 1
        /\ \A j \in 1..(Len(s) - 1) : t[j] = IF j < i THEN s[j] ELSE s[j + 1]
    BY RemoveAtProperties
  <2>3. removeOrAdd(s, x) = t
    BY <1>1, <2>1 DEF removeOrAdd
  <2> HIDE DEF t
  <2>4. \A j, k \in 1..Len(s) : s[j] = s[k] => j = k
    BY DEF IsInjective
  <2>5. ~Contains(t, x)
    <3> SUFFICES ASSUME NEW j \in 1..(Len(s) - 1) PROVE t[j] # x
      BY <2>2 DEF Contains
    <3> QED BY <2>1, <2>2, <2>4
  <2>6. ASSUME y # x PROVE Contains(t, y) <=> Contains(s, y)
    <3>1. ASSUME NEW j \in 1..Len(t), t[j] = y PROVE Contains(s, y)
      <4>1. j \in 1..Len(s) /\ j + 1 \in 1..Len(s)
        BY <2>2
      <4> QED BY <2>2, <3>1, <4>1 DEF Contains
    <3>2. ASSUME NEW j \in 1..Len(s), s[j] = y PROVE Contains(t, y)
      <4>1. j # i
        BY <2>1, <2>6, <3>2
      <4>2. CASE j < i
        <5>1. j \in 1..(Len(s) - 1) /\ t[j] = s[j]
          BY <2>2, <4>2
        <5> QED BY <2>2, <3>2, <5>1 DEF Contains
      <4>3. CASE j > i
        <5>1. j - 1 \in 1..(Len(s) - 1) /\ t[j - 1] = s[j]
          BY <2>2, <4>3
        <5> QED BY <2>2, <3>2, <5>1 DEF Contains
      <4> QED BY <4>1, <4>2, <4>3
    <3> QED BY <3>1, <3>2 DEF Contains
  <2> QED BY <1>1, <2>3, <2>5, <2>6
<1>2. CASE ~Contains(s, x)
  <2> DEFINE t == Append(s, x)
  <2>1. /\ Len(t) = Len(s) + 1
        /\ \A i \in 1..Len(s) : t[i] = s[i]
        /\ t[Len(s) + 1] = x
    BY AppendProperties
  <2>2. removeOrAdd(s, x) = t
    BY <1>2 DEF removeOrAdd
  <2> HIDE DEF t
  <2>3. Len(s) \in Nat
    OBVIOUS
  <2>4. Contains(t, y) <=> y = x \/ Contains(s, y)
    BY <2>1, <2>3 DEF Contains
  <2> QED BY <1>2, <2>2, <2>4
<1> QED BY <1>1, <1>2

(* up to n from the one up to n - 1.                                       *)
LEMMA likedOfRecursion ==
  ASSUME NEW S, NEW all \in Seq(S), NEW ids
  PROVE  \E K : /\ K = [n \in 0..Len(all) |->
                          IF n = 0 THEN <<>>
                          ELSE IF Contains(ids, all[n]) THEN Append(K[n - 1], all[n])
                          ELSE K[n - 1]]
                /\ likedOf(all, ids) = K[Len(all)]
<1> DEFINE Body(F, n) == IF n = 0 THEN <<>>
                         ELSE IF Contains(ids, all[n]) THEN Append(F[n - 1], all[n])
                         ELSE F[n - 1]
           UpTo(n, F) == F = [i \in 0..n |-> Body(F, i)]
           Bad == {n \in 0..Len(all) : ~\E F : UpTo(n, F)}
<1>1. Bad = {}
  <2> SUFFICES ASSUME Bad # {} PROVE FALSE
    OBVIOUS
  <2>1. PICK n \in Bad : \A m \in Bad : n <= m
    <3>1. Bad \subseteq Nat
      OBVIOUS
    <3> HIDE DEF Bad
    <3> QED BY <3>1, LeastElement
  <2>2. n # 0
    <3>1. UpTo(0, [i \in 0..0 |-> <<>>])
      OBVIOUS
    <3> QED BY <3>1
  <2>3. n - 1 \in 0..Len(all) /\ n - 1 \notin Bad
    <3>1. n \in 0..Len(all)
      OBVIOUS
    <3> HIDE DEF Bad
    <3>2. n - 1 \notin Bad
      BY <2>1, <2>2, <3>1
    <3> QED BY <2>2, <3>1, <3>2
  <2>4. PICK F : UpTo(n - 1, F)
    BY <2>3
  <2> DEFINE G == [i \in 0..n |-> IF i < n THEN F[i] ELSE Body(F, n)]
  <2>5. ASSUME NEW i \in 0..n PROVE G[i] = Body(G, i)
    <3>1. CASE i < n
      <4>1. F[i] = Body(F, i)
        <5>1. i \in 0..(n - 1)
          BY <3>1, <2>3
        <5>2. F = [j \in 0..(n - 1) |-> Body(F, j)]
          BY <2>4
        <5> HIDE DEF Body
        <5> QED BY <5>1, <5>2
      <4>2. i # 0 => G[i - 1] = F[i - 1]
        BY <3>1, <2>3
      <4> QED BY <3>1, <4>1, <4>2
    <3>2. CASE ~(i < n)
      <4>1. i = n
        BY <3>2
      <4>2. G[n - 1] = F[n - 1]
        BY <2>2, <2>3
      <4> QED BY <4>1, <4>2
    <3> QED BY <3>1, <3>2
  <2>6. UpTo(n, G)
    <3> DEFINE H == [i \in 0..n |-> Body(G, i)]
    <3>1. \A i \in 0..n : G[i] = H[i]
      BY <2>5
    <3>2. G = [i \in 0..n |-> G[i]] /\ H = [i \in 0..n |-> H[i]]
      OBVIOUS
    <3> HIDE DEF G, H
    <3>3. G = H
      BY <3>1, <3>2
    <3> QED BY <3>3 DEF H
  <2> QED BY <2>1, <2>6
<1> DEFINE K == CHOOSE F : UpTo(Len(all), F)
<1>2. UpTo(Len(all), K)
  <2>1. Len(all) \in 0..Len(all)
    OBVIOUS
  <2> QED BY <1>1, <2>1
<1>3. likedOf(all, ids) = K[Len(all)]
  BY DEF likedOf
<1> HIDE DEF K
<1> QED BY <1>2, <1>3

(* liked, and no product more than once if the list has none twice.        *)
LEMMA likedOfProperties ==
  ASSUME NEW S, NEW all \in Seq(S), NEW ids
  PROVE  /\ likedOf(all, ids) \in Seq(S)
         /\ \A i \in 1..Len(likedOf(all, ids)) : Contains(ids, likedOf(all, ids)[i])
         /\ IsInjective(all) => IsInjective(likedOf(all, ids))
<1>1. PICK K : /\ K = [n \in 0..Len(all) |->
                         IF n = 0 THEN <<>>
                         ELSE IF Contains(ids, all[n]) THEN Append(K[n - 1], all[n])
                         ELSE K[n - 1]]
               /\ likedOf(all, ids) = K[Len(all)]
  BY likedOfRecursion
<1> DEFINE Right(n) == /\ K[n] \in Seq(S)
                       /\ \A i \in 1..Len(K[n]) : Contains(ids, K[n][i])
                       /\ \A i \in 1..Len(K[n]) : \E m \in 1..n : K[n][i] = all[m]
                       /\ IsInjective(all) => IsInjective(K[n])
           Wrong == {n \in 0..Len(all) : ~Right(n)}
<1>2. Wrong = {}
  <2> SUFFICES ASSUME Wrong # {} PROVE FALSE
    OBVIOUS
  <2>1. PICK n \in Wrong : \A m \in Wrong : n <= m
    <3>1. Wrong \subseteq Nat
      OBVIOUS
    <3> HIDE DEF Wrong
    <3> QED BY <3>1, LeastElement
  <2>2. n \in 0..Len(all) /\ ~Right(n)
    OBVIOUS
  <2> HIDE DEF Wrong
  <2>3. n # 0
    <3>1. K[0] = <<>>
      BY <1>1
    <3>2. Right(0)
      BY <3>1 DEF IsInjective
    <3> QED BY <2>2, <3>2
  <2>4. n - 1 \in 0..Len(all) /\ Right(n - 1)
    <3>1. n - 1 \in 0..Len(all) /\ n - 1 \notin Wrong
      BY <2>1, <2>2, <2>3
    <3> QED BY <3>1 DEF Wrong
  <2>5. K[n] = IF Contains(ids, all[n]) THEN Append(K[n - 1], all[n]) ELSE K[n - 1]
    BY <1>1, <2>2, <2>3
  <2>6. CASE Contains(ids, all[n])
    <3> DEFINE s == K[n - 1]
               t == Append(s, all[n])
    <3>1. s \in Seq(S) /\ all[n] \in S
      BY <2>2, <2>3, <2>4
    <3>2. /\ t \in Seq(S)
          /\ Len(t) = Len(s) + 1
          /\ \A i \in 1..Len(s) : t[i] = s[i]
          /\ t[Len(s) + 1] = all[n]
      BY <3>1, AppendProperties
    <3>3. /\ \A i \in 1..Len(s) : Contains(ids, s[i])
          /\ \A i \in 1..Len(s) : \E m \in 1..(n - 1) : s[i] = all[m]
          /\ IsInjective(all) => IsInjective(s)
          /\ K[n] = t
      BY <2>4, <2>5, <2>6
    <3> HIDE DEF s, t
    <3>4. \A i \in 1..Len(t) : Contains(ids, t[i])
      BY <2>6, <3>1, <3>2, <3>3
    <3>5. \A i \in 1..Len(t) : \E m \in 1..n : t[i] = all[m]
      BY <2>2, <2>3, <3>1, <3>2, <3>3
    <3>6. IsInjective(all) => IsInjective(t)
      <4> SUFFICES ASSUME IsInjective(all) PROVE IsInjective(t)
        OBVIOUS
      <4>1. \A i, j \in 1..Len(s) : s[i] = s[j] => i = j
        BY <3>1, <3>3 DEF IsInjective
      <4>2. \A i \in 1..Len(s) : s[i] # all[n]
        <5>1. \A i, j \in 1..Len(all) : all[i] = all[j] => i = j
          BY DEF IsInjective
        <5> QED BY <2>2, <2>3, <3>3, <5>1
      <4>3. ASSUME NEW i \in DOMAIN t, NEW j \in DOMAIN t, t[i] = t[j]
            PROVE  i = j
        <5>1. i \in 1..(Len(s) + 1) /\ j \in 1..(Len(s) + 1)
          BY <3>2
        <5> QED BY <3>1, <3>2, <4>1, <4>2, <4>3, <5>1
      <4> QED BY <4>3 DEF IsInjective
    <3> QED BY <2>2, <3>2, <3>3, <3>4, <3>5, <3>6
  <2>7. CASE ~Contains(ids, all[n])
    <3>1. K[n] = K[n - 1]
      BY <2>5, <2>7
    <3>2. \A m \in 1..(n - 1) : m \in 1..n
      BY <2>2
    <3> QED BY <2>2, <2>4, <3>1, <3>2
  <2> QED BY <2>6, <2>7
<1>3. Len(all) \in 0..Len(all)
  OBVIOUS
<1>4. Right(Len(all))
  BY <1>2, <1>3
<1> QED BY <1>1, <1>4

-----------------------------------------------------------------------------
(* What a load delivers is a list of products, none of them twice, and a   *)
(* list of houses has at least one.                                        *)
LEMMA ListingType ==
  ASSUME NEW k \in Kind, NEW list \in Listing(k)
  PROVE  /\ list \in Seq(Id)
         /\ ToSet(list) \subseteq Id
         /\ k = "house" => list # <<>>
         /\ IsInjective(list)
<1>1. list \in SeqOf(Products[k], Cardinality(Products[k]))
  BY DEF Listing
<1>2. PICK n \in Nat : list \in [1..n -> Products[k]]
  BY <1>1 DEF SeqOf
<1>3. Products[k] \subseteq Id
  BY AppAssumption
<1>4. list \in Seq(Id)
  BY <1>2, <1>3
<1>5. ToSet(list) \subseteq Id
  BY <1>4 DEF ToSet
<1> QED BY <1>4, <1>5 DEF Listing

-----------------------------------------------------------------------------
(* How a step of the application acts on the likes, on the wishlist and on *)
(* the map: by one of their own operations, or not at all.                 *)
LEMMA LikesSteps ==
  ASSUME [Next]_vars
  PROVE  \/ UNCHANGED storeVars
         \/ getLikedProducts /\ UNCHANGED userDef
         \/ AtDetail /\ detail.loaded /\ isLikedPerform(detail.kind, detail.id)
         \/ AtChildren /\ \E p \in Id : isLikedPerform("party", p)
         \/ AtMap /\ SheetLikePressed
         \/ WishlistVisible /\ UNCHANGED likedIDs /\ ((\E i \in DOMAIN wlRows : DeleteAt(i)) \/ DeleteAll)
<1> USE DEF storeVars, getLikedProducts
<1>1. CASE UNCHANGED vars
  BY <1>1 DEF vars
<1>2. CASE Next
  BY <1>2 DEF Next, Relaunch, SelectTab, ListArrives, EmptyListArrives, WishlistArrives, MapListArrives,
    HousesFail, WishlistLoaded, OpenListed, OpenLiked, DetailArrives, DetailLikePressed, PartyLikePressed, BackFromDetail,
    OpenMap, LeaveMap, LeaveMapTraps, MoreInfo, MapStep, SheetLike, WishlistSegment, WishlistDelete, Trap, RootWillAppear,
    partyRowsBuilt, detailPushed
<1> QED BY <1>1, <1>2

(* What a step of the application does to the wishlist is one of the       *)
(* wishlist's own operations, or nothing but setting its timer.            *)
LEMMA WishlistSteps ==
  ASSUME [Next]_vars
  PROVE  \/ UNCHANGED wlVars
         \/ WishlistReset
         \/ WishlistWillAppear /\ wlTimer' \in {wlTimer, TRUE, FALSE}
         \/ /\ UNCHANGED <<wlIDs, wlAll, wlShown, wlRows, wlHidden, wlCategory, wlResponded>>
            /\ wlTimer' \in {wlTimer, TRUE, FALSE}
            /\ wlTimer => wlTimer'
         \/ \E k \in Kind : \E list \in Listing(k) : wishlistLoad[k] \in pending /\ WishlistResponse(k, list)
         \/ WishlistTick
         \/ \E k \in Kind : SegmentPressed(k)
         \/ \E i \in DOMAIN wlRows : DeleteAt(i)
         \/ DeleteAll
<1>1. CASE UNCHANGED vars
  BY <1>1 DEF vars
<1>2. ASSUME NEW t \in Screens \cap Tab, SelectTab(t)
      PROVE  RootWillAppear(t) /\ wlTimer' \in {wlTimer, TRUE, FALSE} /\ (wlTimer => wlTimer')
  <2>1. CASE t \in opened
    BY <1>2, <2>1 DEF SelectTab
  <2>2. CASE t \notin opened
    <3>1. wlTimer' = (wlTimer \/ t = "liked")
      BY <1>2, <2>2 DEF SelectTab
    <3> QED BY <1>2, <3>1 DEF SelectTab
  <2> QED BY <2>1, <2>2
<1>3. CASE BackFromDetail
  BY <1>3 DEF BackFromDetail, RootWillAppear, wlVars
<1>4. CASE Next /\ ~BackFromDetail /\ ~\E t \in Screens \cap Tab : SelectTab(t)
  BY <1>4 DEF Next, Relaunch, ListArrives, EmptyListArrives, WishlistArrives, MapListArrives,
    HousesFail, WishlistLoaded, OpenListed, OpenLiked, DetailArrives, DetailLikePressed, PartyLikePressed,
    OpenMap, LeaveMap, LeaveMapTraps, MoreInfo, MapStep, SheetLike, WishlistSegment, WishlistDelete, Trap
<1> QED BY <1>1, <1>2, <1>3, <1>4 DEF RootWillAppear

(* What a step of the application does to the map and its sheet is one of  *)
(* their own operations, or nothing.                                       *)
LEMMA MapSteps ==
  ASSUME [Next]_vars
  PROVE  \/ UNCHANGED mapVars
         \/ MapReset(<<>>)
         \/ MapReset(userDef["house"])
         \/ "map" \in pending /\ \E houses \in Listing("house") : MapHousesArrive(houses)
         \/ mapOpen /\ detail.kind # "none" /\ MapWillAppear
         \/ SheetDismissed
         \/ \E h \in ToSet(mapHouses) : PinSelected(h)
         \/ \E h \in Id : PinArrives(h) \/ PinFails(h)
         \/ SheetLikePressed
         \/ MapWillDisappear
<1>1. CASE UNCHANGED vars
  BY <1>1 DEF vars
<1>2. CASE Next
  BY <1>2 DEF Next, Relaunch, SelectTab, ListArrives, EmptyListArrives, WishlistArrives, MapListArrives,
    HousesFail, WishlistLoaded, OpenListed, OpenLiked, DetailArrives, DetailLikePressed, PartyLikePressed, BackFromDetail,
    OpenMap, LeaveMap, LeaveMapTraps, MoreInfo, MapStep, SheetLike, WishlistSegment, WishlistDelete, Trap, AtDetail
<1> QED BY <1>1, <1>2

-----------------------------------------------------------------------------
(* A step keeps the type of the stored arrays of likes and of the          *)
(* singleton's copy of them.                                               *)
LEMMA LikedTypeNext ==
  ASSUME Inv, [Next]_vars
  PROVE  LikedTypeOK'
<1>0. LikedTypeOK /\ CopiesAreSets /\ WishlistTypeOK /\ MapTypeOK
  BY DEF Inv, TypeOK
<1>1. CASE UNCHANGED storeVars \/ (getLikedProducts /\ UNCHANGED userDef)
  BY <1>0, <1>1 DEF storeVars, getLikedProducts, LikedTypeOK
<1>2. ASSUME NEW k \in Kind, NEW x \in LikedId, isLikedPerform(k, x)
      PROVE  LikedTypeOK'
  BY <1>0, <1>2, removeOrAddProperties DEF isLikedPerform, CopiesAreSets, LikedTypeOK
<1>3. CASE SheetLikePressed
  BY <1>0, <1>3, removeOrAddProperties DEF SheetLikePressed, CopiesAreSets, MapTypeOK, LikedTypeOK
<1>4. CASE UNCHANGED likedIDs /\ \E i \in DOMAIN wlRows : DeleteAt(i)
  <2>1. PICK i \in DOMAIN wlRows : DeleteAt(i)
    BY <1>4
  <2> DEFINE ids == wlIDs[wlCategory]
  <2>2. ids \in Seq(LikedId) /\ i \in 1..Len(ids)
    BY <1>0, <2>1 DEF DeleteAt, deleteTraps, WishlistTypeOK
  <2>3. RemoveAt(ids, i) \in Seq(LikedId)
    BY <2>2, RemoveAtProperties
  <2>4. userDef' = [userDef EXCEPT ![wlCategory] = RemoveAt(ids, i)]
    BY <1>0, <2>1 DEF DeleteAt, WishlistTypeOK
  <2> QED BY <1>0, <1>4, <2>3, <2>4 DEF LikedTypeOK
<1>5. CASE UNCHANGED likedIDs /\ DeleteAll
  <2> DEFINE ids == wlIDs[wlCategory]
             n == Len(wlShown[wlCategory])
  <2>1. ids \in Seq(LikedId) /\ n \in 0..Len(ids) /\ IsInjective(ids)
    BY <1>0, <1>5 DEF DeleteAll, WishlistTypeOK, CopiesAreSets
  <2>2. SubSeq(ids, n + 1, Len(ids)) \in Seq(LikedId)
    BY <2>1, SubSeqInjective
  <2>3. userDef' = [userDef EXCEPT ![wlCategory] = SubSeq(ids, n + 1, Len(ids))]
    BY <1>0, <1>5 DEF DeleteAll, WishlistTypeOK
  <2> QED BY <1>0, <1>5, <2>2, <2>3 DEF LikedTypeOK
<1>6. AtDetail => detail.kind \in Kind /\ detail.id \in LikedId
  BY DEF AtDetail, AppTypeOK, Detail, Inv, TypeOK
<1> QED BY <1>1, <1>2, <1>3, <1>4, <1>5, <1>6, LikesSteps

(* A step keeps the type of the state of the wishlist.                     *)
LEMMA WishlistTypeNext ==
  ASSUME Inv, [Next]_vars
  PROVE  WishlistTypeOK'
<1>0. LikedTypeOK /\ CopiesAreSets /\ WishlistTypeOK
  BY DEF Inv, TypeOK
<1>1. CASE UNCHANGED wlVars
  BY <1>0, <1>1 DEF wlVars, WishlistTypeOK
<1>2. CASE WishlistReset
  <2>1. <<>> \in Seq(LikedId) /\ <<>> \in Seq(Id)
    OBVIOUS
  <2> QED BY <1>2, <2>1 DEF WishlistReset, WishlistTypeOK
<1>3. CASE updateLiked /\ reload(wlCategory, wlCategory) /\ UNCHANGED <<wlAll, wlCategory, wlResponded>> /\ wlTimer' \in BOOLEAN
  BY <1>0, <1>3, likedOfProperties DEF updateLiked, reload, LikedTypeOK, WishlistTypeOK
<1>4. CASE UNCHANGED <<wlIDs, wlAll, wlShown, wlRows, wlHidden, wlCategory, wlResponded>> /\ wlTimer' \in {wlTimer, TRUE, FALSE}
  BY <1>0, <1>4 DEF WishlistTypeOK
<1>5. ASSUME NEW k \in Kind, NEW list \in Listing(k), WishlistResponse(k, list)
      PROVE  WishlistTypeOK'
  <2>1. list \in Seq(Id) /\ likedOf(list, userDef[k]) \in Seq(Id)
    BY likedOfProperties, ListingType
  <2> QED BY <1>0, <1>5, <2>1 DEF WishlistResponse, LikedTypeOK, WishlistTypeOK
<1>6. CASE WishlistTick
  BY <1>0, <1>6, likedOfProperties DEF WishlistTick, updateLiked, reload, LikedTypeOK, WishlistTypeOK
<1>7. ASSUME NEW k \in Kind, SegmentPressed(k)
      PROVE  WishlistTypeOK'
  BY <1>0, <1>7 DEF SegmentPressed, WishlistTypeOK
<1>8. ASSUME NEW i \in DOMAIN wlRows, DeleteAt(i)
      PROVE  WishlistTypeOK'
  <2> DEFINE ids == wlIDs[wlCategory]
             shown == wlShown[wlCategory]
  <2>1. /\ ids \in Seq(LikedId) /\ i \in 1..Len(ids)
        /\ shown \in Seq(Id) /\ i \in 1..Len(shown)
    BY <1>0, <1>8 DEF DeleteAt, deleteTraps, WishlistTypeOK
  <2>2. RemoveAt(ids, i) \in Seq(LikedId) /\ RemoveAt(shown, i) \in Seq(Id)
    BY <2>1, RemoveAtProperties
  <2>3. /\ wlShown' = [wlShown EXCEPT ![wlCategory] = RemoveAt(shown, i)]
        /\ wlIDs' = [wlIDs EXCEPT ![wlCategory] = RemoveAt(ids, i)]
        /\ wlRows' = wlShown'[wlCategory]
        /\ wlHidden' \in BOOLEAN
        /\ UNCHANGED <<wlAll, wlCategory, wlResponded, wlTimer>>
    BY <1>8 DEF DeleteAt, reload
  <2> QED BY <1>0, <2>2, <2>3 DEF WishlistTypeOK
<1>9. CASE DeleteAll
  BY <1>0, <1>9, SubSeqInjective DEF DeleteAll, CopiesAreSets, reload, WishlistTypeOK
<1> QED BY <1>0, <1>1, <1>2, <1>3, <1>4, <1>5, <1>6, <1>7, <1>8, <1>9, WishlistSteps DEF WishlistWillAppear, WishlistTypeOK

(* A new sheet has a state of its type.                                    *)
LEMMA addChildHomeVCType ==
  ASSUME LikedTypeOK, NEW liked, addChildHomeVC(liked)
  PROVE  /\ sheetExists' \in BOOLEAN
         /\ sheetUp' \in BOOLEAN
         /\ sheetId' \in LikedId
         /\ sheetLiked' \in Seq(LikedId)
         /\ sheetHeart' \in BOOLEAN
BY DEF addChildHomeVC, LikedTypeOK, Contains

(* A request for the details of a house keeps the counts of requests       *)
(* counts.                                                                 *)
LEMMA updateChildMapViewType ==
  ASSUME MapTypeOK, NEW h \in Id, updateChildMapView(h)
  PROVE  mapSelected' \in Id /\ mapRequests' \in [Id -> Nat]
BY DEF updateChildMapView, MapTypeOK

(* A step keeps the type of the state of the map and of its sheet.         *)
LEMMA MapTypeNext ==
  ASSUME Inv, [Next]_vars
  PROVE  MapTypeOK'
<1>0. LikedTypeOK /\ CopiesAreSets /\ MapTypeOK
  BY DEF Inv, TypeOK
<1>1. CASE UNCHANGED mapVars
  BY <1>0, <1>1 DEF mapVars, sheetVars, MapTypeOK
<1>2. ASSUME NEW liked \in Seq(LikedId), MapReset(liked)
      PROVE  MapTypeOK'
  <2>1. <<>> \in Seq(LikedId) /\ <<>> \in Seq(Id)
    OBVIOUS
  <2>2. [h \in Id |-> 0] \in [Id -> Nat]
    OBVIOUS
  <2> QED BY <1>2, <2>1, <2>2, MapAssumption DEF MapReset, MapTypeOK
<1>3. ASSUME NEW houses \in Listing("house"), MapHousesArrive(houses)
      PROVE  MapTypeOK'
  <2>1. houses \in Seq(Id) /\ Head(houses) \in Id
    BY ListingType
  <2> QED BY <1>0, <1>3, <2>1, addChildHomeVCType, updateChildMapViewType DEF MapHousesArrive, MapTypeOK
<1>4. CASE mapHouses # <<>> /\ MapWillAppear
  <2>1. Head(mapHouses) \in Id
    BY <1>0, <1>4 DEF MapTypeOK
  <2> QED BY <1>0, <1>4, <2>1, addChildHomeVCType, updateChildMapViewType DEF MapWillAppear, MapTypeOK, LikedTypeOK
<1>5. CASE mapHouses # <<>> /\ SheetDismissed
  <2>1. Head(mapHouses) \in Id
    BY <1>0, <1>5 DEF MapTypeOK
  <2> QED BY <1>0, <1>5, <2>1, addChildHomeVCType, updateChildMapViewType DEF SheetDismissed, MapTypeOK
<1>6. ASSUME NEW h \in ToSet(mapHouses), PinSelected(h)
      PROVE  MapTypeOK'
  BY <1>0, <1>6 DEF PinSelected, updateChildMapView, sheetVars, ToSet, MapTypeOK
<1>7. ASSUME NEW h \in Id, PinArrives(h)
      PROVE  MapTypeOK'
  <2>1. mapRequests' \in [Id -> Nat]
    BY <1>0, <1>7 DEF PinArrives, MapTypeOK
  <2>2. sheetHeart' \in BOOLEAN
    BY <1>7 DEF PinArrives, Contains
  <2> QED BY <1>0, <1>7, <2>1, <2>2 DEF PinArrives, MapTypeOK
<1>8. ASSUME NEW h \in Id, PinFails(h)
      PROVE  MapTypeOK'
  BY <1>0, <1>8 DEF PinFails, sheetVars, MapTypeOK
<1>9. CASE SheetLikePressed
  BY <1>0, <1>9, removeOrAddProperties DEF SheetLikePressed, CopiesAreSets, MapTypeOK
<1>10. CASE MapWillDisappear
  BY <1>0, <1>10 DEF MapWillDisappear, MapTypeOK
<1>11. SheetDismissed => mapHouses # <<>>
  BY DEF SheetDismissed, MapOrder, Inv
<1>12. mapOpen /\ detail.kind # "none" => mapHouses # <<>>
  BY DEF MapOrder, Inv
<1>13. <<>> \in Seq(LikedId) /\ userDef["house"] \in Seq(LikedId)
  BY <1>0 DEF LikedTypeOK
<1> QED BY <1>1, <1>2, <1>3, <1>4, <1>5, <1>6, <1>7, <1>8, <1>9, <1>10, <1>11, <1>12, <1>13, MapSteps

(* A detail screen that is pushed has a state of its type.                 *)
LEMMA detailPushedType ==
  ASSUME AppTypeOK, NEW k \in Kind, NEW x \in LikedId, detailPushed(k, x)
  PROVE  detail' \in Detail /\ pending' \in SUBSET Load /\ overlays' \in Nat
<1>1. \A l, h \in BOOLEAN : [kind |-> k, id |-> x, loaded |-> l, heart |-> h] \in Detail
  BY DEF Detail
<1>2. isLiked(k, x) \in BOOLEAN
  BY DEF isLiked, Contains
<1>3. detail' \in Detail
  BY <1>1, <1>2 DEF detailPushed
<1>4. pending' \in SUBSET Load
  BY DEF detailPushed, AppTypeOK, Load
<1>5. overlays' \in Nat
  BY DEF detailPushed, AppTypeOK, LoaderStart
<1> QED BY <1>3, <1>4, <1>5

(* The hearts on the rows of the children tab are drawn for every product. *)
LEMMA RootWillAppearType ==
  ASSUME AppTypeOK, NEW t, RootWillAppear(t)
  PROVE  partyHeart' \in [Id -> BOOLEAN]
<1>1. \A p \in Id : isLiked("party", p) \in BOOLEAN
  BY DEF isLiked, Contains
<1> QED BY <1>1 DEF RootWillAppear, partyRowsBuilt, AppTypeOK

(* A step keeps the type of the state of the tabs and of the stack of      *)
(* screens.                                                                *)
LEMMA AppTypeNext ==
  ASSUME Inv, [Next]_vars
  PROVE  AppTypeOK'
<1>0. AppTypeOK /\ WishlistTypeOK /\ MapTypeOK
  BY DEF Inv, TypeOK
<1>1. \A k \in Kind : \A x \in LikedId : detailPushed(k, x) =>
        detail' \in Detail /\ pending' \in SUBSET Load /\ overlays' \in Nat
  BY <1>0, detailPushedType
<1>2. \A t : RootWillAppear(t) => partyHeart' \in [Id -> BOOLEAN]
  BY <1>0, RootWillAppearType
<1>3. \A k \in Kind : \A x : heartAfterPress(k, x) \in BOOLEAN /\ isLiked(k, x) \in BOOLEAN
  BY DEF heartAfterPress, isLiked, Contains
<1> USE DEF AppTypeOK
<1>4. CASE Relaunch
  BY <1>4 DEF Relaunch, Tab, Load, NoDetail, Detail
<1>5. ASSUME NEW t \in Screens \cap Tab, SelectTab(t)
      PROVE  AppTypeOK'
  <2>1. overlays' \in Nat /\ pending' \in SUBSET Load
    BY <1>0, <1>5 DEF SelectTab, LoaderStart, Load, Tab, wishlistLoad
  <2>2. opened' \in SUBSET Tab
    BY <1>0, <1>5 DEF SelectTab
  <2> QED BY <1>0, <1>2, <1>5, <2>1, <2>2 DEF SelectTab
<1>6. ASSUME NEW t \in DOMAIN tabKind, NEW list \in Listing(tabKind[t]), ListArrives(t, list)
      PROVE  AppTypeOK'
  <2>1. tabKind[t] \in Kind
    BY DEF tabKind
  <2>2. ToSet(list) \subseteq Id
    BY <2>1, ListingType
  <2>3. listed' \in [Kind -> SUBSET Id]
    BY <1>0, <1>6, <2>2 DEF ListArrives
  <2>4. partyHeart' \in [Id -> BOOLEAN]
    BY <1>0, <1>3, <1>6 DEF ListArrives, partyRowsBuilt
  <2> QED BY <1>0, <1>6, <2>3, <2>4 DEF ListArrives, LoaderStop, navVars
<1>7. ASSUME NEW t \in DOMAIN tabKind, EmptyListArrives(t)
      PROVE  AppTypeOK'
  BY <1>0, <1>7 DEF EmptyListArrives, Trap, loadVars, navVars
<1>8. ASSUME NEW k \in Kind, NEW list, WishlistArrives(k, list)
      PROVE  AppTypeOK'
  BY <1>0, <1>8 DEF WishlistArrives, navVars
<1>9. ASSUME NEW houses, MapListArrives(houses)
      PROVE  AppTypeOK'
  BY <1>0, <1>9 DEF MapListArrives, navVars
<1>10. ASSUME NEW load, HousesFail(load)
       PROVE  AppTypeOK'
  BY <1>0, <1>10 DEF HousesFail, navVars
<1>11. CASE WishlistLoaded
  BY <1>0, <1>11 DEF WishlistLoaded, WishlistTick, LoaderStop, loadVars, navVars
<1>12. ASSUME NEW t \in DOMAIN tabKind, NEW x \in Id, OpenListed(t, x)
       PROVE  AppTypeOK'
  <2>1. tabKind[t] \in Kind
    BY DEF tabKind
  <2> QED BY <1>0, <1>1, <1>12, <2>1 DEF OpenListed
<1>13. ASSUME NEW i \in 1..Cardinality(Id), OpenLiked(i)
       PROVE  AppTypeOK'
  <2>1. wlCategory \in Kind /\ wlShown[wlCategory][i] \in Id
    BY <1>0, <1>13 DEF OpenLiked, WishlistTypeOK
  <2> QED BY <1>0, <1>1, <1>13, <2>1 DEF OpenLiked
<1>14. CASE DetailArrives
  <2>1. detail' \in Detail
    <3>1. isLiked(detail.kind, detail.id) \in BOOLEAN
      BY DEF isLiked, Contains
    <3> QED BY <1>0, <1>14, <3>1 DEF DetailArrives, Detail
  <2> QED BY <1>0, <1>14, <2>1 DEF DetailArrives, LoaderStop
<1>15. CASE DetailLikePressed
  <2>1. heartAfterPress(detail.kind, detail.id) \in BOOLEAN
    BY DEF heartAfterPress, Contains
  <2> QED BY <1>0, <1>15, <2>1 DEF DetailLikePressed, Detail, loadVars
<1>16. ASSUME NEW p \in Id, PartyLikePressed(p)
       PROVE  AppTypeOK'
  BY <1>0, <1>3, <1>16 DEF PartyLikePressed, loadVars, navVars
<1>17. CASE BackFromDetail
  BY <1>0, <1>2, <1>17 DEF BackFromDetail, loadVars, NoDetail, Detail
<1>18. CASE OpenMap
  BY <1>0, <1>18 DEF OpenMap, Load
<1>19. CASE LeaveMap
  BY <1>0, <1>19 DEF LeaveMap
<1>20. CASE LeaveMapTraps
  BY <1>0, <1>20 DEF LeaveMapTraps, Trap, loadVars, navVars
<1>21. CASE MoreInfo
  <2>1. sheetId \in LikedId
    BY <1>0 DEF MapTypeOK
  <2> QED BY <1>0, <1>1, <1>21, <2>1 DEF MoreInfo
<1>22. CASE MapStep
  BY <1>0, <1>22 DEF MapStep, loadVars, navVars
<1>23. CASE SheetLike
  BY <1>0, <1>23 DEF SheetLike, loadVars, navVars
<1>24. ASSUME NEW k \in Kind, WishlistSegment(k)
       PROVE  AppTypeOK'
  BY <1>0, <1>24 DEF WishlistSegment, loadVars, navVars
<1>25. CASE WishlistDelete
  BY <1>0, <1>25 DEF WishlistDelete, loadVars, navVars
<1>26. CASE UNCHANGED vars
  BY <1>0, <1>26 DEF vars, loadVars, navVars
<1> QED
  <2> HIDE DEF AppTypeOK
  <2> QED
    BY <1>4, <1>5, <1>6, <1>7, <1>8, <1>9, <1>10, <1>11, <1>12, <1>13, <1>14, <1>15, <1>16, <1>17,
       <1>18, <1>19, <1>20, <1>21, <1>22, <1>23, <1>24, <1>25, <1>26 DEF Next

-----------------------------------------------------------------------------
(* A step brings no repetition into any array of likes.                    *)
LEMMA CopiesNext ==
  ASSUME Inv, [Next]_vars
  PROVE  CopiesAreSets'
<1>0. LikedTypeOK /\ CopiesAreSets /\ WishlistTypeOK /\ MapTypeOK /\ AppTypeOK
  BY DEF Inv, TypeOK
<1> DEFINE S == \A k \in Kind : IsInjective(userDef[k]) /\ IsInjective(likedIDs[k])
           W == \A k \in Kind : IsInjective(wlIDs[k])
<1>e. IsInjective(<<>>)
  BY DEF IsInjective
<1>1. ASSUME NEW k \in Kind, NEW i \in DOMAIN wlRows, DeleteAt(i)
      PROVE  IsInjective(wlIDs'[k]) /\ IsInjective(userDef'[k])
  <2> DEFINE ids == wlIDs[wlCategory]
  <2>1. ids \in Seq(LikedId) /\ i \in 1..Len(ids) /\ IsInjective(ids)
    BY <1>0, <1>1 DEF DeleteAt, deleteTraps, WishlistTypeOK, CopiesAreSets
  <2>2. IsInjective(RemoveAt(ids, i))
    BY <2>1, RemoveAtInjective
  <2>3. /\ wlIDs' = [wlIDs EXCEPT ![wlCategory] = RemoveAt(ids, i)]
        /\ userDef' = [userDef EXCEPT ![wlCategory] = RemoveAt(ids, i)]
    BY <1>0, <1>1 DEF DeleteAt, WishlistTypeOK
  <2> QED BY <1>0, <2>2, <2>3 DEF LikedTypeOK, WishlistTypeOK, CopiesAreSets
<1>2. ASSUME NEW k \in Kind, DeleteAll
      PROVE  IsInjective(wlIDs'[k]) /\ IsInjective(userDef'[k])
  <2> DEFINE ids == wlIDs[wlCategory]
             rest == SubSeq(ids, Len(wlShown[wlCategory]) + 1, Len(ids))
  <2>1. ids \in Seq(LikedId) /\ Len(wlShown[wlCategory]) \in 0..Len(ids) /\ IsInjective(ids)
    BY <1>0, <1>2 DEF DeleteAll, WishlistTypeOK, CopiesAreSets
  <2>2. IsInjective(rest)
    BY <2>1, SubSeqInjective
  <2>3. /\ wlIDs' = [wlIDs EXCEPT ![wlCategory] = rest]
        /\ userDef' = [userDef EXCEPT ![wlCategory] = rest]
    BY <1>0, <1>2 DEF DeleteAll, WishlistTypeOK
  <2> QED BY <1>0, <2>2, <2>3 DEF LikedTypeOK, WishlistTypeOK, CopiesAreSets
<1>3. SheetLikePressed => IsInjective(removeOrAdd(sheetLiked, sheetId))
  BY <1>0, removeOrAddProperties DEF CopiesAreSets, MapTypeOK
<1>4. ASSUME NEW k \in Kind, NEW x \in LikedId, isLikedPerform(k, x)
      PROVE  S'
  BY <1>0, <1>4, removeOrAddProperties DEF isLikedPerform, CopiesAreSets, LikedTypeOK
<1>5. S'
  <2>1. AtDetail => detail.kind \in Kind /\ detail.id \in LikedId
    BY <1>0 DEF AtDetail, AppTypeOK, Detail
  <2>2. CASE UNCHANGED storeVars \/ (getLikedProducts /\ UNCHANGED userDef)
    BY <1>0, <2>2 DEF storeVars, getLikedProducts, CopiesAreSets
  <2>3. CASE SheetLikePressed
    BY <1>0, <1>3, <2>3 DEF SheetLikePressed, CopiesAreSets, LikedTypeOK
  <2>4. CASE UNCHANGED likedIDs /\ ((\E i \in DOMAIN wlRows : DeleteAt(i)) \/ DeleteAll)
    BY <1>0, <1>1, <1>2, <2>4 DEF CopiesAreSets
  <2> HIDE DEF S
  <2> QED BY <1>4, <2>1, <2>2, <2>3, <2>4, LikesSteps
<1>6. W'
  <2>1. CASE UNCHANGED wlIDs
    BY <1>0, <2>1 DEF CopiesAreSets
  <2>2. CASE WishlistReset
    BY <1>e, <2>2 DEF WishlistReset
  <2>3. CASE updateLiked
    BY <1>0, <2>3 DEF updateLiked, CopiesAreSets
  <2>4. ASSUME NEW k \in Kind, NEW list, WishlistResponse(k, list)
        PROVE  W'
    BY <1>0, <2>4 DEF WishlistResponse, CopiesAreSets, WishlistTypeOK
  <2>5. ASSUME NEW i \in DOMAIN wlRows, DeleteAt(i) PROVE W'
    BY <1>1, <2>5
  <2>6. CASE DeleteAll
    BY <1>2, <2>6
  <2> HIDE DEF W
  <2> QED BY <2>1, <2>2, <2>3, <2>4, <2>5, <2>6, WishlistSteps
           DEF WishlistWillAppear, WishlistTick, SegmentPressed, wlVars
<1>7. IsInjective(sheetLiked)'
  <2>1. CASE UNCHANGED sheetLiked
    BY <1>0, <2>1 DEF CopiesAreSets
  <2>2. CASE sheetLiked' \in {<<>>, userDef["house"]}
    BY <1>0, <1>e, <2>2 DEF CopiesAreSets
  <2>3. CASE SheetLikePressed
    BY <1>3, <2>3 DEF SheetLikePressed
  <2> QED BY <2>1, <2>2, <2>3, MapSteps
           DEF mapVars, sheetVars, MapReset, MapHousesArrive, MapWillAppear, addChildHomeVC, SheetDismissed,
               PinSelected, PinArrives, PinFails, MapWillDisappear
<1> QED BY <1>5, <1>6, <1>7 DEF CopiesAreSets

-----------------------------------------------------------------------------
(* A step that leaves the map, and what covers it, as they are.            *)
LEMMA MapOrderQuiet ==
  ASSUME MapOrder, UNCHANGED <<mapVars, mapOpen>>, detail'.kind = detail.kind, mapOpen => tab' = tab,
         "map" \in pending' => "map" \in pending
  PROVE  MapOrder'
BY DEF MapOrder, mapVars, sheetVars, PriceIsOfTheSheet

(* A step keeps the order of the map, its sheet and what covers them.      *)
LEMMA MapOrderNext ==
  ASSUME Inv, [Next]_vars
  PROVE  MapOrder'
<1>0. MapOrder /\ AppTypeOK /\ MapTypeOK
  BY DEF Inv, TypeOK
<1>1. CASE Relaunch
  BY <1>1 DEF Relaunch, MapReset, NoDetail, MapOrder, PriceIsOfTheSheet
<1>2. ASSUME NEW t \in Screens \cap Tab, SelectTab(t) PROVE MapOrder'
  <2>1. "map" \in pending' => "map" \in pending
    BY <1>2 DEF SelectTab, Tab, wishlistLoad
  <2> QED BY <1>0, <1>2, <2>1, MapOrderQuiet DEF SelectTab, AtRoot
<1>3. ASSUME NEW t \in DOMAIN tabKind, NEW list, ListArrives(t, list) PROVE MapOrder'
  BY <1>0, <1>3, MapOrderQuiet DEF ListArrives, navVars
<1>4. ASSUME NEW t, EmptyListArrives(t) PROVE MapOrder'
  BY <1>0, <1>4, MapOrderQuiet DEF EmptyListArrives, Trap, navVars, loadVars
<1>5. ASSUME NEW k, NEW list, WishlistArrives(k, list) PROVE MapOrder'
  BY <1>0, <1>5, MapOrderQuiet DEF WishlistArrives, navVars
<1>6. ASSUME NEW houses \in Listing("house"), MapListArrives(houses) PROVE MapOrder'
  <2>1. houses # <<>>
    BY ListingType
  <2> QED BY <1>0, <1>6, <2>1 DEF MapListArrives, MapHousesArrive, addChildHomeVC, navVars, MapOrder, PriceIsOfTheSheet
<1>7. ASSUME NEW load, HousesFail(load) PROVE MapOrder'
  BY <1>0, <1>7, MapOrderQuiet DEF HousesFail, navVars
<1>8. CASE WishlistLoaded
  BY <1>0, <1>8, MapOrderQuiet DEF WishlistLoaded, navVars, loadVars
<1>9. ASSUME NEW k, NEW x, detailPushed(k, x), ~mapOpen, UNCHANGED <<mapVars, mapOpen>> PROVE MapOrder'
  <2>1. "map" \in pending' => "map" \in pending
    BY <1>9 DEF detailPushed
  <2> QED BY <1>0, <1>9, <2>1 DEF MapOrder, mapVars, sheetVars, PriceIsOfTheSheet
<1>10. ASSUME NEW t \in DOMAIN tabKind, NEW x \in Id, OpenListed(t, x) PROVE MapOrder'
  BY <1>9, <1>10 DEF OpenListed, AtRoot
<1>11. ASSUME NEW i, OpenLiked(i) PROVE MapOrder'
  BY <1>9, <1>11 DEF OpenLiked, WishlistVisible, AtRoot
<1>12. CASE DetailArrives
  BY <1>0, <1>12, MapOrderQuiet DEF DetailArrives, AppTypeOK, Detail
<1>13. CASE DetailLikePressed
  BY <1>0, <1>13, MapOrderQuiet DEF DetailLikePressed, AppTypeOK, Detail, loadVars
<1>14. ASSUME NEW p, PartyLikePressed(p) PROVE MapOrder'
  BY <1>0, <1>14, MapOrderQuiet DEF PartyLikePressed, loadVars, navVars
<1>15. CASE BackFromDetail
  <2>1. CASE mapOpen
    BY <1>0, <1>15, <2>1 DEF BackFromDetail, AtDetail, MapWillAppear, addChildHomeVC, NoDetail, loadVars, MapOrder, PriceIsOfTheSheet
  <2>2. CASE ~mapOpen
    BY <1>0, <1>15, <2>2 DEF BackFromDetail, NoDetail, loadVars, MapOrder, mapVars, sheetVars, PriceIsOfTheSheet
  <2> QED BY <2>1, <2>2
<1>16. CASE OpenMap
  BY <1>0, <1>16 DEF OpenMap, AtRoot, MapReset, MapOrder, PriceIsOfTheSheet
<1>17. CASE LeaveMap
  BY <1>0, <1>17 DEF LeaveMap, MapReset, MapOrder, PriceIsOfTheSheet
<1>18. CASE LeaveMapTraps
  BY <1>0, <1>18, MapOrderQuiet DEF LeaveMapTraps, Trap, loadVars, navVars
<1>19. CASE MoreInfo
  <2>1. mapOpen /\ detail.kind = "none" /\ mapHouses # <<>> /\ mapOpen' = mapOpen /\ mapHouses' = mapHouses
        /\ sheetUp' = FALSE /\ UNCHANGED <<tab, sheetId, mapPrice>>
    BY <1>0, <1>19 DEF MoreInfo, AtMap, MapOrder, MapWillDisappear
  <2>2. detail'.kind = "house" /\ ("map" \in pending' => "map" \in pending)
    BY <1>19 DEF MoreInfo, detailPushed
  <2>3. "map" \notin pending
    BY <1>0, <2>1 DEF MapOrder
  <2> QED BY <1>0, <2>1, <2>2, <2>3 DEF MapOrder, PriceIsOfTheSheet
<1>20. CASE MapStep
  <2>1. UNCHANGED <<pending, mapOpen, tab, detail>>
    BY <1>20 DEF MapStep, loadVars, navVars
  <2>2. CASE AtMap /\ SheetDismissed
    BY <1>0, <2>1, <2>2 DEF AtMap, SheetDismissed, addChildHomeVC, MapOrder, PriceIsOfTheSheet
  <2>3. ASSUME AtMap, NEW h \in ToSet(mapHouses), PinSelected(h)
        PROVE  MapOrder'
    BY <1>0, <2>1, <2>3 DEF PinSelected, sheetVars, MapOrder, PriceIsOfTheSheet
  <2>4. ASSUME NEW h \in Id, PinArrives(h)
        PROVE  MapOrder'
    BY <1>0, <2>1, <2>4 DEF PinArrives, MapOrder, PriceIsOfTheSheet
  <2>5. ASSUME NEW h \in Id, PinFails(h)
        PROVE  MapOrder'
    BY <1>0, <2>1, <2>5 DEF PinFails, sheetVars, MapOrder, PriceIsOfTheSheet
  <2> QED BY <1>20, <2>2, <2>3, <2>4, <2>5 DEF MapStep
<1>21. CASE SheetLike
  BY <1>0, <1>21 DEF SheetLike, SheetLikePressed, loadVars, navVars, MapOrder, PriceIsOfTheSheet
<1>22. ASSUME NEW k, WishlistSegment(k) PROVE MapOrder'
  BY <1>0, <1>22, MapOrderQuiet DEF WishlistSegment, loadVars, navVars
<1>23. CASE WishlistDelete
  BY <1>0, <1>23, MapOrderQuiet DEF WishlistDelete, loadVars, navVars
<1>24. CASE UNCHANGED vars
  BY <1>0, <1>24, MapOrderQuiet DEF vars, loadVars, navVars
<1> QED
  BY <1>1, <1>2, <1>3, <1>4, <1>5, <1>6, <1>7, <1>8, <1>10, <1>11, <1>12, <1>13, <1>14, <1>15, <1>16,
     <1>17, <1>18, <1>19, <1>20, <1>21, <1>22, <1>23, <1>24 DEF Next

-----------------------------------------------------------------------------
(* A step after which the sheet, the detail screen, the tab and the likes  *)
(* are what they were.                                                     *)
LEMMA FreshQuiet ==
  ASSUME Fresh, UNCHANGED <<storeVars, sheetUp, sheetLiked, detail, tab, listed, partyHeart>>
  PROVE  Fresh'
BY DEF Fresh, storeVars, isLiked

(* A detail screen that is pushed is drawn after the stored array, or is   *)
(* still loading; and no sheet is up beside it.                            *)
LEMMA detailPushedFresh ==
  ASSUME TypeOK, Fresh, NEW k \in Kind, NEW x \in LikedId, detailPushed(k, x),
         UNCHANGED <<userDef, tab, listed, partyHeart>>,
         sheetUp' => sheetUp, sheetLiked' = sheetLiked
  PROVE  Fresh'
<1>1. CASE k = "house"
  BY <1>1 DEF detailPushed, Fresh
<1>2. CASE k # "house"
  <2>1. detail' = [kind |-> k, id |-> x, loaded |-> TRUE, heart |-> isLiked(k, x)] /\ likedIDs' = userDef
    BY <1>2 DEF detailPushed, getLikedProducts
  <2> QED BY <2>1 DEF Fresh, isLiked
<1> QED BY <1>1, <1>2

(* The rows of the children tab are drawn after the stored array.          *)
LEMMA partyRowsBuiltFresh ==
  ASSUME AppTypeOK, NEW rows \in SUBSET Id, partyRowsBuilt(rows)
  PROVE  \/ rows = {} /\ likedIDs' = likedIDs
         \/ /\ likedIDs' = userDef
            /\ \A p \in rows : partyHeart'[p] <=> Contains(userDef["party"], p)
BY DEF partyRowsBuilt, getLikedProducts, isLiked

(* No step leaves a stale copy of an array of likes where the next press   *)
(* would write it back, or a heart that was drawn before the like changed. *)
LEMMA FreshNext ==
  ASSUME Inv, Fresh, [Next]_vars
  PROVE  Fresh'
<1>0. TypeOK /\ LikedTypeOK /\ AppTypeOK /\ MapTypeOK /\ WishlistTypeOK /\ MapOrder /\ CopiesAreSets
  BY DEF Inv, TypeOK
<1>1. CASE Relaunch
  BY <1>1 DEF Relaunch, MapReset, NoDetail, Fresh
<1>2. ASSUME NEW t \in Screens \cap Tab, SelectTab(t) PROVE Fresh'
  <2>1. /\ ~sheetUp' /\ detail'.kind = "none" /\ UNCHANGED <<userDef, listed>> /\ tab' = t
    BY <1>0, <1>2 DEF SelectTab, AtRoot, MapOrder, mapVars, sheetVars
  <2>2. CASE t = "children"
    <3>1. partyRowsBuilt(listed["party"])
      BY <1>2, <2>2 DEF SelectTab, RootWillAppear
    <3>2. listed["party"] \in SUBSET Id
      BY <1>0 DEF AppTypeOK
    <3> QED BY <1>0, <2>1, <3>1, <3>2, partyRowsBuiltFresh DEF Fresh
  <2>3. CASE t # "children"
    BY <2>1, <2>3 DEF Fresh
  <2> QED BY <2>2, <2>3
<1>3. ASSUME NEW t \in DOMAIN tabKind, NEW list \in Listing(tabKind[t]), ListArrives(t, list) PROVE Fresh'
  <2>1. tabKind[t] \in Kind /\ ToSet(list) \subseteq Id
    <3>1. tabKind[t] \in Kind
      BY DEF tabKind
    <3> QED BY <3>1, ListingType
  <2>2. UNCHANGED <<userDef, sheetUp, sheetLiked, detail, tab>> /\ listed' = [listed EXCEPT ![tabKind[t]] = ToSet(list)]
    BY <1>3 DEF ListArrives, mapVars, sheetVars, navVars
  <2>3. CASE t = "children"
    <3>1. partyRowsBuilt(ToSet(list))
      BY <1>3, <2>3 DEF ListArrives
    <3>2. listed'["party"] = ToSet(list)
      BY <1>0, <2>2, <2>3 DEF tabKind, AppTypeOK
    <3>3. \/ ToSet(list) = {} /\ likedIDs' = likedIDs
          \/ likedIDs' = userDef /\ \A p \in ToSet(list) : partyHeart'[p] <=> Contains(userDef["party"], p)
      BY <1>0, <2>1, <3>1, partyRowsBuiltFresh
    <3> QED BY <1>0, <2>2, <3>2, <3>3 DEF Fresh
  <2>4. CASE t # "children"
    <3>1. listed'["party"] = listed["party"] /\ UNCHANGED <<likedIDs, partyHeart>>
      BY <1>0, <1>3, <2>2, <2>4 DEF tabKind, AppTypeOK, ListArrives
    <3> QED BY <2>2, <3>1 DEF Fresh
  <2> QED BY <2>3, <2>4
<1>4. ASSUME NEW t, EmptyListArrives(t) PROVE Fresh'
  BY <1>4, FreshQuiet DEF EmptyListArrives, Trap, mapVars, sheetVars, navVars, loadVars
<1>5. ASSUME NEW k, NEW list, WishlistArrives(k, list) PROVE Fresh'
  BY <1>5, FreshQuiet DEF WishlistArrives, mapVars, sheetVars, navVars
<1>6. ASSUME NEW houses, MapListArrives(houses) PROVE Fresh'
  BY <1>6 DEF MapListArrives, MapHousesArrive, addChildHomeVC, storeVars, navVars, Fresh
<1>7. ASSUME NEW load, HousesFail(load) PROVE Fresh'
  BY <1>7, FreshQuiet DEF HousesFail, mapVars, sheetVars, navVars
<1>8. CASE WishlistLoaded
  BY <1>8, FreshQuiet DEF WishlistLoaded, mapVars, sheetVars, navVars, loadVars
<1>9. ASSUME NEW t \in DOMAIN tabKind, NEW x \in Id, OpenListed(t, x) PROVE Fresh'
  <2>1. tabKind[t] \in Kind
    BY DEF tabKind
  <2> QED BY <1>0, <1>9, <2>1, detailPushedFresh DEF OpenListed, mapVars, sheetVars
<1>10. ASSUME NEW i \in 1..Cardinality(Id), OpenLiked(i) PROVE Fresh'
  <2>1. wlCategory \in Kind /\ wlShown[wlCategory][i] \in LikedId
    BY <1>0, <1>10 DEF OpenLiked, WishlistTypeOK
  <2> QED BY <1>0, <1>10, <2>1, detailPushedFresh DEF OpenLiked, mapVars, sheetVars
<1>11. CASE DetailArrives
  BY <1>0, <1>11 DEF DetailArrives, getLikedProducts, isLiked, AppTypeOK, Detail, mapVars, sheetVars, Fresh
<1>12. CASE DetailLikePressed
  <2> DEFINE k == detail.kind
             x == detail.id
  <2>1. k \in Kind /\ x \in LikedId /\ detail.loaded /\ ~sheetUp /\ likedIDs[k] = userDef[k]
    BY <1>0, <1>12 DEF DetailLikePressed, AtDetail, MapOrder, AppTypeOK, Detail, Fresh
  <2>2. /\ likedIDs' = [likedIDs EXCEPT ![k] = removeOrAdd(likedIDs[k], x)]
        /\ userDef' = [userDef EXCEPT ![k] = removeOrAdd(likedIDs[k], x)]
        /\ detail' = [detail EXCEPT !.heart = ~Contains(likedIDs[k], x)]
        /\ UNCHANGED <<sheetUp, tab, listed>>
    BY <1>12 DEF DetailLikePressed, isLikedPerform, heartAfterPress, mapVars, sheetVars, loadVars
  <2>3. detail'.kind = k /\ detail'.id = x /\ (detail'.heart <=> ~Contains(likedIDs[k], x))
    BY <1>0, <2>2 DEF AppTypeOK, Detail
  <2>4. likedIDs'[k] = removeOrAdd(likedIDs[k], x) /\ userDef'[k] = removeOrAdd(likedIDs[k], x)
    BY <1>0, <2>1, <2>2 DEF LikedTypeOK
  <2>5. Contains(removeOrAdd(likedIDs[k], x), x) <=> ~Contains(likedIDs[k], x)
    <3>1. likedIDs[k] \in Seq(LikedId) /\ IsInjective(likedIDs[k])
      BY <1>0, <2>1 DEF LikedTypeOK, CopiesAreSets
    <3> QED BY <2>1, <3>1, removeOrAddContains
  <2>6. likedIDs["party"] = userDef["party"] => likedIDs'["party"] = userDef'["party"]
    BY <1>0, <2>1, <2>2 DEF LikedTypeOK
  <2> HIDE DEF k, x
  <2> QED BY <2>1, <2>2, <2>3, <2>4, <2>5, <2>6 DEF Fresh
<1>13. ASSUME NEW p \in Id, PartyLikePressed(p) PROVE Fresh'
  <2> DEFINE ids == likedIDs["party"]
  <2>1. ids = userDef["party"] /\ tab = "children" /\ detail.kind = "none" /\ ~sheetUp /\ p \in listed["party"]
    BY <1>0, <1>13 DEF PartyLikePressed, AtChildren, AtRoot, MapOrder, Fresh
  <2>2. /\ likedIDs' = [likedIDs EXCEPT !["party"] = removeOrAdd(ids, p)]
        /\ userDef' = [userDef EXCEPT !["party"] = removeOrAdd(ids, p)]
        /\ partyHeart' = [partyHeart EXCEPT ![p] = ~Contains(ids, p)]
        /\ UNCHANGED <<sheetUp, detail, tab, listed>>
    BY <1>13 DEF PartyLikePressed, isLikedPerform, heartAfterPress, mapVars, sheetVars, loadVars, navVars
  <2>3. likedIDs'["party"] = removeOrAdd(ids, p) /\ userDef'["party"] = removeOrAdd(ids, p)
    BY <1>0, <2>2 DEF LikedTypeOK
  <2>4. \A q : Contains(removeOrAdd(ids, p), q) <=> IF q = p THEN ~Contains(ids, p) ELSE Contains(ids, q)
    <3>1. ids \in Seq(LikedId) /\ IsInjective(ids) /\ p \in LikedId
      BY <1>0 DEF LikedTypeOK, CopiesAreSets
    <3> HIDE DEF ids
    <3> QED BY <3>1, removeOrAddContains
  <2>5. ASSUME NEW q \in listed["party"]
        PROVE  partyHeart'[q] <=> Contains(userDef'["party"], q)
    <3>1. q \in Id /\ (partyHeart[q] <=> Contains(ids, q))
      BY <1>0, <2>1 DEF AppTypeOK, Fresh
    <3>2. partyHeart'[q] <=> IF q = p THEN ~Contains(ids, p) ELSE partyHeart[q]
      BY <1>0, <2>2, <3>1 DEF AppTypeOK
    <3> QED BY <2>3, <2>4, <3>1, <3>2
  <2> QED BY <2>1, <2>2, <2>3, <2>5 DEF Fresh
<1>14. CASE BackFromDetail
  <2>1. detail'.kind = "none" /\ UNCHANGED <<userDef, tab, listed>>
    BY <1>14 DEF BackFromDetail, NoDetail, loadVars
  <2>2. CASE mapOpen
    <3>1. sheetLiked' = userDef["house"] /\ UNCHANGED <<likedIDs, partyHeart>>
      BY <1>14, <2>2 DEF BackFromDetail, MapWillAppear, addChildHomeVC
    <3>2. tab' = "home"
      BY <1>0, <2>1, <2>2 DEF MapOrder
    <3> QED BY <2>1, <3>1, <3>2 DEF Fresh
  <2>3. CASE ~mapOpen
    <3>1. RootWillAppear(tab) /\ ~sheetUp'
      BY <1>0, <1>14, <2>3 DEF BackFromDetail, MapOrder, mapVars, sheetVars
    <3>2. CASE tab = "children"
      <4>1. partyRowsBuilt(listed["party"]) /\ listed["party"] \in SUBSET Id
        BY <1>0, <3>1, <3>2 DEF RootWillAppear, AppTypeOK
      <4> QED BY <1>0, <2>1, <3>1, <4>1, partyRowsBuiltFresh DEF Fresh
    <3>3. CASE tab # "children"
      BY <2>1, <3>1, <3>3 DEF Fresh
    <3> QED BY <3>2, <3>3
  <2> QED BY <2>2, <2>3
<1>15. CASE OpenMap
  BY <1>15 DEF OpenMap, MapReset, storeVars, Fresh
<1>16. CASE LeaveMap
  BY <1>16 DEF LeaveMap, MapReset, storeVars, Fresh
<1>17. CASE LeaveMapTraps
  BY <1>17, FreshQuiet DEF LeaveMapTraps, Trap, mapVars, sheetVars, loadVars, navVars
<1>18. CASE MoreInfo
  <2>1. sheetId \in LikedId
    BY <1>0 DEF MapTypeOK
  <2> QED BY <1>0, <1>18, <2>1, detailPushedFresh DEF MoreInfo, MapWillDisappear
<1>19. CASE MapStep
  <2>1. UNCHANGED <<storeVars, detail, tab, listed, partyHeart>>
    BY <1>19 DEF MapStep, loadVars, navVars
  <2>2. CASE SheetDismissed
    BY <2>1, <2>2 DEF SheetDismissed, addChildHomeVC, storeVars, Fresh
  <2>3. CASE \E h : PinSelected(h) \/ PinArrives(h) \/ PinFails(h)
    BY <2>1, <2>3, FreshQuiet DEF PinSelected, PinArrives, PinFails, sheetVars
  <2> QED BY <1>19, <2>2, <2>3 DEF MapStep
<1>20. CASE SheetLike
  <2>1. /\ detail.kind = "none" /\ userDef' = [userDef EXCEPT !["house"] = sheetLiked']
        /\ UNCHANGED <<likedIDs, detail, tab, listed, partyHeart>>
    BY <1>20 DEF SheetLike, AtMap, SheetLikePressed, loadVars, navVars
  <2>2. userDef'["house"] = sheetLiked' /\ userDef'["party"] = userDef["party"]
    BY <1>0, <2>1 DEF LikedTypeOK
  <2> QED BY <2>1, <2>2 DEF Fresh
<1>21. ASSUME NEW k, WishlistSegment(k) PROVE Fresh'
  BY <1>21, FreshQuiet DEF WishlistSegment, mapVars, sheetVars, loadVars, navVars
<1>22. CASE WishlistDelete
  <2>1. tab' = "liked" /\ detail'.kind = "none" /\ ~sheetUp'
    BY <1>0, <1>22 DEF WishlistDelete, WishlistVisible, AtRoot, MapOrder, mapVars, sheetVars, navVars
  <2> QED BY <2>1 DEF Fresh
<1>23. CASE UNCHANGED vars
  BY <1>23, FreshQuiet DEF vars, mapVars, sheetVars, loadVars, navVars
<1> QED
  BY <1>1, <1>2, <1>3, <1>4, <1>5, <1>6, <1>7, <1>8, <1>9, <1>10, <1>11, <1>12, <1>13, <1>14, <1>15,
     <1>16, <1>17, <1>18, <1>19, <1>20, <1>21, <1>22, <1>23 DEF Next

-----------------------------------------------------------------------------
(* No step leaves a stale copy of the arrays of likes with the wishlist in *)
(* front.                                                                  *)
LEMMA WishlistFreshNext ==
  ASSUME Inv, WishlistFresh, [Next]_vars
  PROVE  WishlistFresh'
<1>0. LikedTypeOK /\ WishlistTypeOK /\ AppTypeOK /\ MapOrder
  BY DEF Inv, TypeOK
<1>1. CASE UNCHANGED <<wlIDs, userDef, tab, detail>>
  BY <1>1 DEF WishlistFresh
<1>2. ASSUME NEW t \in Screens \cap Tab, SelectTab(t) PROVE WishlistFresh'
  <2>1. tab' = t /\ userDef' = userDef /\ RootWillAppear(t)
    BY <1>2 DEF SelectTab
  <2> QED BY <2>1 DEF RootWillAppear, WishlistWillAppear, updateLiked, WishlistFresh
<1>3. CASE BackFromDetail
  <2>1. CASE mapOpen
    BY <1>0, <1>3, <2>1 DEF BackFromDetail, MapOrder, WishlistFresh
  <2>2. CASE ~mapOpen
    BY <1>3, <2>2 DEF BackFromDetail, RootWillAppear, WishlistWillAppear, updateLiked, WishlistFresh
  <2> QED BY <2>1, <2>2
<1>4. ASSUME NEW k \in Kind, NEW list, WishlistArrives(k, list) PROVE WishlistFresh'
  <2>1. wlIDs' = [wlIDs EXCEPT ![k] = userDef[k]] /\ UNCHANGED <<userDef, tab, detail>>
    BY <1>4 DEF WishlistArrives, WishlistResponse, storeVars, navVars
  <2>2. userDef = wlIDs => wlIDs' = wlIDs
    BY <1>0, <2>1 DEF LikedTypeOK
  <2> QED BY <2>1, <2>2 DEF WishlistFresh
<1>5. CASE WishlistLoaded
  BY <1>5 DEF WishlistLoaded, WishlistTick, updateLiked, storeVars, WishlistFresh
<1>6. CASE WishlistDelete
  <2>1. tab = "liked" /\ detail.kind = "none"
    BY <1>6 DEF WishlistDelete, WishlistVisible, AtRoot
  <2>2. wlIDs = userDef
    BY <2>1 DEF WishlistFresh
  <2>3. \E ids : wlIDs' = [wlIDs EXCEPT ![wlCategory] = ids] /\ userDef' = [userDef EXCEPT ![wlCategory] = wlIDs'[wlCategory]]
    BY <1>6 DEF WishlistDelete, DeleteAt, DeleteAll
  <2>4. PICK ids : wlIDs' = [wlIDs EXCEPT ![wlCategory] = ids] /\ userDef' = [userDef EXCEPT ![wlCategory] = wlIDs'[wlCategory]]
    BY <2>3
  <2>5. wlIDs'[wlCategory] = ids
    BY <1>0, <2>4 DEF WishlistTypeOK
  <2> QED BY <2>2, <2>4, <2>5 DEF WishlistFresh
<1>7. CASE ~(tab' = "liked" /\ detail'.kind = "none")
  BY <1>7 DEF WishlistFresh
<1>8. Relaunch => tab' = "home"
  BY DEF Relaunch
<1>9. ASSUME NEW k \in Kind, NEW x, detailPushed(k, x) PROVE WishlistFresh'
  BY <1>9 DEF detailPushed, WishlistFresh
<1>10. DetailArrives \/ DetailLikePressed => UNCHANGED <<wlIDs, tab>> /\ detail'.kind = detail.kind
  BY <1>0 DEF DetailArrives, DetailLikePressed, wlVars, AppTypeOK, Detail
<1>11. DetailLikePressed => detail.kind # "none"
  BY DEF DetailLikePressed, AtDetail
<1>12. DetailArrives => userDef' = userDef
  BY DEF DetailArrives
<1>13. \A p : PartyLikePressed(p) => tab' = "children"
  BY DEF PartyLikePressed, AtChildren, AtRoot, navVars
<1>14. OpenMap \/ LeaveMap \/ SheetLike => tab' = "home"
  BY <1>0 DEF OpenMap, LeaveMap, SheetLike, AtRoot, AtMap, MapOrder, navVars
<1>15. \A t \in DOMAIN tabKind, x \in Id : OpenListed(t, x) => \E k \in Kind : detailPushed(k, x)
  BY DEF OpenListed, tabKind
<1>16. \A i : OpenLiked(i) => \E k \in Kind : \E x : detailPushed(k, x)
  BY <1>0 DEF OpenLiked, WishlistTypeOK
<1>17. MoreInfo => \E k \in Kind : \E x : detailPushed(k, x)
  BY DEF MoreInfo
<1>18. ASSUME \/ \E t, list : ListArrives(t, list)
              \/ \E t : EmptyListArrives(t)
              \/ \E houses : MapListArrives(houses)
              \/ \E load : HousesFail(load)
              \/ LeaveMapTraps
              \/ MapStep
              \/ \E k : WishlistSegment(k)
              \/ UNCHANGED vars
       PROVE  UNCHANGED <<wlIDs, userDef, tab, detail>>
  BY <1>18 DEF ListArrives, EmptyListArrives, MapListArrives, HousesFail, LeaveMapTraps, MapStep,
     WishlistSegment, SegmentPressed, Trap, vars, storeVars, wlVars, navVars
<1>19. CASE DetailArrives \/ DetailLikePressed
  BY <1>10, <1>11, <1>12, <1>19 DEF WishlistFresh
<1> QED BY <1>1, <1>2, <1>3, <1>4, <1>5, <1>6, <1>7, <1>8, <1>9, <1>13, <1>14, <1>15, <1>16, <1>17, <1>18, <1>19 DEF Next

-----------------------------------------------------------------------------
(* The loads of the wishlist have names of their own.                      *)
LEMMA wishlistLoadNames ==
  /\ wishlistLoad["house"] = "wl_house"
  /\ wishlistLoad["taxi"] = "wl_taxi"
  /\ wishlistLoad["party"] = "wl_party"
  /\ \A k \in Kind : wishlistLoad[k] \notin {"home", "children", "taxi", "map", "detail"}
BY DEF wishlistLoad

(* A step that starts no load but the map's, and that touches neither the  *)
(* overlays nor what the wishlist waits for, keeps the order of waiting.   *)
LEMMA BusyQuiet ==
  ASSUME BusyOrder, WishlistTypeOK, pending' \subseteq pending \cup {"map"},
         UNCHANGED <<overlays, wlTimer, wlResponded, opened>>
  PROVE  BusyOrder'
<1>1. ASSUME NEW k \in Kind
      PROVE  open(k) \in {0, 1} /\ open(k)' \in {0, 1} /\ open(k)' <= open(k)
  BY wishlistLoadNames DEF open
<1>2. wlResponded \in Nat
  BY DEF WishlistTypeOK
<1>3. wlResponded' + open("house")' + open("taxi")' + open("party")' <= 3
  BY <1>1, <1>2 DEF BusyOrder
<1> QED BY <1>3 DEF BusyOrder, Touchable

(* A detail screen pushed while touches come through waits alone, if it    *)
(* waits at all.                                                           *)
LEMMA BusyDetailPushed ==
  ASSUME BusyOrder, WishlistTypeOK, AppTypeOK, Touchable, NEW k, NEW x, detailPushed(k, x),
         UNCHANGED <<wlTimer, wlResponded, opened>>
  PROVE  BusyOrder'
<1>1. CASE k # "house"
  BY <1>1, BusyQuiet DEF detailPushed
<1>2. CASE k = "house"
  <2>1. pending' = pending \cup {"detail"} /\ overlays' # 0
    BY <1>2 DEF detailPushed, LoaderStart, Touchable
  <2>2. pending \subseteq {"map"} /\ ~wlTimer
    BY DEF BusyOrder
  <2>3. \A j \in Kind : open(j)' = open(j)
    BY <2>1, wishlistLoadNames DEF open
  <2> QED BY <2>1, <2>2, <2>3, wishlistLoadNames DEF BusyOrder, Touchable
<1> QED BY <1>1, <1>2

(* The answer of a load that is not the wishlist's is the only one open,   *)
(* so the overlays it lifts are its own.                                   *)
LEMMA BusyStops ==
  ASSUME BusyOrder, NEW load \in {"home", "children", "taxi", "detail"}, load \in pending,
         pending' = pending \ {load}, LoaderStop, UNCHANGED <<wlTimer, wlResponded, opened>>
  PROVE  BusyOrder'
<1>1. load \in pending \ {"map"} /\ ~wlTimer
  BY wishlistLoadNames DEF BusyOrder
<1>2. pending' \ {"map"} = {}
  BY <1>1 DEF BusyOrder
<1>3. \A j \in Kind : open(j)' = open(j)
  BY wishlistLoadNames DEF open
<1> QED BY <1>1, <1>2, <1>3 DEF BusyOrder

(* No step lets two screens wait at once, or lifts an overlay too early.   *)
LEMMA BusyNext ==
  ASSUME Inv, BusyOrder, [Next]_vars
  PROVE  BusyOrder'
<1>0. WishlistTypeOK /\ AppTypeOK
  BY DEF Inv, TypeOK
<1>1. CASE Relaunch
  BY <1>1, wishlistLoadNames DEF Relaunch, WishlistReset, BusyOrder, Touchable, open
<1>2. ASSUME NEW t \in Screens \cap Tab, SelectTab(t) PROVE BusyOrder'
  <2>1. Touchable /\ pending \subseteq {"map"} /\ ~wlTimer /\ wlResponded' = wlResponded
    BY <1>2 DEF SelectTab, AtRoot, InTouch, BusyOrder, RootWillAppear, WishlistWillAppear
  <2>2. CASE t \in opened
    <3>1. opened' = opened
      BY <1>2, <2>2 DEF SelectTab
    <3> QED BY <1>0, <1>2, <2>1, <2>2, <3>1, BusyQuiet DEF SelectTab
  <2>3. CASE t \notin opened /\ t # "liked"
    <3>1. /\ pending' = pending \cup {t} /\ overlays' # 0 /\ ~wlTimer'
          /\ opened' = opened \cup {t}
      <4>1. overlays' = overlays + 2 /\ pending' = pending \cup {t} /\ opened' = opened \cup {t}
        BY <1>2, <2>3 DEF SelectTab, LoaderStart
      <4>2. ~wlTimer'
        BY <1>2, <2>1, <2>3, Zenon DEF SelectTab
      <4> QED BY <2>1, <4>1, <4>2 DEF Touchable
    <3>2. t \in {"home", "children", "taxi"}
      BY <2>3 DEF Tab
    <3>3. \A j \in Kind : open(j)' = open(j)
      <4>1. \A j \in Kind : wishlistLoad[j] # t
        BY <3>2, wishlistLoadNames
      <4>2. \A j \in Kind : wishlistLoad[j] \in pending' <=> wishlistLoad[j] \in pending
        BY <3>1, <4>1
      <4> QED BY <4>2 DEF open
    <3> QED BY <2>1, <2>3, <3>1, <3>2, <3>3, wishlistLoadNames DEF BusyOrder, Touchable
  <2>4. CASE t \notin opened /\ t = "liked"
    <3>1. /\ pending' = pending \cup {wishlistLoad[k] : k \in Kind} /\ overlays' # 0 /\ wlTimer'
          /\ opened' = opened \cup {t}
      <4>1. /\ overlays' = overlays + 1 /\ opened' = opened \cup {t}
            /\ pending' = pending \cup {wishlistLoad[k] : k \in Kind}
        BY <1>2, <2>4 DEF SelectTab, LoaderStart
      <4>2. wlTimer'
        BY <1>2, <2>4, Zenon DEF SelectTab
      <4> QED BY <2>1, <4>1, <4>2 DEF Touchable
    <3>2. wlResponded' = 0
      BY <2>1, <2>4 DEF BusyOrder
    <3>3. \A j \in Kind : open(j)' = 1
      <4>1. \A j \in Kind : wishlistLoad[j] \in pending'
        BY <3>1
      <4> QED BY <4>1 DEF open
    <3>4. wlResponded' + open("house")' + open("taxi")' + open("party")' <= 3
      BY <3>2, <3>3
    <3>5. \A load \in pending' \ {"map"} : \E k \in Kind : load = wishlistLoad[k]
      BY <2>1, <3>1
    <3> QED BY <2>4, <3>1, <3>4, <3>5 DEF BusyOrder, Touchable
  <2> QED BY <2>2, <2>3, <2>4
<1>3. ASSUME NEW t \in DOMAIN tabKind, NEW list, ListArrives(t, list) PROVE BusyOrder'
  BY <1>3, BusyStops DEF ListArrives, tabKind, wlVars
<1>4. ASSUME NEW k \in Kind, NEW list, WishlistArrives(k, list) PROVE BusyOrder'
  <2>1. /\ wishlistLoad[k] \in pending /\ pending' = pending \ {wishlistLoad[k]}
        /\ wlResponded' = wlResponded + 1 /\ UNCHANGED <<wlTimer, overlays, opened>>
    BY <1>4 DEF WishlistArrives, WishlistResponse
  <2>2. wlTimer
    BY <2>1, wishlistLoadNames DEF BusyOrder
  <2>3. open(k) = 1 /\ open(k)' = 0
    BY <2>1 DEF open
  <2>4. \A j \in Kind : j # k => open(j)' = open(j)
    BY <2>1, wishlistLoadNames DEF open
  <2>5. wlResponded \in Nat /\ \A j \in Kind : open(j) \in Nat
    BY <1>0 DEF WishlistTypeOK, open
  <2>6. wlResponded' + open("house")' + open("taxi")' + open("party")' <= 3
    <3>1. CASE k = "house"
      BY <2>1, <2>3, <2>4, <2>5, <3>1 DEF BusyOrder
    <3>2. CASE k = "taxi"
      BY <2>1, <2>3, <2>4, <2>5, <3>2 DEF BusyOrder
    <3>3. CASE k = "party"
      BY <2>1, <2>3, <2>4, <2>5, <3>3 DEF BusyOrder
    <3> QED BY <3>1, <3>2, <3>3
  <2>7. "liked" \in opened
    BY <2>2 DEF BusyOrder
  <2> QED BY <2>1, <2>2, <2>6, <2>7 DEF BusyOrder, Touchable
<1>5. CASE WishlistLoaded
  <2>1. /\ wlTimer /\ wlResponded = 3 /\ wlTimer' = FALSE /\ overlays' = 0
        /\ UNCHANGED <<wlResponded, pending, opened>>
    BY <1>5 DEF WishlistLoaded, WishlistTick, LoaderStop, loadVars
  <2>2. \A j \in Kind : open(j) \in {0, 1} /\ open(j)' = open(j)
    BY <2>1 DEF open
  <2>3. \A j \in Kind : open(j) = 0
    BY <2>1, <2>2 DEF BusyOrder
  <2>4. \A j \in Kind : wishlistLoad[j] \notin pending
    BY <2>3 DEF open
  <2>5. pending \ {"map"} = {}
    BY <2>1, <2>4 DEF BusyOrder
  <2> QED BY <2>1, <2>2, <2>5 DEF BusyOrder
<1>6. CASE DetailArrives
  BY <1>6, BusyStops DEF DetailArrives, wlVars
<1>7. ASSUME \/ \E t, x : OpenListed(t, x)
             \/ \E i : OpenLiked(i)
             \/ MoreInfo
      PROVE  BusyOrder'
  <2>1. /\ Touchable /\ UNCHANGED <<wlTimer, wlResponded, opened>>
        /\ \E k, x : detailPushed(k, x)
    BY <1>7 DEF OpenListed, OpenLiked, MoreInfo, WishlistVisible, AtRoot, AtMap, InTouch, wlVars
  <2> QED BY <1>0, <2>1, BusyDetailPushed
<1>8. ASSUME \/ \E t : EmptyListArrives(t)
             \/ \E houses : MapListArrives(houses)
             \/ \E load : HousesFail(load)
             \/ DetailLikePressed
             \/ \E p : PartyLikePressed(p)
             \/ BackFromDetail
             \/ OpenMap \/ LeaveMap \/ LeaveMapTraps \/ MapStep \/ SheetLike
             \/ \E k : WishlistSegment(k)
             \/ WishlistDelete
             \/ UNCHANGED vars
      PROVE  BusyOrder'
  <2>1. pending' \subseteq pending \cup {"map"} /\ UNCHANGED <<overlays, opened>>
    BY <1>8 DEF EmptyListArrives, MapListArrives, HousesFail, DetailLikePressed, PartyLikePressed,
       BackFromDetail, OpenMap, LeaveMap, LeaveMapTraps, MapStep, SheetLike, WishlistSegment, WishlistDelete,
       Trap, vars, loadVars
  <2>2. UNCHANGED <<wlTimer, wlResponded>>
    <3>1. CASE BackFromDetail
      BY <3>1 DEF BackFromDetail, RootWillAppear, WishlistWillAppear, wlVars
    <3> QED BY <1>8, <3>1 DEF EmptyListArrives, MapListArrives, HousesFail, DetailLikePressed, PartyLikePressed,
       OpenMap, LeaveMap, LeaveMapTraps, MapStep, SheetLike, WishlistSegment, WishlistDelete,
       SegmentPressed, DeleteAt, DeleteAll, Trap, vars, wlVars
  <2> QED BY <1>0, <2>1, <2>2, BusyQuiet
<1> QED BY <1>1, <1>2, <1>3, <1>4, <1>5, <1>6, <1>7, <1>8 DEF Next

(* The liked products of a list, selected by an array of likes, are no     *)
(* more than that array holds.                                             *)
LEMMA LikedNoLonger ==
  ASSUME NEW all \in Seq(Id), IsInjective(all), NEW ids \in Seq(LikedId)
  PROVE  Len(likedOf(all, ids)) <= Len(ids)
<1>1. /\ likedOf(all, ids) \in Seq(Id)
      /\ \A i \in 1..Len(likedOf(all, ids)) : Contains(ids, likedOf(all, ids)[i])
      /\ IsInjective(likedOf(all, ids))
  BY likedOfProperties
<1> QED BY <1>1, ContainedIsNoLonger

(* No step lets the rows and the arrays of the wishlist drift apart.       *)
LEMMA RowsNext ==
  ASSUME Inv, BusyOrder, RowsInStep, [Next]_vars
  PROVE  RowsInStep'
<1>0. LikedTypeOK /\ WishlistTypeOK /\ WishlistTypeOK' /\ CopiesAreSets
  BY WishlistTypeNext DEF Inv, TypeOK
<1>1. CASE UNCHANGED wlVars
  BY <1>1 DEF wlVars, RowsInStep
<1>2. CASE WishlistReset
  BY <1>2 DEF WishlistReset, RowsInStep, IsInjective
<1>3. ASSUME updateLiked, UNCHANGED <<wlAll, wlCategory>>, wlRows' = wlShown'[wlCategory] PROVE RowsInStep'
  <2>1. \A k \in Kind : Len(likedOf(wlAll[k], userDef[k])) <= Len(userDef[k])
    BY <1>0, LikedNoLonger DEF LikedTypeOK, WishlistTypeOK, RowsInStep
  <2> QED BY <1>3, <2>1 DEF updateLiked, RowsInStep
<1>4. CASE UNCHANGED <<wlIDs, wlAll, wlShown, wlRows, wlHidden, wlCategory, wlResponded>> /\ (wlTimer => wlTimer')
  BY <1>4 DEF RowsInStep
<1>5. ASSUME NEW k \in Kind, NEW list \in Listing(k), wishlistLoad[k] \in pending, WishlistResponse(k, list)
      PROVE  RowsInStep'
  <2>1. wlTimer
    BY <1>5, wishlistLoadNames DEF BusyOrder
  <2>2. IsInjective(list) /\ Len(likedOf(list, userDef[k])) <= Len(userDef[k])
    BY <1>0, ListingType, LikedNoLonger DEF LikedTypeOK
  <2>3. \A j \in Kind : /\ wlAll'[j] = IF j = k THEN list ELSE wlAll[j]
                        /\ wlIDs'[j] = IF j = k THEN userDef[k] ELSE wlIDs[j]
                        /\ wlShown'[j] = IF j = k THEN likedOf(list, userDef[k]) ELSE wlShown[j]
    BY <1>0, <1>5 DEF WishlistResponse, WishlistTypeOK
  <2> QED BY <1>5, <2>1, <2>2, <2>3 DEF WishlistResponse, RowsInStep
<1>6. ASSUME NEW k \in Kind, SegmentPressed(k) PROVE RowsInStep'
  BY <1>6 DEF SegmentPressed, RowsInStep
<1>7. ASSUME NEW i \in DOMAIN wlRows, DeleteAt(i) PROVE RowsInStep'
  <2> DEFINE ids == wlIDs[wlCategory]
             shown == wlShown[wlCategory]
  <2>1. /\ ids \in Seq(LikedId) /\ i \in 1..Len(ids)
        /\ shown \in Seq(Id) /\ i \in 1..Len(shown)
    BY <1>0, <1>7 DEF DeleteAt, deleteTraps, WishlistTypeOK
  <2>2. Len(RemoveAt(ids, i)) = Len(ids) - 1 /\ Len(RemoveAt(shown, i)) = Len(shown) - 1
    BY <2>1, RemoveAtProperties
  <2>3. \A j \in Kind : /\ wlIDs'[j] = IF j = wlCategory THEN RemoveAt(ids, i) ELSE wlIDs[j]
                        /\ wlShown'[j] = IF j = wlCategory THEN RemoveAt(shown, i) ELSE wlShown[j]
    BY <1>0, <1>7 DEF DeleteAt, WishlistTypeOK
  <2>4. wlRows' = wlShown'[wlCategory] /\ UNCHANGED <<wlAll, wlCategory>>
    BY <1>7 DEF DeleteAt, reload
  <2>5. Len(ids) \in Nat /\ Len(shown) \in Nat
    BY <2>1
  <2>6. \A j \in Kind : Len(wlShown'[j]) <= Len(wlIDs'[j])
    BY <2>2, <2>3, <2>5 DEF RowsInStep
  <2> QED BY <2>4, <2>6 DEF RowsInStep
<1>8. CASE DeleteAll
  <2> DEFINE ids == wlIDs[wlCategory]
             rest == SubSeq(ids, Len(wlShown[wlCategory]) + 1, Len(ids))
  <2>1. \A j \in Kind : /\ wlIDs'[j] = IF j = wlCategory THEN rest ELSE wlIDs[j]
                        /\ wlShown'[j] = IF j = wlCategory THEN <<>> ELSE wlShown[j]
    BY <1>0, <1>8 DEF DeleteAll, WishlistTypeOK
  <2>2. wlRows' = wlShown'[wlCategory] /\ UNCHANGED <<wlAll, wlCategory>>
    BY <1>8 DEF DeleteAll, reload
  <2>3. \A j \in Kind : wlIDs'[j] \in Seq(LikedId)
    BY <1>0 DEF WishlistTypeOK
  <2>4. ASSUME NEW j \in Kind PROVE Len(wlShown'[j]) <= Len(wlIDs'[j])
    <3>1. CASE j = wlCategory
      <4>1. Len(wlIDs'[j]) \in Nat
        BY <2>3
      <4>2. Len(wlShown'[j]) = 0
        BY <2>1, <3>1
      <4> QED BY <4>1, <4>2
    <3>2. CASE j # wlCategory
      BY <2>1, <3>2 DEF RowsInStep
    <3> QED BY <3>1, <3>2
  <2> QED BY <2>2, <2>4 DEF RowsInStep
<1> QED BY <1>1, <1>2, <1>3, <1>4, <1>5, <1>6, <1>7, <1>8, WishlistSteps
       DEF WishlistWillAppear, WishlistTick, reload

-----------------------------------------------------------------------------
(* All the parts hold at the start, and no step breaks them.               *)
LEMMA InvInit == Init => Inv /\ Fresh /\ WishlistFresh
<1> SUFFICES ASSUME Init PROVE Inv /\ Fresh /\ WishlistFresh
  OBVIOUS
<1>1. <<>> \in Seq(LikedId) /\ <<>> \in Seq(Id) /\ IsInjective(<<>>)
  BY DEF IsInjective
<1>2. LikedTypeOK
  BY <1>1 DEF Init, LikedTypeOK
<1>3. WishlistTypeOK
  BY <1>1 DEF Init, WishlistInit, WishlistTypeOK
<1>4. MapTypeOK
  BY <1>1, MapAssumption DEF Init, MapInit, MapTypeOK
<1>5. AppTypeOK
  BY DEF Init, AppTypeOK, NoDetail, Detail, Tab, Load
<1>6. MapOrder
  BY DEF Init, MapInit, NoDetail, MapOrder, PriceIsOfTheSheet
<1>7. CopiesAreSets
  BY <1>1 DEF Init, WishlistInit, MapInit, CopiesAreSets
<1>8. Fresh /\ WishlistFresh
  BY DEF Init, MapInit, NoDetail, Fresh, WishlistFresh
<1> QED BY <1>2, <1>3, <1>4, <1>5, <1>6, <1>7, <1>8 DEF Inv, TypeOK

(* The inductive invariant: types, the order of the screens, arrays        *)
(* without repetitions, and fresh copies wherever a press can write one    *)
(* back.                                                                   *)
THEOREM Invariance == Spec => [](Inv /\ Fresh /\ WishlistFresh)
<1>1. Inv /\ Fresh /\ WishlistFresh /\ [Next]_vars => (Inv /\ Fresh /\ WishlistFresh)'
  BY LikedTypeNext, WishlistTypeNext, MapTypeNext, AppTypeNext, CopiesNext, MapOrderNext,
     FreshNext, WishlistFreshNext DEF Inv, TypeOK
<1> QED BY InvInit, <1>1, PTL DEF Spec

(* Every variable keeps its type.                                          *)
THEOREM TypeCorrect == Spec => []TypeOK
<1>1. Inv => TypeOK
  BY DEF Inv
<1> QED BY Invariance, <1>1, PTL

(* The order of waiting and the rows in step, beside the invariant.        *)
THEOREM WaitingInvariance == Spec => [](BusyOrder /\ RowsInStep)
<1>1. Init => BusyOrder /\ RowsInStep
  BY wishlistLoadNames DEF Init, WishlistInit, BusyOrder, RowsInStep, IsInjective, Touchable, open
<1>2. Inv /\ BusyOrder /\ RowsInStep /\ [Next]_vars => (BusyOrder /\ RowsInStep)'
  BY BusyNext, RowsNext
<1> QED BY Invariance, <1>1, <1>2, PTL DEF Spec

(* The table of the wishlist shows the list its rows act on whenever it    *)
(* can be touched (LikedHousesVC reloads it only here and there).          *)
THEOREM RowsStayTheList == Spec => []RowsAreTheList
<1>1. BusyOrder /\ RowsInStep => RowsAreTheList
  BY DEF BusyOrder, RowsInStep, RowsAreTheList, WishlistVisible, AtRoot, InTouch
<1> QED BY WaitingInvariance, <1>1, PTL

(* A swipe on a row of the wishlist removes inside both arrays, the list   *)
(* shown and the array of likes (LikedHousesVC.deleteAt, remove(at:)).     *)
THEOREM DeletionStaysInside == Spec => []DeleteNeverTraps
<1>1. Inv /\ BusyOrder /\ RowsInStep => DeleteNeverTraps
  <2> SUFFICES ASSUME Inv, BusyOrder, RowsInStep, WishlistVisible, NEW i \in DOMAIN wlRows
               PROVE  ~deleteTraps(i)
    BY DEF DeleteNeverTraps
  <2>1. wlRows = wlShown[wlCategory]
    BY DEF BusyOrder, RowsInStep, WishlistVisible, AtRoot, InTouch
  <2>2. wlCategory \in Kind /\ wlShown[wlCategory] \in Seq(Id) /\ wlIDs[wlCategory] \in Seq(LikedId)
    BY DEF Inv, TypeOK, WishlistTypeOK
  <2>3. i \in 1..Len(wlShown[wlCategory]) /\ Len(wlShown[wlCategory]) <= Len(wlIDs[wlCategory])
    BY <2>1, <2>2 DEF RowsInStep
  <2>4. Len(wlShown[wlCategory]) \in Nat /\ Len(wlIDs[wlCategory]) \in Nat
    BY <2>2
  <2> QED BY <2>3, <2>4 DEF deleteTraps
<1> QED BY Invariance, WaitingInvariance, <1>1, PTL

(* No product is ever saved twice, by whichever screen.                    *)
THEOREM LikesStaySets == Spec => []NoDuplicateLikes
<1>1. Inv => NoDuplicateLikes
  BY DEF Inv, CopiesAreSets, NoDuplicateLikes
<1> QED BY Invariance, <1>1, PTL

(* Wherever a heart that goes through the singleton LikedProducts can be   *)
(* pressed, its copy in memory is the stored array (LikedProducts.swift    *)
(* toggles it without reading UserDefaults first).                         *)
THEOREM MemoryStaysFresh == Spec => []MemoryIsFresh
<1>1. Fresh => MemoryIsFresh
  BY DEF Fresh, MemoryIsFresh, AtDetail, AtChildren, AtRoot
<1> QED BY Invariance, <1>1, PTL

(* The heart of a detail screen and those of the rows of the children tab  *)
(* tell whether the product is saved.                                      *)
THEOREM HeartsStayTrue == Spec => []HeartsAreTrue
<1>1. Fresh => HeartsAreTrue
  BY DEF Fresh, HeartsAreTrue, AtDetail, AtChildren, AtRoot
<1> QED BY Invariance, <1>1, PTL

(* While the sheet of the map can be pressed, the copy it writes over      *)
(* UserDefaults is what UserDefaults holds.                                *)
THEOREM SheetCopyStaysFresh == Spec => []SheetCopyIsFresh
<1>1. Fresh => SheetCopyIsFresh
  BY DEF Fresh, SheetCopyIsFresh
<1> QED BY Invariance, <1>1, PTL

(* Once its houses have arrived the map has a sheet, so leaving it unwraps *)
(* no nil (MapVC.viewWillDisappear).                                       *)
THEOREM MapKeepsItsSheet == Spec => []LoadedMapHasSheet
<1>1. Inv => LoadedMapHasSheet
  BY DEF Inv, MapOrder, LoadedMapHasSheet, AtMap
<1> QED BY Invariance, <1>1, PTL

(* The prices that More info hands on are those of the house on the sheet, *)
(* in whatever order the answers of the pins came.                         *)
THEOREM PriceStaysOfTheSheet == Spec => []PriceIsOfTheSheet
<1>1. Inv => PriceIsOfTheSheet
  BY DEF Inv, MapOrder
<1> QED BY Invariance, <1>1, PTL

-----------------------------------------------------------------------------
(* The elements of an array are what it contains.                          *)
LEMMA ContainsIsToSet ==
  ASSUME NEW S, NEW s \in Seq(S), NEW y
  PROVE  y \in ToSet(s) <=> Contains(s, y)
BY DEF ToSet, Contains

(* A press of a heart on a fresh copy of an array is a press in LikeSet.   *)
LEMMA PressIsPress ==
  ASSUME LikedTypeOK, CopiesAreSets, NEW k \in Kind, NEW x \in LikedId,
         userDef' = [userDef EXCEPT ![k] = removeOrAdd(userDef[k], x)]
  PROVE  Likes!Next
<1> DEFINE old == userDef[k]
           new == removeOrAdd(old, x)
           liked == [j \in Kind |-> ToSet(userDef[j])]
<1>1. old \in Seq(LikedId) /\ IsInjective(old)
  BY DEF LikedTypeOK, CopiesAreSets
<1>2. new \in Seq(LikedId)
  BY <1>1, removeOrAddProperties
<1>3. \A y : Contains(new, y) <=> IF y = x THEN ~Contains(old, x) ELSE Contains(old, y)
  BY <1>1, removeOrAddContains
<1>4. \A y : y \in ToSet(new) <=> Contains(new, y)
  BY <1>2, ContainsIsToSet
<1>5. \A y : y \in ToSet(old) <=> Contains(old, y)
  BY <1>1, ContainsIsToSet
<1> HIDE DEF new
<1>6. ToSet(new) = IF x \in ToSet(old) THEN ToSet(old) \ {x} ELSE ToSet(old) \cup {x}
  BY <1>3, <1>4, <1>5
<1>7. \A j \in Kind : userDef'[j] = IF j = k THEN new ELSE userDef[j]
  BY DEF LikedTypeOK, new
<1>8. liked' = [liked EXCEPT ![k] = ToSet(new)]
  <2>1. \A j \in Kind : ToSet(userDef'[j]) = IF j = k THEN ToSet(new) ELSE ToSet(userDef[j])
    BY <1>7
  <2> QED BY <2>1, Zenon
<1>9. liked[k] = ToSet(old)
  OBVIOUS
<1>10. Likes!Press(k, x)
  BY <1>6, <1>8, <1>9 DEF Likes!Press
<1> QED BY <1>10 DEF Likes!Next

(* A removal from the stored array of one kind is a removal in LikeSet.    *)
LEMMA RemovalIsDiscard ==
  ASSUME LikedTypeOK, NEW k \in Kind, NEW new,
         ToSet(new) \subseteq ToSet(userDef[k]),
         userDef' = [userDef EXCEPT ![k] = new]
  PROVE  Likes!Next
<1> DEFINE liked == [j \in Kind |-> ToSet(userDef[j])]
           gone == ToSet(userDef[k]) \ ToSet(new)
<1>1. \A j \in Kind : userDef'[j] = IF j = k THEN new ELSE userDef[j]
  BY DEF LikedTypeOK
<1>2. liked' = [liked EXCEPT ![k] = ToSet(new)]
  <2>1. \A j \in Kind : ToSet(userDef'[j]) = IF j = k THEN ToSet(new) ELSE ToSet(userDef[j])
    BY <1>1
  <2> QED BY <2>1, Zenon
<1>3. liked[k] = ToSet(userDef[k])
  OBVIOUS
<1>4. ToSet(new) = liked[k] \ gone /\ gone \in SUBSET liked[k]
  BY <1>3
<1>5. Likes!Discard(k, gone)
  BY <1>2, <1>4 DEF Likes!Discard
<1> QED BY <1>4, <1>5 DEF Likes!Next

(* Every step is a press, a removal or a stutter of LikeSet.               *)
LEMMA LikeSetNext ==
  ASSUME Inv, Fresh, WishlistFresh, [Next]_vars
  PROVE  Likes!Next \/ UNCHANGED [k \in Kind |-> ToSet(userDef[k])]
<1>0. LikedTypeOK /\ CopiesAreSets /\ WishlistTypeOK /\ MapTypeOK /\ AppTypeOK
  BY DEF Inv, TypeOK
<1>1. CASE userDef' = userDef
  BY <1>1
<1>2. CASE AtDetail /\ detail.loaded /\ isLikedPerform(detail.kind, detail.id)
  <2>1. detail.kind \in Kind /\ detail.id \in LikedId
    BY <1>0, <1>2 DEF AtDetail, AppTypeOK, Detail
  <2>2. likedIDs[detail.kind] = userDef[detail.kind]
    BY <1>2 DEF AtDetail, Fresh
  <2>3. userDef' = [userDef EXCEPT ![detail.kind] = removeOrAdd(userDef[detail.kind], detail.id)]
    BY <1>2, <2>2 DEF isLikedPerform
  <2> QED BY <1>0, <2>1, <2>3, PressIsPress
<1>3. ASSUME AtChildren, NEW p \in Id, isLikedPerform("party", p)
      PROVE  Likes!Next
  <2>1. likedIDs["party"] = userDef["party"]
    BY <1>3 DEF AtChildren, AtRoot, Fresh
  <2>2. userDef' = [userDef EXCEPT !["party"] = removeOrAdd(userDef["party"], p)]
    BY <1>3, <2>1 DEF isLikedPerform
  <2> QED BY <1>0, <2>2, PressIsPress
<1>4. CASE SheetLikePressed
  <2>1. sheetLiked = userDef["house"] /\ sheetId \in LikedId
    BY <1>0, <1>4 DEF SheetLikePressed, Fresh, MapTypeOK
  <2>2. userDef' = [userDef EXCEPT !["house"] = removeOrAdd(userDef["house"], sheetId)]
    BY <1>4, <2>1 DEF SheetLikePressed
  <2> QED BY <1>0, <2>1, <2>2, PressIsPress
<1>5. CASE WishlistVisible /\ \E i \in DOMAIN wlRows : DeleteAt(i)
  <2> DEFINE ids == wlIDs[wlCategory]
  <2>1. PICK i \in DOMAIN wlRows : DeleteAt(i)
    BY <1>5
  <2>2. ids \in Seq(LikedId) /\ i \in 1..Len(ids) /\ wlCategory \in Kind
    BY <1>0, <2>1 DEF DeleteAt, deleteTraps, WishlistTypeOK
  <2>3. ToSet(RemoveAt(ids, i)) \subseteq ToSet(ids)
    BY <2>2, RemovedToSet
  <2>4. userDef' = [userDef EXCEPT ![wlCategory] = RemoveAt(ids, i)]
    BY <1>0, <2>1 DEF DeleteAt, WishlistTypeOK
  <2>5. ids = userDef[wlCategory]
    BY <1>5 DEF WishlistVisible, AtRoot, WishlistFresh
  <2> QED BY <1>0, <2>2, <2>3, <2>4, <2>5, RemovalIsDiscard
<1>6. CASE WishlistVisible /\ DeleteAll
  <2> DEFINE ids == wlIDs[wlCategory]
             n == Len(wlShown[wlCategory])
             rest == SubSeq(ids, n + 1, Len(ids))
  <2>1. ids \in Seq(LikedId) /\ n \in 0..Len(ids) /\ wlCategory \in Kind
    BY <1>0, <1>6 DEF DeleteAll, WishlistTypeOK
  <2>3. ToSet(rest) \subseteq ToSet(ids)
    BY <2>1, RemovedToSet
  <2>4. userDef' = [userDef EXCEPT ![wlCategory] = rest]
    BY <1>0, <1>6 DEF DeleteAll, WishlistTypeOK
  <2>5. ids = userDef[wlCategory]
    BY <1>6 DEF WishlistVisible, AtRoot, WishlistFresh
  <2> QED BY <1>0, <2>1, <2>3, <2>4, <2>5, RemovalIsDiscard
<1> QED BY <1>1, <1>2, <1>3, <1>4, <1>5, <1>6, LikesSteps DEF storeVars

(* LikesApp implements LikeSet: whatever copies of the arrays of likes the *)
(* screens keep and write back, every change of the stored likes is one    *)
(* press of the heart of one product, or a removal on the wishlist.        *)
THEOREM LikesStayKept == Spec => LikesAreKept
<1>1. Init => Likes!Init
  BY DEF Init, Likes!Init, ToSet
<1>2. Inv /\ Fresh /\ WishlistFresh /\ [Next]_vars => [Likes!Next]_([k \in Kind |-> ToSet(userDef[k])])
  BY LikeSetNext
<1> QED BY Invariance, <1>1, <1>2, PTL DEF Spec, LikesAreKept, Likes!Spec

-----------------------------------------------------------------------------
(* What can still take the overlays away: the answer of a load, or, for    *)
(* the wishlist, the timer that waits until it has counted three answers,  *)
(* as long as those it has and those it can still get are three.           *)
Lifts ==
  \/ pending \cap {"home", "children", "taxi", "detail"} # {}
  \/ wlTimer /\ wlResponded + open("house") + open("taxi") + open("party") = 3

(* The window is covered, and nothing will uncover it.                     *)
Stuck == ~Touchable /\ ~Lifts

(* A step after which the window is not covered more, and the same loads   *)
(* can uncover it.                                                         *)
LEMMA StuckQuiet ==
  ASSUME ~Stuck, overlays' = overlays, wlTimer' = wlTimer, wlResponded' = wlResponded,
         pending' \cup {"map"} = pending \cup {"map"}
  PROVE  ~Stuck'
<1>1. \A k \in Kind : wishlistLoad[k] \in pending' <=> wishlistLoad[k] \in pending
  BY wishlistLoadNames
<1>2. \A k \in Kind : open(k)' = open(k)
  BY <1>1 DEF open
<1>3. pending' \cap {"home", "children", "taxi", "detail"} = pending \cap {"home", "children", "taxi", "detail"}
  OBVIOUS
<1> QED BY <1>2, <1>3 DEF Stuck, Touchable, Lifts

(* A detail screen that is pushed covers nothing, or has its load to wait  *)
(* for.                                                                    *)
LEMMA StuckDetailPushed ==
  ASSUME Touchable, NEW k, NEW x, detailPushed(k, x)
  PROVE  ~Stuck'
BY DEF detailPushed, Stuck, Touchable, Lifts

(* No step but the failure of a load of houses covers the window for good. *)
LEMMA StuckNext ==
  ASSUME Inv, BusyOrder, [Next]_vars, ~Stuck
  PROVE  ~Stuck' \/ \E load \in {"home", "map", "detail", "wl_house"} : HousesFail(load)
<1>0. WishlistTypeOK /\ AppTypeOK
  BY DEF Inv, TypeOK
<1>1. CASE Relaunch
  BY <1>1 DEF Relaunch, Stuck, Lifts
<1>2. ASSUME NEW t \in Screens \cap Tab, SelectTab(t) PROVE ~Stuck'
  <2>1. Touchable /\ wlResponded' = wlResponded
    BY <1>2 DEF SelectTab, AtRoot, InTouch, RootWillAppear, WishlistWillAppear
  <2>2. CASE t \in opened
    BY <1>2, <2>1, <2>2 DEF SelectTab, Stuck, Touchable
  <2>3. CASE t \notin opened /\ t # "liked"
    <3>1. t \in pending' /\ t \in {"home", "children", "taxi"}
      BY <1>2, <2>3 DEF SelectTab, Tab
    <3> QED BY <3>1 DEF Stuck, Lifts
  <2>4. CASE t \notin opened /\ t = "liked"
    <3>1. wlTimer'
      BY <1>2, <2>4, Zenon DEF SelectTab
    <3>2. pending' = pending \cup {wishlistLoad[k] : k \in Kind}
      BY <1>2, <2>4 DEF SelectTab
    <3>3. \A j \in Kind : wishlistLoad[j] \in pending'
      BY <3>2
    <3>4. \A j \in Kind : open(j)' = 1
      BY <3>3 DEF open
    <3>5. wlResponded' = 0
      BY <2>1, <2>4 DEF BusyOrder
    <3> QED BY <3>1, <3>4, <3>5 DEF Stuck, Lifts
  <2> QED BY <2>2, <2>3, <2>4
<1>3. ASSUME NEW t, NEW list, ListArrives(t, list) PROVE ~Stuck'
  BY <1>3 DEF ListArrives, LoaderStop, Stuck, Touchable
<1>4. ASSUME NEW k \in Kind, NEW list, WishlistArrives(k, list) PROVE ~Stuck'
  <2>1. /\ wishlistLoad[k] \in pending /\ pending' = pending \ {wishlistLoad[k]}
        /\ wlResponded' = wlResponded + 1 /\ UNCHANGED <<wlTimer, overlays>>
    BY <1>4 DEF WishlistArrives, WishlistResponse
  <2>2. open(k) = 1 /\ open(k)' = 0
    BY <2>1 DEF open
  <2>3. \A j \in Kind : j # k => open(j)' = open(j)
    BY <2>1, wishlistLoadNames DEF open
  <2>4. wlResponded \in Nat /\ \A j \in Kind : open(j) \in Nat
    BY <1>0 DEF WishlistTypeOK, open
  <2>5. wlResponded' + open("house")' + open("taxi")' + open("party")'
          = wlResponded + open("house") + open("taxi") + open("party")
    <3>1. CASE k = "house"
      BY <2>1, <2>2, <2>3, <2>4, <3>1
    <3>2. CASE k = "taxi"
      BY <2>1, <2>2, <2>3, <2>4, <3>2
    <3>3. CASE k = "party"
      BY <2>1, <2>2, <2>3, <2>4, <3>3
    <3> QED BY <3>1, <3>2, <3>3
  <2>6. \A load \in {"home", "children", "taxi", "detail"} : load \in pending => load \in pending'
    BY <2>1, wishlistLoadNames
  <2> QED BY <2>1, <2>5, <2>6 DEF Stuck, Touchable, Lifts
<1>5. CASE WishlistLoaded
  BY <1>5 DEF WishlistLoaded, WishlistTick, LoaderStop, Stuck, Touchable
<1>6. CASE DetailArrives
  BY <1>6 DEF DetailArrives, LoaderStop, Stuck, Touchable
<1>7. ASSUME \/ \E t, x : OpenListed(t, x)
             \/ \E i : OpenLiked(i)
             \/ MoreInfo
      PROVE  ~Stuck'
  <2>1. Touchable /\ \E k, x : detailPushed(k, x)
    BY <1>7 DEF OpenListed, OpenLiked, MoreInfo, WishlistVisible, AtRoot, AtMap, InTouch
  <2> QED BY <2>1, StuckDetailPushed
<1>8. ASSUME \/ \E t : EmptyListArrives(t)
             \/ \E houses : MapListArrives(houses)
             \/ DetailLikePressed
             \/ \E p : PartyLikePressed(p)
             \/ BackFromDetail
             \/ OpenMap \/ LeaveMap \/ LeaveMapTraps \/ MapStep \/ SheetLike
             \/ \E k : WishlistSegment(k)
             \/ WishlistDelete
             \/ UNCHANGED vars
      PROVE  ~Stuck'
  <2>1. pending' \cup {"map"} = pending \cup {"map"} /\ overlays' = overlays
    BY <1>8 DEF EmptyListArrives, MapListArrives, DetailLikePressed, PartyLikePressed,
       BackFromDetail, OpenMap, LeaveMap, LeaveMapTraps, MapStep, SheetLike, WishlistSegment, WishlistDelete,
       Trap, vars, loadVars
  <2>2. UNCHANGED <<wlTimer, wlResponded>>
    <3>1. CASE BackFromDetail
      BY <3>1 DEF BackFromDetail, RootWillAppear, WishlistWillAppear, wlVars
    <3> QED BY <1>8, <3>1 DEF EmptyListArrives, MapListArrives, DetailLikePressed, PartyLikePressed,
       OpenMap, LeaveMap, LeaveMapTraps, MapStep, SheetLike, WishlistSegment, WishlistDelete,
       SegmentPressed, DeleteAt, DeleteAll, Trap, vars, wlVars
  <2> QED BY <2>1, <2>2, StuckQuiet
<1> QED BY <1>1, <1>2, <1>3, <1>4, <1>5, <1>6, <1>7, <1>8 DEF Next

(* A covered window stays covered only after a load of houses has failed:  *)
(* no other step, and no answer, takes away the last thing that would call *)
(* Loader.stop (HomeVC.setHouses, HomeDetailVC.setDetailData, the taxi and *)
(* the children tab with their lists, and the timer of LikedHousesVC).     *)
StuckOnlyByFailure ==
  [][Stuck' => Stuck \/ \E load \in {"home", "map", "detail", "wl_house"} : HousesFail(load)]_vars

(* Every step of the application keeps an overlay one way to go, but for   *)
(* the failure of a load of houses (Net answers nil, and the handlers      *)
(* return before Loader.stop).                                             *)
THEOREM OnlyAFailureSticks == Spec => StuckOnlyByFailure
<1>1. Inv /\ BusyOrder /\ [Next]_vars =>
        [Stuck' => Stuck \/ \E load \in {"home", "map", "detail", "wl_house"} : HousesFail(load)]_vars
  BY StuckNext
<1> QED BY Invariance, WaitingInvariance, <1>1, PTL DEF Spec, StuckOnlyByFailure

(* Where no load fails, every covered window has a load or the timer of    *)
(* the wishlist that will uncover it, over all orders of answers and of    *)
(* tabs opened for the first time.                                         *)
THEOREM NoScreenSticks ==
  ASSUME CanFail = FALSE
  PROVE  Spec => []~Stuck
<1>1. Init => ~Stuck
  BY DEF Init, Stuck, Lifts
<1>2. ~\E load \in {"home", "map", "detail", "wl_house"} : HousesFail(load)
  BY DEF HousesFail
<1>3. Inv /\ BusyOrder /\ ~Stuck /\ [Next]_vars => ~Stuck'
  BY <1>2, StuckNext
<1> QED BY Invariance, WaitingInvariance, <1>1, <1>3, PTL DEF Spec

-----------------------------------------------------------------------------
(* The heart on the sheet was drawn from one of two arrays: the copy the   *)
(* map took when it appeared, or the one the sheet itself keeps.           *)
HeartIsFromACopy ==
  sheetUp /\ sheetId # ZeroId =>
    \/ sheetHeart = Contains(mapLiked, sheetId)
    \/ sheetHeart = Contains(sheetLiked, sheetId)

LEMMA HeartNext ==
  ASSUME Inv, HeartIsFromACopy, [Next]_vars
  PROVE  HeartIsFromACopy'
<1>0. MapTypeOK /\ CopiesAreSets
  BY DEF Inv, TypeOK
<1>1. CASE UNCHANGED mapVars
  BY <1>1 DEF mapVars, sheetVars, HeartIsFromACopy
<1>2. CASE sheetId' = ZeroId \/ ~sheetUp'
  BY <1>2 DEF HeartIsFromACopy
<1>3. ASSUME NEW h \in Id, PinSelected(h) \/ PinFails(h) PROVE HeartIsFromACopy'
  BY <1>3 DEF PinSelected, PinFails, sheetVars, HeartIsFromACopy
<1>4. ASSUME NEW h \in Id, PinArrives(h) PROVE HeartIsFromACopy'
  BY <1>4 DEF PinArrives, HeartIsFromACopy
<1>5. CASE SheetLikePressed
  <2>1. sheetLiked' = removeOrAdd(sheetLiked, sheetId) /\ sheetHeart' = ~Contains(sheetLiked, sheetId)
        /\ sheetId' = sheetId
    BY <1>5 DEF SheetLikePressed
  <2>2. Contains(removeOrAdd(sheetLiked, sheetId), sheetId) <=> ~Contains(sheetLiked, sheetId)
    <3>1. sheetLiked \in Seq(LikedId) /\ IsInjective(sheetLiked) /\ sheetId \in LikedId
      BY <1>0 DEF MapTypeOK, CopiesAreSets
    <3> QED BY <3>1, removeOrAddContains
  <2>3. Contains(sheetLiked', sheetId') = ~Contains(sheetLiked, sheetId)
    <3>1. Contains(sheetLiked', sheetId') \in BOOLEAN /\ Contains(sheetLiked, sheetId) \in BOOLEAN
      BY DEF Contains
    <3> QED BY <2>1, <2>2, <3>1
  <2> QED BY <2>1, <2>3 DEF HeartIsFromACopy
<1>6. \A h \in ToSet(mapHouses) : h \in Id
  BY <1>0 DEF MapTypeOK, ToSet
<1>7. MapReset(<<>>) \/ MapReset(userDef["house"]) => sheetId' = ZeroId
  BY DEF MapReset
<1>8. (\E houses : MapHousesArrive(houses)) \/ MapWillAppear \/ SheetDismissed => sheetId' = ZeroId
  BY DEF MapHousesArrive, MapWillAppear, SheetDismissed, addChildHomeVC
<1>9. MapWillDisappear => ~sheetUp'
  BY DEF MapWillDisappear
<1> QED BY <1>1, <1>2, <1>3, <1>4, <1>5, <1>6, <1>7, <1>8, <1>9, MapSteps

(* What bug_heart refutes of the sheet of the map is wrong in one way      *)
(* only: as long as the map's copy of the likes is what is stored, the     *)
(* heart on the sheet tells the truth, over every order of pins, answers,  *)
(* dismissals and returns.  MapVC reads that copy as it appears, and not   *)
(* after a press on the sheet.                                             *)
SheetHeartErrsOnlyByTheMapsCopy ==
  AtMap /\ sheetUp /\ sheetId # ZeroId /\ mapLiked = userDef["house"] =>
    (sheetHeart <=> Contains(userDef["house"], sheetId))

(* The heart of the sheet of the map is wrong by the stale copy of the     *)
(* map only (MapVC.addChildHomeVC, MapChildVC.likePressed).                *)
THEOREM SheetHeartOftenTrue == Spec => []SheetHeartErrsOnlyByTheMapsCopy
<1>1. Init => HeartIsFromACopy
  BY DEF Init, MapInit, HeartIsFromACopy
<1>2. Inv /\ HeartIsFromACopy /\ [Next]_vars => HeartIsFromACopy'
  BY HeartNext
<1>3. Fresh /\ HeartIsFromACopy => SheetHeartErrsOnlyByTheMapsCopy
  BY DEF Fresh, HeartIsFromACopy, SheetHeartErrsOnlyByTheMapsCopy
<1> QED BY Invariance, <1>1, <1>2, <1>3, PTL DEF Spec

-----------------------------------------------------------------------------
(* Of the traps in the code of these screens two can happen: on the way    *)
(* back from a map whose houses have not come (MapVC.viewWillDisappear     *)
(* unwraps the sheet), and at an empty list of taxis or of parties         *)
(* (SortingPrices, 1...0).                                                 *)
TrapsAreKnown ==
  [][alive /\ ~alive' =>
       \/ AtMap /\ mapHouses = <<>>
       \/ \E t \in {"children", "taxi"} : t \in pending /\ <<>> \in Listing(tabKind[t])]_vars

(* No other unwrapping or index ends the program, on any way through its   *)
(* screens.                                                                *)
THEOREM OnlyKnownTraps == Spec => TrapsAreKnown
<1>1. ASSUME Inv, [Next]_vars, alive, ~alive'
      PROVE  \/ AtMap /\ mapHouses = <<>>
             \/ \E t \in {"children", "taxi"} : t \in pending /\ <<>> \in Listing(tabKind[t])
  <2>1. (\E t \in DOMAIN tabKind : EmptyListArrives(t)) \/ LeaveMapTraps
    <3>1. CASE UNCHANGED vars
      BY <1>1, <3>1 DEF vars
    <3>2. CASE Next
      BY <1>1, <3>2 DEF Next, Relaunch, SelectTab, ListArrives, WishlistArrives, MapListArrives,
        HousesFail, WishlistLoaded, OpenListed, OpenLiked, DetailArrives, DetailLikePressed, PartyLikePressed, BackFromDetail,
        OpenMap, LeaveMap, MoreInfo, MapStep, SheetLike, WishlistSegment, WishlistDelete
    <3> QED BY <1>1, <3>1, <3>2
  <2>2. LeaveMapTraps => AtMap /\ mapHouses = <<>>
    BY <1>1 DEF LeaveMapTraps, disappearTraps, AtMap, Inv, MapOrder
  <2>3. ASSUME NEW t \in DOMAIN tabKind, EmptyListArrives(t)
        PROVE  t \in {"children", "taxi"} /\ t \in pending /\ <<>> \in Listing(tabKind[t])
    <3>1. t \in pending /\ <<>> \in Listing(tabKind[t])
      BY <2>3 DEF EmptyListArrives
    <3>2. <<>> \notin Listing("house")
      BY DEF Listing
    <3> QED BY <3>1, <3>2 DEF tabKind
  <2> QED BY <2>1, <2>2, <2>3
<1>2. Inv /\ [Next]_vars =>
        [alive /\ ~alive' => \/ AtMap /\ mapHouses = <<>>
                             \/ \E t \in {"children", "taxi"} : t \in pending /\ <<>> \in Listing(tabKind[t])]_vars
  BY <1>1
<1> QED BY Invariance, <1>2, PTL DEF Spec, TrapsAreKnown

(* When the map appears again, or a sheet is pulled down, its houses are   *)
(* there: MapVC looks whether allHouses is empty before it asks for the    *)
(* first of them again, and the answer is always no.                       *)
MapReturnsToHouses == sheetUp \/ (mapOpen /\ detail.kind # "none") => mapHouses # <<>>

(* The map that comes back or loses its sheet has houses to make a sheet   *)
(* of (MapVC.viewWillAppear).                                              *)
THEOREM HousesAreThere == Spec => []MapReturnsToHouses
<1>1. Inv => MapReturnsToHouses
  BY DEF Inv, MapOrder, MapReturnsToHouses
<1> QED BY Invariance, <1>1, PTL

-----------------------------------------------------------------------------
(* A deletion on the wishlist in front works on the stored array itself.   *)
LEMMA WishlistInFront ==
  ASSUME Inv, Fresh, WishlistFresh, WishlistVisible
  PROVE  /\ wlCategory \in Kind
         /\ wlIDs[wlCategory] = userDef[wlCategory]
         /\ userDef[wlCategory] \in Seq(LikedId)
         /\ IsInjective(userDef[wlCategory])
         /\ wlShown[wlCategory] \in Seq(Id)
BY DEF Inv, TypeOK, LikedTypeOK, WishlistTypeOK, CopiesAreSets, WishlistFresh, WishlistVisible, AtRoot

(* What bug_delete_all refutes of "delete all" holds in numbers: it takes  *)
(* as many likes away as there are rows, neither more nor fewer, so that   *)
(* nothing stays saved exactly if the rows are as many as the likes        *)
(* (LikedHousesVC.deleteAllProducts, deleteAt(ind: 0) for every row).      *)
DeleteAllCounts ==
  [][WishlistVisible /\ DeleteAll =>
       LET c == wlCategory IN
       /\ Len(userDef'[c]) = Len(userDef[c]) - Len(wlShown[c])
       /\ userDef'[c] = <<>> <=> Len(userDef[c]) = Len(wlShown[c])]_vars

(* "Delete all" removes one like for every row, whichever the likes are    *)
(* that it removes (LikedHousesVC.deleteAllProducts).                      *)
THEOREM DeleteAllDeletesAsMany == Spec => DeleteAllCounts
<1>1. ASSUME Inv, Fresh, WishlistFresh, WishlistVisible, DeleteAll
      PROVE  LET c == wlCategory IN
             /\ Len(userDef'[c]) = Len(userDef[c]) - Len(wlShown[c])
             /\ userDef'[c] = <<>> <=> Len(userDef[c]) = Len(wlShown[c])
  <2> DEFINE c == wlCategory
             ids == userDef[c]
             n == Len(wlShown[c])
             rest == SubSeq(ids, n + 1, Len(ids))
  <2>1. c \in Kind /\ wlIDs[c] = ids /\ ids \in Seq(LikedId) /\ wlShown[c] \in Seq(Id)
    BY <1>1, WishlistInFront
  <2>2. n \in Nat /\ Len(ids) \in Nat /\ n <= Len(ids)
    BY <1>1, <2>1 DEF DeleteAll
  <2>3. userDef'[c] = rest
    BY <1>1, <2>1 DEF DeleteAll, Inv, TypeOK, LikedTypeOK, WishlistTypeOK
  <2> HIDE DEF c, ids, n
  <2>4. rest \in Seq(LikedId) /\ Len(rest) = Len(ids) - n
    <3>1. \A j \in (n + 1)..Len(ids) : ids[j] \in LikedId
      BY <2>1, <2>2
    <3> QED BY <2>1, <2>2, <3>1, SubSeqProperties
  <2>5. rest = <<>> <=> Len(rest) = 0
    <3> HIDE DEF rest
    <3> QED BY <2>4, EmptySeq
  <2>6. Len(userDef'[c]) = Len(ids) - n /\ (userDef'[c] = <<>> <=> Len(ids) = n)
    BY <2>2, <2>3, <2>4, <2>5
  <2> QED BY <2>6 DEF c, ids, n
<1>2. Inv /\ Fresh /\ WishlistFresh /\ [Next]_vars =>
        [WishlistVisible /\ DeleteAll =>
           LET c == wlCategory IN
           /\ Len(userDef'[c]) = Len(userDef[c]) - Len(wlShown[c])
           /\ userDef'[c] = <<>> <=> Len(userDef[c]) = Len(wlShown[c])]_vars
  BY <1>1
<1> QED BY Invariance, <1>2, PTL DEF Spec, DeleteAllCounts

(* A swipe on a row unlikes the product of that row, and no other, as long *)
(* as the list shown is the array of likes, in its order; and the two stay *)
(* the same after it.  (LikedHousesVC.deleteAt removes at one index from   *)
(* both: in another order it unlikes another product.)                     *)
SwipeUnlikesItsRow ==
  [][\A i \in DOMAIN wlRows :
       WishlistVisible /\ wlShown[wlCategory] = userDef[wlCategory] /\ DeleteAt(i) =>
         /\ ToSet(userDef'[wlCategory]) = ToSet(userDef[wlCategory]) \ {wlRows[i]}
         /\ wlShown'[wlCategory] = userDef'[wlCategory]]_vars

(* A swipe is right wherever the list is shown in the order of liking      *)
(* (LikedHousesVC.deleteAt).                                               *)
THEOREM SwipesUnlikeTheirRows == Spec => SwipeUnlikesItsRow
<1>1. ASSUME Inv, Fresh, WishlistFresh, BusyOrder, RowsInStep, NEW i \in DOMAIN wlRows,
             WishlistVisible, wlShown[wlCategory] = userDef[wlCategory], DeleteAt(i)
      PROVE  /\ ToSet(userDef'[wlCategory]) = ToSet(userDef[wlCategory]) \ {wlRows[i]}
             /\ wlShown'[wlCategory] = userDef'[wlCategory]
  <2> DEFINE c == wlCategory
             ids == userDef[c]
  <2>1. c \in Kind /\ wlIDs[c] = ids /\ ids \in Seq(LikedId) /\ IsInjective(ids)
    BY <1>1, WishlistInFront
  <2>2. wlRows = ids
    BY <1>1 DEF BusyOrder, RowsInStep, WishlistVisible, AtRoot, InTouch
  <2>3. userDef'[c] = RemoveAt(ids, i) /\ wlShown'[c] = RemoveAt(ids, i)
    BY <1>1, <2>1 DEF DeleteAt, Inv, TypeOK, LikedTypeOK, WishlistTypeOK
  <2>4. i \in 1..Len(ids)
    BY <2>1, <2>2
  <2> HIDE DEF c, ids
  <2>5. /\ RemoveAt(ids, i) \in Seq(LikedId) /\ Len(RemoveAt(ids, i)) = Len(ids) - 1
        /\ \A j \in 1..(Len(ids) - 1) : RemoveAt(ids, i)[j] = IF j < i THEN ids[j] ELSE ids[j + 1]
    BY <2>1, <2>4, RemoveAtProperties
  <2>6. ToSet(RemoveAt(ids, i)) = ToSet(ids) \ {ids[i]}
    <3> DEFINE t == RemoveAt(ids, i)
    <3>1. \A j, k \in 1..Len(ids) : ids[j] = ids[k] => j = k
      BY <2>1 DEF IsInjective
    <3>2. \A x : x \in ToSet(t) <=> \E j \in 1..(Len(ids) - 1) : x = t[j]
      BY <2>5 DEF ToSet
    <3>3. \A x : x \in ToSet(ids) <=> \E j \in 1..Len(ids) : x = ids[j]
      BY <2>1 DEF ToSet
    <3>4. ASSUME NEW x \in ToSet(t) PROVE x \in ToSet(ids) \ {ids[i]}
      <4>1. PICK j \in 1..(Len(ids) - 1) : x = t[j]
        BY <3>2
      <4>2. PICK k \in 1..Len(ids) : x = ids[k] /\ k # i
        BY <2>4, <2>5, <4>1
      <4> QED BY <2>4, <3>1, <3>3, <4>2
    <3>5. ASSUME NEW x \in ToSet(ids) \ {ids[i]} PROVE x \in ToSet(t)
      <4>1. PICK k \in 1..Len(ids) : x = ids[k] /\ k # i
        BY <3>3
      <4>2. CASE k < i
        <5>1. k \in 1..(Len(ids) - 1) /\ t[k] = x
          BY <2>4, <2>5, <4>1, <4>2
        <5> QED BY <3>2, <5>1
      <4>3. CASE k > i
        <5>1. k - 1 \in 1..(Len(ids) - 1) /\ ~(k - 1 < i) /\ (k - 1) + 1 = k
          BY <2>4, <4>1, <4>3
        <5>2. t[k - 1] = x
          BY <2>5, <4>1, <5>1
        <5> QED BY <3>2, <5>1, <5>2
      <4> QED BY <2>4, <4>1, <4>2, <4>3
    <3> QED BY <3>4, <3>5
  <2>7. ToSet(userDef'[c]) = ToSet(ids) \ {wlRows[i]} /\ wlShown'[c] = userDef'[c]
    BY <2>2, <2>3, <2>6
  <2> QED BY <2>7 DEF c, ids
<1>2. Inv /\ Fresh /\ WishlistFresh /\ BusyOrder /\ RowsInStep /\ [Next]_vars =>
        [\A i \in DOMAIN wlRows :
           WishlistVisible /\ wlShown[wlCategory] = userDef[wlCategory] /\ DeleteAt(i) =>
             /\ ToSet(userDef'[wlCategory]) = ToSet(userDef[wlCategory]) \ {wlRows[i]}
             /\ wlShown'[wlCategory] = userDef'[wlCategory]]_vars
  BY <1>1
<1> QED BY Invariance, WaitingInvariance, <1>2, PTL DEF Spec, SwipeUnlikesItsRow

=============================================================================
