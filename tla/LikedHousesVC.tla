---------------------------- MODULE LikedHousesVC ----------------------------
(***************************************************************************)
(* The wishlist.  It keeps the product lists of the server, its own copy   *)
(* of the three arrays of likes, and for each kind the liked products in   *)
(* the order of the server's list.  It deletes a row by index: the same    *)
(* index in the list it shows and in its copy of the array, which is in    *)
(* the order the user liked things, and then stores the array.             *)
(***************************************************************************)
EXTENDS LikedProducts, Loader

VARIABLES
  wlIDs,          \* likedHousesID, likedTaxisIDs, likedPartiesIDs
  wlAll,          \* allHouses, allTaxis, allParties
  wlShown,        \* likedHouses, likedTaxiServices, likedChildrenParties
  wlRows,         \* the rows of the table as of its last reload
  wlHidden,       \* is the table hidden behind the "nothing saved" animation?
  wlCategory,     \* selectedCategory
  wlResponded,    \* serviceRespondCounter
  wlTimer         \* is the timer of viewDidLoad still repeating?

wlVars == <<wlIDs, wlAll, wlShown, wlRows, wlHidden, wlCategory, wlResponded, wlTimer>>

\* The products of a server list that are in an array of likes.
likedOf(all, ids) ==
  LET kept[n \in 0..Len(all)] ==
        IF n = 0 THEN <<>>
        ELSE IF Contains(ids, all[n]) THEN Append(kept[n - 1], all[n])
        ELSE kept[n - 1]
  IN  kept[Len(all)]

WishlistInit ==
  /\ wlIDs = [k \in Kind |-> <<>>]
  /\ wlAll = [k \in Kind |-> <<>>]
  /\ wlShown = [k \in Kind |-> <<>>]
  /\ wlRows = <<>>
  /\ wlHidden = FALSE
  /\ wlCategory = "house"
  /\ wlResponded = 0
  /\ wlTimer = FALSE

\* A new application: the controller is created again when its tab is opened.
WishlistReset ==
  /\ wlIDs' = [k \in Kind |-> <<>>]
  /\ wlAll' = [k \in Kind |-> <<>>]
  /\ wlShown' = [k \in Kind |-> <<>>]
  /\ wlRows' = <<>>
  /\ wlHidden' = FALSE
  /\ wlCategory' = "house"
  /\ wlResponded' = 0
  /\ wlTimer' = FALSE

\* Mutant: the copies of the arrays of likes are not read again.
updateLikedKeepsIDs ==
  /\ wlShown' = [k \in Kind |-> likedOf(wlAll[k], userDef[k])]
  /\ UNCHANGED wlIDs

\* updateLikedHouses, updateLikedTaxis and updateLikedParties.
updateLiked ==
  /\ wlIDs' = userDef
  /\ wlShown' = [k \in Kind |-> likedOf(wlAll[k], userDef[k])]

\* Mutant: the table is not reloaded.
reloadNoRows(category, shownFor) ==
  /\ wlHidden' = (wlShown'[shownFor] = <<>>)
  /\ UNCHANGED wlRows

\* showEmptyAnimation(shownFor) and tableView.reloadData()
reload(category, shownFor) ==
  /\ wlHidden' = (wlShown'[shownFor] = <<>>)
  /\ wlRows' = wlShown'[category]

WishlistWillAppear ==
  /\ updateLiked
  /\ reload(wlCategory, wlCategory)
  /\ UNCHANGED <<wlAll, wlCategory, wlResponded>>

\* The answer of one of the three services, once for each of them.
WishlistResponse(k, list) ==
  /\ wlResponded' = wlResponded + 1
  /\ wlAll' = [wlAll EXCEPT ![k] = list]
  /\ wlIDs' = [wlIDs EXCEPT ![k] = userDef[k]]
  /\ wlShown' = [wlShown EXCEPT ![k] = likedOf(list, userDef[k])]
  /\ UNCHANGED <<wlRows, wlHidden, wlCategory, wlTimer>>

\* The tick of the timer that finds all three services answered.
WishlistTick ==
  /\ wlTimer
  /\ wlResponded = 3
  /\ updateLiked
  /\ reload(wlCategory, "house")
  /\ LoaderStop
  /\ wlTimer' = FALSE
  /\ UNCHANGED <<wlAll, wlCategory, wlResponded>>

SegmentPressed(k) ==
  /\ wlCategory' = k
  /\ wlHidden' = (wlShown[k] = <<>>)
  /\ wlRows' = wlShown[k]
  /\ UNCHANGED <<wlIDs, wlAll, wlShown, wlResponded, wlTimer>>

\* Array.remove(at:) stops the program on an index outside the array.
deleteTraps(i) == i > Len(wlShown[wlCategory]) \/ i > Len(wlIDs[wlCategory])

\* deleteAt(ind:), from a swipe on row i.
DeleteAt(i) ==
  /\ ~deleteTraps(i)
  /\ wlShown' = [wlShown EXCEPT ![wlCategory] = RemoveAt(@, i)]
  /\ wlIDs' = [wlIDs EXCEPT ![wlCategory] = RemoveAt(@, i)]
  /\ userDef' = [userDef EXCEPT ![wlCategory] = wlIDs'[wlCategory]]
  /\ reload(wlCategory, wlCategory)
  /\ UNCHANGED <<wlAll, wlCategory, wlResponded, wlTimer>>

\* deleteAllProducts: deleteAt(ind: 0) once for every row shown, so as many
\* ids leave the front of the array as there are rows.
DeleteAll ==
  LET n == Len(wlShown[wlCategory]) IN
  /\ n <= Len(wlIDs[wlCategory])
  /\ wlShown' = [wlShown EXCEPT ![wlCategory] = <<>>]
  /\ wlIDs' = [wlIDs EXCEPT ![wlCategory] = SubSeq(@, n + 1, Len(@))]
  /\ userDef' = [userDef EXCEPT ![wlCategory] = wlIDs'[wlCategory]]
  /\ reload(wlCategory, wlCategory)
  /\ UNCHANGED <<wlAll, wlCategory, wlResponded, wlTimer>>

WishlistTypeOK ==
  /\ wlIDs \in [Kind -> Seq(LikedId)]
  /\ wlAll \in [Kind -> Seq(Id)]
  /\ wlShown \in [Kind -> Seq(Id)]
  /\ wlRows \in Seq(Id)
  /\ wlHidden \in BOOLEAN
  /\ wlCategory \in Kind
  /\ wlResponded \in Nat
  /\ wlTimer \in BOOLEAN

=============================================================================
