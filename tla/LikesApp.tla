------------------------------- MODULE LikesApp -------------------------------
(***************************************************************************)
(* The screens that show or change likes, and the ways between them: the   *)
(* tab bar, the screens pushed over a tab, the map with its sheet, and the *)
(* wishlist.  Everything runs on the main thread, so a handler is a step.  *)
(***************************************************************************)
EXTENDS LikedHousesVC, MapVC

CONSTANTS
  Products,   \* Products[k]: the products of kind k on the server
  Screens     \* the tabs the user visits in this instance, and the map

Tab == {"home", "children", "taxi", "liked"}

ASSUME AppAssumption ==
  /\ Products \in [Kind -> SUBSET Id]
  /\ Screens \subseteq Tab \cup {"map"}
  /\ "home" \in Screens

\* The kind of product each tab lists.
tabKind == [t \in {"home", "children", "taxi"} |->
              CASE t = "home" -> "house" [] t = "children" -> "party" [] t = "taxi" -> "taxi"]

VARIABLES
  alive,        \* FALSE once the program has trapped
  tab,          \* the selected tab
  opened,       \* the tabs whose viewDidLoad has run
  pending,      \* the loads whose outcome is still open
  listed,       \* listed[k]: the products listed by the tab of kind k
  partyHeart,   \* the hearts drawn on the rows of the children tab
  mapOpen,      \* a MapVC is pushed on the home tab
  detail        \* the detail screen on top of the stack, if any

loadVars == <<opened, pending, listed>>
navVars == <<tab, mapOpen, detail>>
storeVars == <<userDef, likedIDs>>
vars == <<storeVars, overlays, wlVars, mapVars, alive, loadVars, navVars, partyHeart>>

NoDetail == [kind |-> "none", id |-> ZeroId, loaded |-> FALSE, heart |-> FALSE]
Detail == [kind : Kind \cup {"none"}, id : LikedId, loaded : BOOLEAN, heart : BOOLEAN]

wishlistLoad == [k \in Kind |->
  CASE k = "house" -> "wl_house" [] k = "taxi" -> "wl_taxi" [] k = "party" -> "wl_party"]

Load == {"home", "children", "taxi", "map", "detail", "wl_house", "wl_taxi", "wl_party"}

\* What a load can deliver: products of one kind, each once, in any order.
\* getAllHouses delivers at its last answer, which is a house.
Listing(k) == {s \in SeqOf(Products[k], Cardinality(Products[k])) :
                 IsInjective(s) /\ (k = "house" => s # <<>>)}

-----------------------------------------------------------------------------
\* Which screen takes the touches.
InTouch == alive /\ Touchable
AtRoot(t) == InTouch /\ tab = t /\ ~mapOpen /\ detail.kind = "none"
AtDetail == InTouch /\ detail.kind # "none"
AtMap == InTouch /\ mapOpen /\ detail.kind = "none"
AtChildren == AtRoot("children") /\ listed["party"] # {}

\* A new process: HomeVC opens and starts its load, and the singleton of the
\* likes reads the stored arrays.
Init ==
  /\ userDef = [k \in Kind |-> <<>>]
  /\ likedIDs = [k \in Kind |-> <<>>]
  /\ overlays = 1
  /\ WishlistInit
  /\ MapInit
  /\ alive = TRUE
  /\ tab = "home"
  /\ opened = {"home"}
  /\ pending = {"home"}
  /\ listed = [k \in Kind |-> {}]
  /\ partyHeart = [p \in Id |-> FALSE]
  /\ mapOpen = FALSE
  /\ detail = NoDetail

\* The user ends the application, or it has trapped, and opens it again.
Relaunch ==
  /\ getLikedProducts
  /\ overlays' = 1
  /\ WishlistReset
  /\ MapReset(<<>>)
  /\ alive' = TRUE
  /\ tab' = "home"
  /\ opened' = {"home"}
  /\ pending' = {"home"}
  /\ listed' = [k \in Kind |-> {}]
  /\ partyHeart' = [p \in Id |-> FALSE]
  /\ mapOpen' = FALSE
  /\ detail' = NoDetail
  /\ UNCHANGED userDef

Trap ==
  /\ alive' = FALSE
  /\ UNCHANGED <<storeVars, overlays, wlVars, mapVars, loadVars, navVars, partyHeart>>

-----------------------------------------------------------------------------
\* Mutant: a row draws its heart from the memory of the singleton as it is.
partyRowsBuiltStale(rows) ==
  IF rows = {} THEN UNCHANGED <<likedIDs, partyHeart>>
  ELSE /\ partyHeart' = [p \in Id |-> Contains(likedIDs["party"], p)]
       /\ UNCHANGED likedIDs

\* ChildrensServiceVC: the rows are built again, and each asks isLiked.
partyRowsBuilt(rows) ==
  IF rows = {} THEN UNCHANGED <<likedIDs, partyHeart>>
  ELSE /\ getLikedProducts
       /\ partyHeart' = [p \in Id |-> isLiked("party", p)]

\* Mutant: the children tab does not reload its table when it appears.
RootWillAppearNoReload(t) ==
  /\ UNCHANGED <<likedIDs, partyHeart>>
  /\ IF t = "liked" THEN WishlistWillAppear
                    ELSE UNCHANGED <<wlIDs, wlAll, wlShown, wlRows, wlHidden, wlCategory, wlResponded>>

\* viewWillAppear of the root screen of a tab.
RootWillAppear(t) ==
  /\ IF t = "children" THEN partyRowsBuilt(listed["party"])
                       ELSE UNCHANGED <<likedIDs, partyHeart>>
  /\ IF t = "liked" THEN WishlistWillAppear
                    ELSE UNCHANGED <<wlIDs, wlAll, wlShown, wlRows, wlHidden, wlCategory, wlResponded>>

\* The first visit of a tab runs viewDidLoad: overlays, loads, the timer.
SelectTab(t) ==
  /\ AtRoot(tab)
  /\ t # tab
  /\ tab' = t
  /\ opened' = opened \cup {t}
  /\ IF t \in opened
       THEN UNCHANGED <<overlays, pending, wlTimer>>
       ELSE /\ LoaderStart(IF t = "liked" THEN 1 ELSE 2)
            /\ pending' = pending \cup
                 (IF t = "liked" THEN {wishlistLoad[k] : k \in Kind} ELSE {t})
            /\ wlTimer' = (wlTimer \/ t = "liked")
  /\ RootWillAppear(t)
  /\ UNCHANGED <<userDef, mapVars, alive, listed, mapOpen, detail>>

\* The load of the home, children or taxi tab delivers its list and lifts
\* the overlays.  An empty list of a service traps in sortByExpensive.
ListArrives(t, list) ==
  /\ alive
  /\ t \in pending
  /\ list # <<>>
  /\ pending' = pending \ {t}
  /\ listed' = [listed EXCEPT ![tabKind[t]] = ToSet(list)]
  /\ LoaderStop
  /\ IF t = "children" THEN partyRowsBuilt(ToSet(list)) ELSE UNCHANGED <<likedIDs, partyHeart>>
  /\ UNCHANGED <<userDef, wlVars, mapVars, alive, opened, navVars>>

EmptyListArrives(t) ==
  /\ alive
  /\ t \in pending
  /\ <<>> \in Listing(tabKind[t])
  /\ Trap

WishlistArrives(k, list) ==
  /\ alive
  /\ wishlistLoad[k] \in pending
  /\ pending' = pending \ {wishlistLoad[k]}
  /\ WishlistResponse(k, list)
  /\ UNCHANGED <<storeVars, overlays, mapVars, alive, opened, listed, navVars, partyHeart>>

MapListArrives(houses) ==
  /\ alive
  /\ "map" \in pending
  /\ pending' = pending \ {"map"}
  /\ MapHousesArrive(houses)
  /\ UNCHANGED <<storeVars, overlays, wlVars, alive, opened, listed, navVars, partyHeart>>

\* A load of houses that ends with a failed answer is over without a list,
\* and the overlay of its screen stays.
HousesFail(load) ==
  /\ CanFail
  /\ alive
  /\ load \in pending
  /\ pending' = pending \ {load}
  /\ UNCHANGED <<storeVars, overlays, wlVars, mapVars, alive, opened, listed, navVars, partyHeart>>

WishlistLoaded ==
  /\ alive
  /\ WishlistTick
  /\ UNCHANGED <<storeVars, mapVars, alive, loadVars, navVars, partyHeart>>

-----------------------------------------------------------------------------
\* A detail screen is pushed.  A taxi or a party is at hand and its heart is
\* drawn at once; a house is fetched first, under an overlay.
detailPushed(k, x) ==
  IF k = "house"
    THEN /\ detail' = [kind |-> k, id |-> x, loaded |-> FALSE, heart |-> FALSE]
         /\ LoaderStart(1)
         /\ pending' = pending \cup {"detail"}
         /\ UNCHANGED likedIDs
    ELSE /\ detail' = [kind |-> k, id |-> x, loaded |-> TRUE, heart |-> isLiked(k, x)]
         /\ getLikedProducts
         /\ UNCHANGED <<overlays, pending>>

OpenListed(t, x) ==
  /\ AtRoot(t)
  /\ x \in listed[tabKind[t]]
  /\ detailPushed(tabKind[t], x)
  /\ UNCHANGED <<userDef, wlVars, mapVars, alive, tab, opened, listed, mapOpen, partyHeart>>

WishlistVisible == AtRoot("liked") /\ ~wlHidden

\* didSelectRowAt takes the product from the list, by the index of the row.
OpenLiked(i) ==
  /\ WishlistVisible
  /\ i \in DOMAIN wlRows
  /\ i <= Len(wlShown[wlCategory])
  /\ detailPushed(wlCategory, wlShown[wlCategory][i])
  /\ UNCHANGED <<userDef, wlVars, mapVars, alive, tab, opened, listed, mapOpen, partyHeart>>

\* setDetailData: the heart is drawn and every overlay is lifted.
DetailArrives ==
  /\ alive
  /\ "detail" \in pending
  /\ pending' = pending \ {"detail"}
  /\ detail' = [detail EXCEPT !.loaded = TRUE, !.heart = isLiked(detail.kind, detail.id)]
  /\ getLikedProducts
  /\ LoaderStop
  /\ UNCHANGED <<userDef, wlVars, mapVars, alive, tab, opened, listed, mapOpen, partyHeart>>

DetailLikePressed ==
  /\ AtDetail
  /\ detail.loaded
  /\ isLikedPerform(detail.kind, detail.id)
  /\ detail' = [detail EXCEPT !.heart = heartAfterPress(detail.kind, detail.id)]
  /\ UNCHANGED <<overlays, wlVars, mapVars, alive, tab, loadVars, mapOpen, partyHeart>>

PartyLikePressed(p) ==
  /\ AtChildren
  /\ p \in listed["party"]
  /\ isLikedPerform("party", p)
  /\ partyHeart' = [partyHeart EXCEPT ![p] = heartAfterPress("party", p)]
  /\ UNCHANGED <<overlays, wlVars, mapVars, alive, loadVars, navVars>>

BackFromDetail ==
  /\ AtDetail
  /\ detail' = NoDetail
  /\ IF mapOpen
       THEN MapWillAppear /\ UNCHANGED <<likedIDs, partyHeart, wlVars>>
       ELSE RootWillAppear(tab) /\ UNCHANGED <<mapVars, wlTimer>>
  /\ UNCHANGED <<userDef, overlays, alive, tab, loadVars, mapOpen>>

-----------------------------------------------------------------------------
\* The map, pushed on the home tab.
OpenMap ==
  /\ AtRoot("home")
  /\ "map" \in Screens
  /\ mapOpen' = TRUE
  /\ MapReset(userDef["house"])
  /\ pending' = pending \cup {"map"}
  /\ UNCHANGED <<storeVars, overlays, wlVars, alive, tab, opened, listed, detail, partyHeart>>

\* The map is popped and, once it has disappeared, released.
LeaveMap ==
  /\ AtMap
  /\ ~disappearTraps
  /\ mapOpen' = FALSE
  /\ MapReset(<<>>)
  /\ pending' = pending \ {"map"}
  /\ UNCHANGED <<storeVars, overlays, wlVars, alive, tab, opened, listed, detail, partyHeart>>

LeaveMapTraps == AtMap /\ disappearTraps /\ Trap

\* moreInfoPressed opens the detail screen for the id of the sheet, or for 0.
MoreInfo ==
  /\ AtMap
  /\ sheetUp
  /\ detailPushed("house", sheetId)
  /\ MapWillDisappear
  /\ UNCHANGED <<userDef, wlVars, alive, tab, opened, listed, mapOpen, partyHeart>>

MapStep ==
  /\ alive
  /\ \/ AtMap /\ SheetDismissed
     \/ AtMap /\ \E h \in ToSet(mapHouses) : PinSelected(h)
     \/ \E h \in Id : PinArrives(h)
     \/ \E h \in Id : PinFails(h)
  /\ UNCHANGED <<storeVars, overlays, wlVars, alive, loadVars, navVars, partyHeart>>

SheetLike ==
  /\ AtMap
  /\ SheetLikePressed
  /\ UNCHANGED <<overlays, wlVars, alive, loadVars, navVars, partyHeart>>

-----------------------------------------------------------------------------
\* The wishlist, as the user works on it.
WishlistSegment(k) ==
  /\ AtRoot("liked")
  /\ SegmentPressed(k)
  /\ UNCHANGED <<storeVars, overlays, mapVars, alive, loadVars, navVars, partyHeart>>

WishlistDelete ==
  /\ WishlistVisible
  /\ (\E i \in DOMAIN wlRows : DeleteAt(i)) \/ DeleteAll
  /\ UNCHANGED <<likedIDs, overlays, mapVars, alive, loadVars, navVars, partyHeart>>

-----------------------------------------------------------------------------
Next ==
  \/ Relaunch
  \/ \E t \in Screens \cap Tab : SelectTab(t)
  \/ \E t \in DOMAIN tabKind : \E list \in Listing(tabKind[t]) : ListArrives(t, list)
  \/ \E t \in DOMAIN tabKind : EmptyListArrives(t)
  \/ \E k \in Kind : \E list \in Listing(k) : WishlistArrives(k, list)
  \/ \E houses \in Listing("house") : MapListArrives(houses)
  \/ \E load \in {"home", "map", "detail", "wl_house"} : HousesFail(load)
  \/ WishlistLoaded
  \/ \E t \in DOMAIN tabKind : \E x \in Id : OpenListed(t, x)
  \/ \E i \in 1..Cardinality(Id) : OpenLiked(i)
  \/ DetailArrives
  \/ DetailLikePressed
  \/ \E p \in Id : PartyLikePressed(p)
  \/ BackFromDetail
  \/ OpenMap
  \/ LeaveMap
  \/ LeaveMapTraps
  \/ MoreInfo
  \/ MapStep
  \/ SheetLike
  \/ \E k \in Kind : WishlistSegment(k)
  \/ WishlistDelete

Spec == Init /\ [][Next]_vars

-----------------------------------------------------------------------------
AppTypeOK ==
  /\ overlays \in Nat
  /\ alive \in BOOLEAN
  /\ tab \in Tab
  /\ opened \in SUBSET Tab
  /\ pending \in SUBSET Load
  /\ listed \in [Kind -> SUBSET Id]
  /\ partyHeart \in [Id -> BOOLEAN]
  /\ mapOpen \in BOOLEAN
  /\ detail \in Detail

\* Type correctness of every variable.
TypeOK == LikedTypeOK /\ WishlistTypeOK /\ MapTypeOK /\ AppTypeOK

\* No product is saved twice: removing a like removes its only occurrence.
NoDuplicateLikes == \A k \in Kind : IsInjective(userDef[k])

\* LikedProducts toggles an id in memory without reading UserDefaults first,
\* while the wishlist and the map write there behind its back.  Wherever a
\* heart that goes through it can be pressed, its copy is the stored array.
MemoryIsFresh ==
  /\ AtDetail /\ detail.loaded => likedIDs[detail.kind] = userDef[detail.kind]
  /\ AtChildren => likedIDs["party"] = userDef["party"]

\* A heart on a detail screen or on a row of the children tab is filled
\* exactly when the product is saved, whatever other screens have done since.
HeartsAreTrue ==
  /\ AtDetail /\ detail.loaded => (detail.heart <=> Contains(userDef[detail.kind], detail.id))
  /\ AtChildren => \A p \in listed["party"] : partyHeart[p] <=> Contains(userDef["party"], p)

\* The sheet of the map writes its own copy of the array over the stored one.
\* While it can be pressed that copy is the stored array, so a press loses no
\* like made elsewhere and brings back none that was removed.
SheetCopyIsFresh == AtMap /\ sheetUp => sheetLiked = userDef["house"]

\* "More info" hands the detail screen the prices the map last received:
\* they are those of the house on the sheet, in whatever order answers came.
PriceIsOfTheSheet == sheetId # ZeroId => mapPrice = sheetId

\* Leaving the map unwraps the sheet; from the arrival of the houses on there
\* always is one, over dismissals and returns from other screens.
LoadedMapHasSheet == AtMap /\ mapHouses # <<>> => sheetExists /\ sheetUp

\* deleteAt(ind:) removes at one index from the list shown and from the array
\* of likes, which differ in order and length: both always reach that far.
DeleteNeverTraps ==
  WishlistVisible => \A i \in DOMAIN wlRows : ~deleteTraps(i)

\* A row acts on the product at its index of the list: the table, reloaded
\* only here and there, shows exactly the list it acts on.
RowsAreTheList == WishlistVisible => wlRows = wlShown[wlCategory]

\* The application keeps the promise of LikeSet: no step adds more than the
\* one like whose heart was pressed, and the wishlist only removes.
Likes == INSTANCE LikeSet WITH
  Kinds <- Kind, Products <- LikedId, liked <- [k \in Kind |-> ToSet(userDef[k])]

LikesAreKept == Likes!Spec

\* "update data of child VC when user select other pin": once every request is
\* answered, the sheet shows the pin selected last.
SheetShowsSelectedPin ==
  AtMap /\ sheetId # ZeroId /\ (\A h \in Id : mapRequests[h] = 0) => sheetId = mapSelected

\* "check if the house liked or not": the heart drawn on the sheet tells
\* whether the house it shows is saved.
SheetHeartIsTrue ==
  AtMap /\ sheetUp /\ sheetId # ZeroId => (sheetHeart <=> Contains(userDef["house"], sheetId))

\* "Do you want to delete all saved items?": after a yes nothing of the
\* category is saved any more.
DeleteAllDeletesAll ==
  [][WishlistVisible /\ DeleteAll => userDef'[wlCategory] = <<>>]_vars

=============================================================================
