-------------------------------- MODULE MapVC --------------------------------
(***************************************************************************)
(* The map of houses and the sheet it presents for the selected pin.  The  *)
(* map asks the server for the details of a pin and fills the sheet with   *)
(* whichever answer arrives; requests are neither numbered nor cancelled.  *)
(* The sheet toggles likes in a copy of the array that it took when it was *)
(* created; the heart the map draws on it comes from a copy of the map's   *)
(* own, taken when the map appeared.                                       *)
(***************************************************************************)
EXTENDS LikedProducts

CONSTANTS
  DefaultHouse,   \* the initial value of idOfHouseForChild
  MaxRequests,    \* bound: detail requests in flight for one house
  CanFail         \* may requests fail in this instance?

ASSUME MapAssumption == DefaultHouse \in Id /\ MaxRequests \in Nat \ {0} /\ CanFail \in BOOLEAN

VARIABLES
  mapHouses,      \* allHouses, in the order of arrival
  mapLiked,       \* likedHouses of MapVC
  mapSelected,    \* idOfHouseForChild
  mapPrice,       \* the house whose prices `price` holds, ZeroId at first
  mapRequests,    \* how many detail requests are in flight for each house
  sheetExists,    \* childForMapVC is not nil; isConfigured
  sheetUp,        \* the sheet is presented
  sheetId,        \* its id, ZeroId for nil
  sheetLiked,     \* likedHouses of MapChildVC
  sheetHeart      \* is its heart filled?

sheetVars == <<sheetExists, sheetUp, sheetId, sheetLiked, sheetHeart>>
mapVars == <<mapHouses, mapLiked, mapSelected, mapPrice, mapRequests, sheetVars>>

MapInit ==
  /\ mapHouses = <<>>
  /\ mapLiked = <<>>
  /\ mapSelected = DefaultHouse
  /\ mapPrice = ZeroId
  /\ mapRequests = [h \in Id |-> 0]
  /\ sheetExists = FALSE
  /\ sheetUp = FALSE
  /\ sheetId = ZeroId
  /\ sheetLiked = <<>>
  /\ sheetHeart = FALSE

\* A new MapVC, which reads the array of likes; or none, when it is closed.
MapReset(liked) ==
  /\ mapHouses' = <<>>
  /\ mapLiked' = liked
  /\ mapSelected' = DefaultHouse
  /\ mapPrice' = ZeroId
  /\ mapRequests' = [h \in Id |-> 0]
  /\ sheetExists' = FALSE
  /\ sheetUp' = FALSE
  /\ sheetId' = ZeroId
  /\ sheetLiked' = <<>>
  /\ sheetHeart' = FALSE

\* addChildHomeVC: a new sheet, with a copy of the stored array of its own
\* and a heart for the house that was selected last.
addChildHomeVC(liked) ==
  /\ sheetExists' = TRUE
  /\ sheetUp' = TRUE
  /\ sheetId' = ZeroId
  /\ sheetLiked' = userDef["house"]
  /\ sheetHeart' = Contains(liked, mapSelected)

\* updateChildMapView(h), as far as the request.
updateChildMapView(h) ==
  /\ mapSelected' = h
  /\ mapRequests' = [mapRequests EXCEPT ![h] = @ + 1]

\* The answer of getAllHouses.
MapHousesArrive(houses) ==
  /\ mapHouses' = houses
  /\ addChildHomeVC(mapLiked)
  /\ updateChildMapView(Head(houses))
  /\ UNCHANGED <<mapLiked, mapPrice>>

\* Mutant: the sheet that was dismissed is presented again as it was.
MapWillAppearKeepsSheet ==
  /\ mapLiked' = userDef["house"]
  /\ sheetUp' = TRUE
  /\ mapRequests[Head(mapHouses)] < MaxRequests
  /\ updateChildMapView(Head(mapHouses))
  /\ UNCHANGED <<mapHouses, mapPrice, sheetExists, sheetId, sheetLiked, sheetHeart>>

\* viewWillAppear, when a screen pushed by the map is popped.
MapWillAppear ==
  /\ mapLiked' = userDef["house"]
  /\ addChildHomeVC(userDef["house"])
  /\ mapRequests[Head(mapHouses)] < MaxRequests
  /\ updateChildMapView(Head(mapHouses))
  /\ UNCHANGED <<mapHouses, mapPrice>>

\* Mutant: no new sheet follows the one pulled down.
SheetDismissedForGood ==
  /\ sheetUp
  /\ sheetUp' = FALSE
  /\ UNCHANGED <<mapHouses, mapLiked, mapSelected, mapPrice, mapRequests,
                 sheetExists, sheetId, sheetLiked, sheetHeart>>

\* presentationControllerDidDismiss: the user pulls the sheet down.
SheetDismissed ==
  /\ sheetUp
  /\ mapRequests[Head(mapHouses)] < MaxRequests
  /\ addChildHomeVC(mapLiked)
  /\ updateChildMapView(Head(mapHouses))
  /\ UNCHANGED <<mapHouses, mapLiked, mapPrice>>

\* didSelect: the user taps a pin.
PinSelected(h) ==
  /\ mapRequests[h] < MaxRequests
  /\ updateChildMapView(h)
  /\ UNCHANGED <<mapHouses, mapLiked, mapPrice, sheetVars>>

\* Mutant: the prices are kept from the first answer.
PinArrivesKeepsPrice(h) ==
  /\ mapRequests[h] > 0
  /\ mapRequests' = [mapRequests EXCEPT ![h] = @ - 1]
  /\ sheetId' = h
  /\ mapPrice' = IF mapPrice = ZeroId THEN h ELSE mapPrice
  /\ sheetHeart' = Contains(mapLiked, h)
  /\ UNCHANGED <<mapHouses, mapLiked, mapSelected, sheetExists, sheetUp, sheetLiked>>

\* The answer of getDetailDataByID(h) fills the sheet that exists now.
PinArrives(h) ==
  /\ mapRequests[h] > 0
  /\ mapRequests' = [mapRequests EXCEPT ![h] = @ - 1]
  /\ sheetId' = h
  /\ mapPrice' = h
  /\ sheetHeart' = Contains(mapLiked, h)
  /\ UNCHANGED <<mapHouses, mapLiked, mapSelected, sheetExists, sheetUp, sheetLiked>>

\* Mutant: one request reports its failure again and again.
PinFailsTwice(h) ==
  /\ CanFail
  /\ mapRequests' = [mapRequests EXCEPT ![h] = @ - 1]
  /\ UNCHANGED <<mapHouses, mapLiked, mapSelected, mapPrice, sheetVars>>

PinFails(h) ==
  /\ CanFail
  /\ mapRequests[h] > 0
  /\ mapRequests' = [mapRequests EXCEPT ![h] = @ - 1]
  /\ UNCHANGED <<mapHouses, mapLiked, mapSelected, mapPrice, sheetVars>>

\* likePressed: toggle the id in the sheet's own copy and store the copy.
SheetLikePressed ==
  /\ sheetUp
  /\ sheetId # ZeroId
  /\ sheetLiked' = removeOrAdd(sheetLiked, sheetId)
  /\ sheetHeart' = ~Contains(sheetLiked, sheetId)
  /\ userDef' = [userDef EXCEPT !["house"] = sheetLiked']
  /\ UNCHANGED <<mapHouses, mapLiked, mapSelected, mapPrice, mapRequests,
                 sheetExists, sheetUp, sheetId, likedIDs>>

\* viewWillDisappear dismisses the sheet; with no sheet it unwraps a nil.
disappearTraps == ~sheetExists

MapWillDisappear ==
  /\ ~disappearTraps
  /\ sheetUp' = FALSE
  /\ UNCHANGED <<mapHouses, mapLiked, mapSelected, mapPrice, mapRequests,
                 sheetExists, sheetId, sheetLiked, sheetHeart>>

MapTypeOK ==
  /\ mapHouses \in Seq(Id)
  /\ mapLiked \in Seq(LikedId)
  /\ mapSelected \in Id
  /\ mapPrice \in LikedId
  /\ mapRequests \in [Id -> Nat]
  /\ sheetExists \in BOOLEAN
  /\ sheetUp \in BOOLEAN
  /\ sheetId \in LikedId
  /\ sheetLiked \in Seq(LikedId)
  /\ sheetHeart \in BOOLEAN

=============================================================================
