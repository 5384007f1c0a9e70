-------------------------- MODULE ProfileApp_proofs --------------------------
(***************************************************************************)
(* Language, houses, overlay and name, for any names and any number of     *)
(* messages and old loads.                                                 *)
(***************************************************************************)
EXTENDS ProfileApp, SequenceTheorems, TLAPS

Loading == {"ids", "details"}

(* Before the tabs come nothing is loaded and nothing is scheduled.  Away  *)
(* from the home screen no load is under way, so that a language is chosen *)
(* with none to come in between; two reloads are due only under the        *)
(* overlay that both have put up.                                          *)
Order ==
  /\ root # "tabs" => load = "failed" /\ reloadsDue = 0 /\ ~popsDue
  /\ page \notin {"home", "none"} => load \notin Loading
  /\ popsDue => page = "contact"
  /\ reloadsDue = 2 => page = "language" /\ overlays > 0

(* Houses asked for are in the stored language, and the profile tab has    *)
(* the stored name also while the sheet with the languages covers it.      *)
Current ==
  /\ load \in {"details", "shown"} /\ reloadsDue = 0 => housesLang = currentLang(LANG)
  /\ root = "tabs" /\ page \in {"profile", "language"} => nameShown = userName

Inv == TypeOK /\ Order /\ TextIsCurrent /\ Current /\ LoadIsCovered

-----------------------------------------------------------------------------
(* The messages keep their type in whatever order they are shown and       *)
(* closed.                                                                 *)
AlertType == [view : [Message -> {"none", "up", "leaving"}], timers : Seq(Message), held : BOOLEAN]

LEMMA invalidatedType ==
  ASSUME NEW a \in AlertType
  PROVE  invalidated(a) \in AlertType
<1>1. SubSeq(a.timers, 1, Len(a.timers) - 1) \in Seq(Message)
  BY DEF AlertType
<1> QED BY <1>1 DEF AlertType, invalidated

LEMMA showAlertType ==
  ASSUME NEW a \in AlertType, NEW k \in Message
  PROVE  showAlert(a, k) \in AlertType
<1> DEFINE b == IF a.view[k] = "none" THEN a ELSE invalidated(a)
<1>1. b \in AlertType
  BY invalidatedType
<1> HIDE DEF b
<1>2. [b.view EXCEPT ![k] = "up"] \in [Message -> {"none", "up", "leaving"}]
  BY <1>1 DEF AlertType
<1>3. Append(b.timers, k) \in Seq(Message)
  BY <1>1 DEF AlertType
<1>4. showAlert(a, k) = [view |-> [b.view EXCEPT ![k] = "up"], timers |-> Append(b.timers, k), held |-> TRUE]
  BY DEF showAlert, b
<1> QED BY <1>2, <1>3, <1>4 DEF AlertType

LEMMA closeBtnPressedType ==
  ASSUME NEW a \in AlertType, NEW k \in Message
  PROVE  closeBtnPressed(a, k) \in AlertType
<1> DEFINE b == invalidated(a)
<1>1. b \in AlertType
  BY invalidatedType
<1> HIDE DEF b
<1>2. [b EXCEPT !.view[k] = "leaving"] \in AlertType
  BY <1>1 DEF AlertType
<1>3. closeBtnPressed(a, k) \in {b, [b EXCEPT !.view[k] = "leaving"]}
  BY DEF closeBtnPressed, b
<1> QED BY <1>1, <1>2, <1>3

LEMMA timerFiredType ==
  ASSUME NEW a \in AlertType, a.timers # <<>>
  PROVE  timerFired(a) \in AlertType
<1> DEFINE c == [a EXCEPT !.timers = Tail(@), !.held = @ /\ Len(a.timers) > 1]
<1>1. Tail(a.timers) \in Seq(Message) /\ Head(a.timers) \in Message
  BY DEF AlertType
<1>2. (a.held /\ Len(a.timers) > 1) \in BOOLEAN
  OBVIOUS
<1>3. c \in AlertType
  BY <1>1, <1>2 DEF AlertType
<1> HIDE DEF c
<1>4. timerFired(a) = closeBtnPressed(c, Head(a.timers))
  BY DEF timerFired, c
<1> QED BY <1>1, <1>3, <1>4, closeBtnPressedType

LEMMA AlertStepType ==
  ASSUME AlertTypeOK, AlertStep
  PROVE  AlertTypeOK'
<1>1. alerts \in AlertType
  BY DEF AlertTypeOK, AlertType
<1>2. CASE AlertTimerFires
  BY <1>1, <1>2, timerFiredType DEF AlertTimerFires, AlertTypeOK, AlertType
<1>3. ASSUME NEW k \in Message, AlertSwiped(k)
      PROVE  AlertTypeOK'
  BY <1>1, <1>3, closeBtnPressedType DEF AlertSwiped, AlertTypeOK, AlertType
<1>4. ASSUME NEW k \in Message, AlertSlidOut(k)
      PROVE  AlertTypeOK'
  BY <1>1, <1>4 DEF AlertSlidOut, AlertTypeOK, AlertType
<1> QED BY <1>2, <1>3, <1>4 DEF AlertStep

LEMMA MessagesType ==
  ASSUME AlertTypeOK
  PROVE  /\ \A k \in Message : showAlert(alerts, k) \in AlertType
         /\ \A offline \in BOOLEAN : failureShown(offline) \in AlertType
         /\ \A rows \in Rows : formChecked(rows) \in AlertType
<1>1. alerts \in AlertType
  BY DEF AlertTypeOK, AlertType
<1>2. \A a \in AlertType : showAlert(a, "warning") \in AlertType /\ showAlert(a, "network") \in AlertType
  BY showAlertType DEF Message
<1>3. ASSUME NEW a \in AlertType, NEW row \in {"hidden", "empty", "filled"}
      PROVE  rowChecked(a, row) \in AlertType
  BY <1>2 DEF rowChecked
<1>4. ASSUME NEW rows \in Rows
      PROVE  formChecked(rows) \in AlertType
  <2>1. \A r \in 1..4 : rows[r] \in {"hidden", "empty", "filled"}
    BY DEF Rows
  <2> QED BY <1>1, <1>3, <2>1 DEF formChecked
<1> QED BY <1>1, <1>2, <1>4, showAlertType DEF failureShown

-----------------------------------------------------------------------------
LEMMA InvInit == Init => Inv
<1> SUFFICES ASSUME Init PROVE Inv
  OBVIOUS
<1> USE ProfileAssumption DEF Init, Loading
<1>1. AlertTypeOK
  BY DEF AlertInit, NoAlerts, AlertTypeOK
<1>2. TypeOK
  <2>1. overlays \in Nat /\ oldLoads \in Nat /\ reloadsDue \in 0..2 /\ shows \in 0..MaxShows /\ currentPage \in 0..2
    OBVIOUS
  <2>2. LANG \in Lang \cup {NoLang} /\ textLang \in Lang /\ housesLang \in Lang \cup {NoLang}
    BY DEF setLang, Lang
  <2>3. isUserEnteredFirstTime \in BOOLEAN /\ popsDue \in BOOLEAN
    OBVIOUS
  <2>4. /\ userName \in Name \cup {NoName} /\ nameShown \in Name \cup {NoName}
        /\ root \in {"language", "introduction", "tabs"}
        /\ page \in Page \cup {"none"}
        /\ load \in {"ids", "details", "shown", "failed"}
    OBVIOUS
  <2> QED BY <1>1, <2>1, <2>2, <2>3, <2>4 DEF TypeOK
<1>3. Order /\ TextIsCurrent /\ Current /\ LoadIsCovered
  BY DEF Order, TextIsCurrent, Current, LoadIsCovered
<1> QED BY <1>2, <1>3 DEF Inv

(* New tabs, however they come, under an overlay.                          *)
LEMMA tabsBuiltInv ==
  ASSUME TypeOK, tabsBuilt, overlays' \in Nat \ {0}, reloadsDue' \in 0..1, popsDue' = FALSE,
         alerts' = alerts, shows' \in 0..MaxShows, oldLoads' \in Nat,
         LANG' = LANG, userName' = userName, isUserEnteredFirstTime' \in BOOLEAN
  PROVE  Inv'
<1> USE ProfileAssumption DEF Loading, tabsBuilt
<1>1. setLang(LANG) \in Lang
  BY DEF TypeOK, setLang, Lang
<1>2. TypeOK'
  <2>1. oldLoads' \in Nat /\ overlays' \in Nat /\ reloadsDue' \in 0..2 /\ shows' \in 0..MaxShows /\ currentPage' \in 0..2
    OBVIOUS
  <2>2. LANG' \in Lang \cup {NoLang} /\ textLang' \in Lang /\ housesLang' \in Lang \cup {NoLang}
    BY <1>1 DEF TypeOK
  <2>3. isUserEnteredFirstTime' \in BOOLEAN /\ popsDue' \in BOOLEAN
    OBVIOUS
  <2>4. /\ userName' \in Name \cup {NoName} /\ nameShown' \in Name \cup {NoName}
        /\ root' \in {"language", "introduction", "tabs"}
        /\ page' \in Page \cup {"none"}
        /\ load' \in {"ids", "details", "shown", "failed"}
    BY DEF TypeOK, Page
  <2>5. AlertTypeOK'
    BY DEF TypeOK, AlertTypeOK
  <2> QED BY <2>1, <2>2, <2>3, <2>4, <2>5 DEF TypeOK
<1>3. Order' /\ TextIsCurrent' /\ Current' /\ LoadIsCovered'
  BY DEF Order, TextIsCurrent, Current, LoadIsCovered, Touchable
<1> QED BY <1>2, <1>3 DEF Inv

LEMMA QuietType ==
  ASSUME TypeOK, Quiet
  PROVE  AlertTypeOK' /\ shows' \in 0..MaxShows
  BY DEF TypeOK, Quiet, AlertTypeOK

LEMMA ShownType ==
  ASSUME TypeOK, NEW a \in AlertType, Shown(a)
  PROVE  AlertTypeOK' /\ shows' \in 0..MaxShows
<1>1. AlertTypeOK'
  BY DEF Shown, AlertTypeOK, AlertType
<1>2. shows' \in 0..MaxShows
  BY ProfileAssumption DEF Shown, TypeOK
<1> QED BY <1>1, <1>2

(* One step each.  First the pages before the tabs.                        *)
LEMMA FirstLaunchNext ==
  ASSUME Inv, NEW l \in Lang, langBtnsPressed(l) \/ goToSignUpBtnPressed
  PROVE  Inv'
<1> USE DEF Inv, Loading, stored, pages, loadVars
<1>1. AlertTypeOK' /\ shows' \in 0..MaxShows
  BY QuietType DEF langBtnsPressed, goToSignUpBtnPressed
<1>2. setLang(l) \in Lang /\ setLang(LANG) \in Lang
  BY DEF setLang, Lang, TypeOK
<1>3. TypeOK'
  BY <1>1, <1>2 DEF TypeOK, langBtnsPressed, goToSignUpBtnPressed
<1>4. Order'
  BY DEF Order, langBtnsPressed, goToSignUpBtnPressed
<1>5. TextIsCurrent' /\ LoadIsCovered'
  BY DEF Order, TextIsCurrent, LoadIsCovered, langBtnsPressed, goToSignUpBtnPressed
<1>6. Current'
  BY DEF Order, Current, langBtnsPressed, goToSignUpBtnPressed
<1> QED BY <1>3, <1>4, <1>5, <1>6

LEMMA nextBtnPressedNext ==
  ASSUME Inv, nextBtnPressed
  PROVE  Inv'
<1> USE DEF Inv, Loading, stored, pages, loadVars, nextBtnPressed
<1>1. AlertTypeOK' /\ shows' \in 0..MaxShows
  BY QuietType
<1>2. root = "introduction" /\ load = "failed" /\ reloadsDue = 0 /\ popsDue = FALSE
  BY DEF Order, TypeOK
<1>3. CASE currentPage < 2
  <2>1. setLang(LANG) \in Lang
    BY DEF setLang, Lang, TypeOK
  <2>2. currentPage' \in 0..2
    BY <1>3 DEF TypeOK
  <2>3. TypeOK'
    BY <1>1, <1>3, <2>1, <2>2 DEF TypeOK
  <2>4. Order' /\ TextIsCurrent' /\ LoadIsCovered' /\ Current'
    BY <1>2, <1>3 DEF Order, TextIsCurrent, LoadIsCovered, Current
  <2> QED BY <2>3, <2>4
<1>4. CASE ~(currentPage < 2)
  <2>1. tabsBuilt /\ overlays' \in Nat \ {0} /\ reloadsDue' \in 0..1 /\ popsDue' = FALSE
    BY <1>2, <1>4 DEF LoaderStart, TypeOK
  <2>2. /\ alerts' = alerts /\ shows' \in 0..MaxShows /\ oldLoads' \in Nat
        /\ LANG' = LANG /\ userName' = userName /\ isUserEnteredFirstTime' \in BOOLEAN
    BY <1>1, <1>4 DEF Quiet, TypeOK
  <2> QED BY <2>1, <2>2, tabsBuiltInv
<1> QED BY <1>3, <1>4

LEMMA RelaunchNext ==
  ASSUME Inv, Relaunch
  PROVE  Inv'
<1> USE ProfileAssumption DEF Inv, Loading, Relaunch, stored
<1>1. AlertTypeOK'
  BY DEF NoAlerts, AlertTypeOK
<1>2. setLang(LANG) \in Lang
  BY DEF setLang, Lang, TypeOK
<1>3. shows' \in 0..MaxShows /\ oldLoads' \in Nat /\ reloadsDue' \in 0..2 /\ popsDue' \in BOOLEAN
  <2>1. shows' = 0 /\ oldLoads' = 0 /\ reloadsDue' = 0
    OBVIOUS
  <2>2. popsDue' \in BOOLEAN
    OBVIOUS
  <2> QED BY <2>1, <2>2
<1>4. LANG' \in Lang \cup {NoLang} /\ isUserEnteredFirstTime' \in BOOLEAN /\ userName' \in Name \cup {NoName}
  BY DEF TypeOK
<1>5. CASE isUserEnteredFirstTime
  <2>1. /\ overlays' \in Nat /\ root' = "tabs" /\ page' \in Page \cup {"none"} /\ currentPage' \in 0..2
        /\ textLang' \in Lang /\ nameShown' \in Name \cup {NoName} /\ load' = "ids"
        /\ housesLang' \in Lang \cup {NoLang}
    BY <1>2, <1>5 DEF tabsBuilt, Page
  <2>2. TypeOK'
    BY <1>1, <1>3, <1>4, <2>1 DEF TypeOK
  <2>3. Order' /\ TextIsCurrent' /\ LoadIsCovered' /\ Current'
    BY <1>5 DEF Order, TextIsCurrent, LoadIsCovered, Current, tabsBuilt, Touchable
  <2> QED BY <2>2, <2>3
<1>6. CASE ~isUserEnteredFirstTime
  <2>1. /\ overlays' \in Nat /\ root' = "language" /\ page' \in Page \cup {"none"} /\ currentPage' \in 0..2
        /\ textLang' \in Lang /\ nameShown' \in Name \cup {NoName} /\ load' = "failed"
        /\ housesLang' \in Lang \cup {NoLang}
    BY <1>2, <1>6 DEF languagePage
  <2>2. TypeOK'
    BY <1>1, <1>3, <1>4, <2>1 DEF TypeOK
  <2>3. Order' /\ TextIsCurrent' /\ LoadIsCovered' /\ Current'
    BY <1>6 DEF Order, TextIsCurrent, LoadIsCovered, Current, languagePage
  <2> QED BY <2>2, <2>3
<1> QED BY <1>5, <1>6

(* The load of the houses, and what is left of earlier ones.               *)
LEMMA LoadNext ==
  ASSUME Inv,
         \/ IdsArrive \/ HousesArrive \/ OldLoadEnds \/ OfflineRequest
         \/ \E offline \in BOOLEAN : HousesFail(offline) \/ OldLoadFails(offline)
  PROVE  Inv'
<1> USE DEF Inv, Loading, stored, pages, loadVars
<1>1. AlertTypeOK
  BY DEF TypeOK
<1>2. CASE IdsArrive
  <2>1. AlertTypeOK' /\ shows' \in 0..MaxShows
    BY <1>2, QuietType DEF IdsArrive
  <2>2. currentLang(LANG) \in Lang
    BY DEF TypeOK, currentLang, Lang
  <2>3. TypeOK'
    BY <1>2, <2>1, <2>2 DEF TypeOK, IdsArrive
  <2>4. Order' /\ TextIsCurrent' /\ LoadIsCovered' /\ Current'
    BY <1>2 DEF Order, TextIsCurrent, LoadIsCovered, Touchable, Current, IdsArrive
  <2> QED BY <2>3, <2>4
<1>3. CASE HousesArrive
  <2>1. AlertTypeOK' /\ shows' \in 0..MaxShows
    BY <1>3, QuietType DEF HousesArrive
  <2>2. TypeOK'
    BY <1>3, <2>1 DEF TypeOK, HousesArrive, LoaderStop
  <2>3. Order' /\ TextIsCurrent' /\ LoadIsCovered' /\ Current'
    BY <1>3 DEF Order, TextIsCurrent, LoadIsCovered, Touchable, Current, HousesArrive
  <2> QED BY <2>2, <2>3
<1>4. CASE OldLoadEnds
  <2>1. AlertTypeOK' /\ shows' \in 0..MaxShows
    BY <1>4, QuietType DEF OldLoadEnds
  <2>2. TypeOK'
    BY <1>4, <2>1 DEF TypeOK, OldLoadEnds
  <2>3. Order' /\ TextIsCurrent' /\ LoadIsCovered' /\ Current'
    BY <1>4 DEF Order, TextIsCurrent, LoadIsCovered, Touchable, Current, OldLoadEnds
  <2> QED BY <2>2, <2>3
<1>5. CASE OfflineRequest
  <2>1. AlertTypeOK' /\ shows' \in 0..MaxShows
    BY <1>1, <1>5, MessagesType, ShownType DEF OfflineRequest, Message
  <2>2. TypeOK'
    BY <1>5, <2>1 DEF TypeOK, OfflineRequest
  <2>3. Order' /\ TextIsCurrent' /\ LoadIsCovered' /\ Current'
    BY <1>5 DEF Order, TextIsCurrent, LoadIsCovered, Touchable, Current, OfflineRequest
  <2> QED BY <2>2, <2>3
<1>6. ASSUME NEW offline \in BOOLEAN, HousesFail(offline)
      PROVE  Inv'
  <2>1. AlertTypeOK' /\ shows' \in 0..MaxShows
    BY <1>1, <1>6, MessagesType, ShownType DEF HousesFail
  <2>2. load' = "failed" \/ load' = load
    BY <1>6 DEF HousesFail
  <2>3. TypeOK'
    BY <1>6, <2>1, <2>2 DEF TypeOK, HousesFail
  <2>4. root = "tabs"
    BY <1>6 DEF HousesFail, Order
  <2>5. Order' /\ TextIsCurrent' /\ LoadIsCovered' /\ Current'
    BY <1>6, <2>2, <2>4 DEF Order, TextIsCurrent, LoadIsCovered, Touchable, Current, HousesFail
  <2> QED BY <2>3, <2>5
<1>7. ASSUME NEW offline \in BOOLEAN, OldLoadFails(offline)
      PROVE  Inv'
  <2>1. AlertTypeOK' /\ shows' \in 0..MaxShows
    BY <1>1, <1>7, MessagesType, ShownType DEF OldLoadFails
  <2>2. oldLoads' \in Nat
    BY <1>7 DEF TypeOK, OldLoadFails
  <2>3. TypeOK'
    BY <1>7, <2>1, <2>2 DEF TypeOK, OldLoadFails
  <2>4. Order' /\ TextIsCurrent' /\ LoadIsCovered' /\ Current'
    BY <1>7 DEF Order, TextIsCurrent, LoadIsCovered, Touchable, Current, OldLoadFails
  <2> QED BY <2>3, <2>4
<1> QED BY <1>2, <1>3, <1>4, <1>5, <1>6, <1>7

(* Moving between the screens: away from the home screen only when nothing *)
(* loads, and to the profile tab with the name drawn again.                *)
LEMMA OpenedNext ==
  ASSUME Inv, NEW from \in Page, NEW to \in Page, Opened(from, to)
  PROVE  Inv'
<1> USE DEF Inv, Loading, stored, loadVars
<1>1. AlertTypeOK' /\ shows' \in 0..MaxShows
  BY QuietType DEF Opened
<1>2. /\ root = "tabs" /\ page = from /\ overlays = 0 /\ page' = to
      /\ popsDue' = (popsDue /\ from # "contact")
      /\ UNCHANGED <<overlays, LANG, isUserEnteredFirstTime, userName, root, currentPage, textLang, load,
                     housesLang, oldLoads, reloadsDue>>
  BY DEF Opened, InFront, Touchable
<1>3. load \notin {"ids", "details"}
  BY <1>2 DEF LoadIsCovered, Touchable
<1>4. ~popsDue'
  BY <1>2 DEF Order
<1>5. reloadsDue # 2
  BY <1>2 DEF Order
<1>6. nameShown' = IF to = "profile" /\ from # "language" THEN userName ELSE nameShown
  BY DEF Opened, ProfileWillAppear
<1>7. popsDue' \in BOOLEAN /\ nameShown' \in Name \cup {NoName}
  BY <1>2, <1>6 DEF TypeOK
<1>8. TypeOK'
  BY <1>1, <1>2, <1>7 DEF TypeOK
<1>9. Order' /\ TextIsCurrent' /\ LoadIsCovered'
  BY <1>2, <1>3, <1>4, <1>5 DEF Order, TextIsCurrent, LoadIsCovered
<1>10. to = "language" => from = "profile"
  BY DEF Opened, Opens
<1>11. Current'
  BY <1>2, <1>6, <1>10 DEF Current
<1> QED BY <1>8, <1>9, <1>11

LEMMA updateProfileNext ==
  ASSUME Inv, NEW name \in Name \cup {NoName}, NEW lastName \in Name \cup {NoName}, updateProfile(name, lastName)
  PROVE  Inv'
<1> USE DEF Inv, Loading, loadVars
<1>1. /\ root = "tabs" /\ page = "edit" /\ overlays = 0
      /\ UNCHANGED <<overlays, LANG, isUserEnteredFirstTime, root, currentPage, textLang, load, housesLang,
                     oldLoads, reloadsDue, popsDue>>
  BY DEF updateProfile, InFront, Touchable
<1>2. CASE name # NoName /\ lastName # NoName
  <2>1. userName' = name /\ page' = "profile" /\ nameShown' = name /\ Quiet
    BY <1>2 DEF updateProfile, ProfileWillAppear
  <2>2. AlertTypeOK' /\ shows' \in 0..MaxShows
    BY <2>1, QuietType
  <2>3. TypeOK'
    BY <1>1, <2>1, <2>2 DEF TypeOK, Page
  <2>4. Order' /\ TextIsCurrent' /\ LoadIsCovered' /\ Current'
    BY <1>1, <2>1 DEF Order, TextIsCurrent, LoadIsCovered, Touchable, Current
  <2> QED BY <2>3, <2>4
<1>3. CASE ~(name # NoName /\ lastName # NoName)
  <2>1. Shown(showAlert(alerts, "warning")) /\ UNCHANGED <<userName, page, nameShown>>
    BY <1>3 DEF updateProfile
  <2>2. AlertTypeOK
    BY DEF TypeOK
  <2>3. showAlert(alerts, "warning") \in AlertType
    BY <2>2, MessagesType DEF Message
  <2>4. AlertTypeOK' /\ shows' \in 0..MaxShows
    BY <2>1, <2>3, ShownType
  <2>5. TypeOK'
    BY <1>1, <2>1, <2>4 DEF TypeOK
  <2>6. Order' /\ TextIsCurrent' /\ LoadIsCovered' /\ Current'
    BY <1>1, <2>1 DEF Order, TextIsCurrent, LoadIsCovered, Touchable, Current
  <2> QED BY <2>5, <2>6
<1> QED BY <1>2, <1>3

LEMMA ContactNext ==
  ASSUME Inv, ContactPopped \/ \E rows \in Rows : sendMessagePressed(rows)
  PROVE  Inv'
<1> USE DEF Inv, Loading, stored, pages, loadVars
<1>1. CASE ContactPopped
  <2>1. AlertTypeOK' /\ shows' \in 0..MaxShows
    BY <1>1, QuietType DEF ContactPopped
  <2>2. TypeOK'
    BY <1>1, <2>1 DEF TypeOK, ContactPopped, Page
  <2>3. Order' /\ TextIsCurrent' /\ LoadIsCovered' /\ Current'
    BY <1>1 DEF Order, TextIsCurrent, LoadIsCovered, Touchable, Current, ContactPopped
  <2> QED BY <2>2, <2>3
<1>2. ASSUME NEW rows \in Rows, sendMessagePressed(rows)
      PROVE  Inv'
  <2>1. AlertTypeOK
    BY DEF TypeOK
  <2>2. AlertTypeOK' /\ shows' \in 0..MaxShows
    BY <1>2, <2>1, MessagesType, ShownType DEF sendMessagePressed
  <2>3. popsDue' \in BOOLEAN
    BY <1>2 DEF sendMessagePressed
  <2>4. TypeOK'
    BY <1>2, <2>2, <2>3 DEF TypeOK, sendMessagePressed
  <2>5. root = "tabs" /\ page = "contact"
    BY <1>2 DEF sendMessagePressed, InFront
  <2>6. Order' /\ TextIsCurrent' /\ LoadIsCovered' /\ Current'
    BY <1>2, <2>5 DEF Order, TextIsCurrent, LoadIsCovered, Touchable, Current, sendMessagePressed
  <2> QED BY <2>4, <2>6
<1> QED BY <1>1, <1>2

LEMMA languagePressedNext ==
  ASSUME Inv, NEW l \in Lang, languagePressed(l)
  PROVE  Inv'
<1> USE DEF Inv, Loading, pages, loadVars
<1>1. AlertTypeOK' /\ shows' \in 0..MaxShows
  BY QuietType DEF languagePressed
<1>2. overlays' \in Nat /\ overlays' > 0
  BY DEF languagePressed, LoaderStart, TypeOK
<1>3. reloadsDue' \in 1..2
  <2>1. reloadsDue \in 0..2 /\ (overlays = 0 => reloadsDue # 2)
    BY DEF TypeOK, Order
  <2> QED BY <2>1 DEF languagePressed, Touchable
<1>4. LANG' \in Lang
  BY DEF languagePressed
<1>5. TypeOK'
  BY <1>1, <1>2, <1>3, <1>4 DEF TypeOK, languagePressed
<1>6. Order' /\ TextIsCurrent' /\ LoadIsCovered' /\ Current'
  BY <1>2, <1>3 DEF Order, TextIsCurrent, LoadIsCovered, Touchable, Current, languagePressed
<1> QED BY <1>5, <1>6

LEMMA ReloadedNext ==
  ASSUME Inv, Reloaded
  PROVE  Inv'
<1> USE DEF Inv, Reloaded, stored
<1>1. tabsBuilt /\ overlays' \in Nat \ {0} /\ reloadsDue' \in 0..1 /\ popsDue' = FALSE
  BY DEF TypeOK
<1>2. oldLoads' \in Nat
  BY DEF TypeOK
<1>3. /\ alerts' = alerts /\ shows' \in 0..MaxShows
      /\ LANG' = LANG /\ userName' = userName /\ isUserEnteredFirstTime' \in BOOLEAN
  BY DEF Quiet, TypeOK
<1> QED BY <1>1, <1>2, <1>3, tabsBuiltInv

LEMMA AlertStepNext ==
  ASSUME Inv, AlertStep
  PROVE  Inv'
<1> USE DEF Inv, Loading, stored, pages, loadVars
<1>1. AlertTypeOK'
  BY AlertStepType DEF TypeOK
<1>2. TypeOK'
  BY <1>1 DEF TypeOK, AlertStep
<1>3. Order' /\ TextIsCurrent' /\ LoadIsCovered' /\ Current'
  BY DEF Order, TextIsCurrent, LoadIsCovered, Touchable, Current, AlertStep
<1> QED BY <1>2, <1>3

LEMMA InvNext == Inv /\ [Next]_vars => Inv'
<1> SUFFICES ASSUME Inv, [Next]_vars
             PROVE  Inv'
  OBVIOUS
<1>1. CASE UNCHANGED vars
  <2> USE <1>1 DEF Inv, vars, stored, pages, loadVars
  <2>1. TypeOK'
    BY DEF TypeOK, AlertTypeOK
  <2>2. Order' /\ TextIsCurrent' /\ LoadIsCovered' /\ Current'
    BY DEF Order, TextIsCurrent, LoadIsCovered, Touchable, Current
  <2> QED BY <2>1, <2>2
<1>2. CASE Next
  <2>1. CASE \/ (\E l \in Lang : langBtnsPressed(l)) \/ goToSignUpBtnPressed
    BY <2>1, FirstLaunchNext DEF Lang
  <2>2. CASE \/ IdsArrive \/ HousesArrive \/ OldLoadEnds \/ OfflineRequest
             \/ \E offline \in BOOLEAN : HousesFail(offline) \/ OldLoadFails(offline)
    BY <2>2, LoadNext
  <2>3. CASE ContactPopped \/ \E rows \in Rows : sendMessagePressed(rows)
    BY <2>3, ContactNext
  <2> QED BY <1>2, <2>1, <2>2, <2>3, RelaunchNext, nextBtnPressedNext, OpenedNext, updateProfileNext,
      languagePressedNext, ReloadedNext, AlertStepNext DEF Next
<1> QED BY <1>1, <1>2

LEMMA Invariance == Spec => []Inv
  BY InvInit, InvNext, PTL DEF Spec

-----------------------------------------------------------------------------
(* Every variable keeps its type, with any number of messages on the way.  *)
THEOREM TypeCorrect == Spec => []TypeOK
<1>1. Inv => TypeOK
  BY DEF Inv
<1> QED BY <1>1, Invariance, PTL

(* Unless a reload is due, the texts are in the stored language.           *)
THEOREM TextStaysCurrent == Spec => []TextIsCurrent
<1>1. Inv => TextIsCurrent
  BY DEF Inv
<1> QED BY <1>1, Invariance, PTL

(* The houses shown are in the language of the texts, though the load that *)
(* brought them may have begun before that language was chosen.            *)
THEOREM HousesSpeak == Spec => []HousesSpeakTheLanguage
<1>1. Inv => HousesSpeakTheLanguage
  BY DEF Inv, TypeOK, Current, TextIsCurrent, HousesSpeakTheLanguage, setLang, currentLang
<1> QED BY <1>1, Invariance, PTL

(* A load of the houses never runs without its overlay.                    *)
THEOREM LoadsAreCovered == Spec => []LoadIsCovered
<1>1. Inv => LoadIsCovered
  BY DEF Inv
<1> QED BY <1>1, Invariance, PTL

(* The profile tab shows the stored name.                                  *)
THEOREM NameStaysCurrent == Spec => []NameIsCurrent
<1>1. Inv => NameIsCurrent
  BY DEF Inv, Current, NameIsCurrent, InFront
<1> QED BY <1>1, Invariance, PTL

-----------------------------------------------------------------------------
(* The messages and their one static timer, of an alert state a.           *)
HasTimer(a, k) == \E i \in DOMAIN a.timers : a.timers[i] = k

(* Message k is up and the other one is not, and all timers are its own.   *)
Alone(a, k) ==
  /\ a.view[k] = "up" /\ a.held
  /\ \A i \in DOMAIN a.timers : a.timers[i] = k
  /\ \A j \in Message \ {k} : a.view[j] # "up"

(* The static holds a timer only if one is to fire, and two messages are   *)
(* never up together with none to fire.                                    *)
TimersTell(a) ==
  /\ a.held => a.timers # <<>>
  /\ (\A k \in Message : a.view[k] = "up") => a.timers # <<>>

(* Message k has a timer to fire that nobody but k can stop: the other has *)
(* no view, or the static holds a later timer, or none.                    *)
TimerIsSafe(a, k) ==
  /\ HasTimer(a, k)
  /\ \A j \in Message \ {k} :
       a.view[j] = "none" \/ ~a.held \/ \E i \in 1..(Len(a.timers) - 1) : a.timers[i] = k

(* Stopping the static timer removes the last one, if it is to fire.       *)
LEMMA invalidatedTimers ==
  ASSUME NEW a \in AlertType, NEW b, b = invalidated(a)
  PROVE  /\ b \in AlertType /\ b.view = a.view /\ ~b.held
         /\ Len(b.timers) \in Nat /\ Len(b.timers) <= Len(a.timers) /\ Len(b.timers) >= Len(a.timers) - 1
         /\ ~a.held => Len(b.timers) = Len(a.timers)
         /\ \A i \in 1..Len(b.timers) : b.timers[i] = a.timers[i]
<1> DEFINE t == a.timers
<1>1. t \in Seq(Message) /\ Len(t) \in Nat /\ a.held \in BOOLEAN
  BY DEF AlertType
<1>2. b \in AlertType
  BY invalidatedType
<1>3. CASE ~a.held
  <2>1. b = a
    BY <1>3 DEF invalidated
  <2> QED BY <1>1, <1>2, <1>3, <2>1
<1>4. CASE a.held
  <2> DEFINE u == SubSeq(t, 1, Len(t) - 1)
  <2>1. /\ Len(u) = IF 1 <= Len(t) - 1 THEN Len(t) - 1 ELSE 0
        /\ \A i \in 1..(Len(t) - 1) : u[i] = t[i]
    <3>1. \A i \in 1..(Len(t) - 1) : t[i] \in Message
      BY <1>1
    <3>2. 1 \in Int /\ Len(t) - 1 \in Int
      BY <1>1
    <3> HIDE DEF t
    <3>3. /\ Len(u) = IF 1 <= Len(t) - 1 THEN (Len(t) - 1) - 1 + 1 ELSE 0
          /\ \A i \in 1..((Len(t) - 1) - 1 + 1) : u[i] = t[1 + i - 1]
      BY <3>1, <3>2, SubSeqProperties
    <3> QED BY <1>1, <3>3
  <2>2. b = [a EXCEPT !.timers = u, !.held = FALSE]
    BY <1>4 DEF invalidated
  <2> HIDE DEF u
  <2>3. b.timers = u /\ b.held = FALSE /\ b.view = a.view
    BY <2>2 DEF AlertType
  <2>4. Len(u) \in Nat /\ Len(u) <= Len(t) /\ Len(u) >= Len(t) - 1 /\ \A i \in 1..Len(u) : u[i] = t[i]
    <3> HIDE DEF t
    <3> QED BY <1>1, <2>1
  <2> QED BY <1>2, <1>4, <2>3, <2>4
<1> QED BY <1>1, <1>3, <1>4

(* A message that is shown is up and has the last timer, which the static  *)
(* holds; the timers before it are what was left of the others.            *)
LEMMA showAlertTimers ==
  ASSUME NEW a \in AlertType, NEW k \in Message, NEW s, s = showAlert(a, k)
  PROVE  /\ s \in AlertType /\ s.held /\ s.view[k] = "up"
         /\ \A j \in Message \ {k} : s.view[j] = a.view[j]
         /\ Len(s.timers) \in Nat \ {0} /\ Len(a.timers) \in Nat /\ Len(s.timers) >= Len(a.timers)
         /\ a.view[k] = "none" \/ ~a.held => Len(s.timers) = Len(a.timers) + 1
         /\ s.timers[Len(s.timers)] = k
         /\ \A i \in 1..(Len(s.timers) - 1) : i <= Len(a.timers) /\ s.timers[i] = a.timers[i]
<1> DEFINE c == invalidated(a)
           b == IF a.view[k] = "none" THEN a ELSE c
           t == a.timers
           u == b.timers
<1>1. s \in AlertType
  BY showAlertType
<1>2. /\ b \in AlertType /\ b.view = a.view
      /\ Len(t) \in Nat /\ Len(u) \in Nat /\ Len(u) <= Len(t) /\ Len(u) >= Len(t) - 1
      /\ a.view[k] = "none" \/ ~a.held => Len(u) = Len(t)
      /\ \A i \in 1..Len(u) : u[i] = t[i]
  <2>1. Len(t) \in Nat /\ t \in Seq(Message)
    BY DEF AlertType
  <2>2. CASE a.view[k] = "none"
    <3>1. b = a
      BY <2>2
    <3> QED BY <2>1, <3>1
  <2>3. CASE a.view[k] # "none"
    <3>1. b = c
      BY <2>3
    <3>2. /\ c \in AlertType /\ c.view = a.view
          /\ Len(c.timers) \in Nat /\ Len(c.timers) <= Len(a.timers) /\ Len(c.timers) >= Len(a.timers) - 1
          /\ ~a.held => Len(c.timers) = Len(a.timers)
          /\ \A i \in 1..Len(c.timers) : c.timers[i] = a.timers[i]
      <4> HIDE DEF c
      <4> QED BY invalidatedTimers DEF c
    <3> HIDE DEF c
    <3> QED BY <2>1, <2>3, <3>1, <3>2
  <2> QED BY <2>2, <2>3
<1>3. s = [view |-> [b.view EXCEPT ![k] = "up"], timers |-> Append(b.timers, k), held |-> TRUE]
  BY DEF showAlert
<1> HIDE DEF b
<1>4. s.held /\ s.view = [b.view EXCEPT ![k] = "up"] /\ s.timers = Append(u, k)
  BY <1>3
<1>5. u \in Seq(Message) /\ b.view \in [Message -> {"none", "up", "leaving"}]
  BY <1>2 DEF AlertType
<1>6. s.view[k] = "up" /\ \A j \in Message \ {k} : s.view[j] = a.view[j]
  BY <1>2, <1>4, <1>5
<1> HIDE DEF t, u
<1>7. Len(s.timers) = Len(u) + 1 /\ s.timers[Len(u) + 1] = k /\ \A i \in 1..Len(u) : s.timers[i] = u[i]
  BY <1>4, <1>5, AppendProperties
<1> QED BY <1>1, <1>2, <1>4, <1>6, <1>7 DEF t

(* What showing messages one after another makes of the messages before.   *)
ShowsKeep(a, s) ==
  /\ s \in AlertType
  /\ TimersTell(s)
  /\ \A k \in Message : Alone(a, k) => Alone(s, k) \/ \E j \in Message \ {k} : s.view[j] = "up"
  /\ \A k \in Message : TimerIsSafe(a, k) => TimerIsSafe(s, k)

LEMMA ShowsKeepNone ==
  ASSUME NEW a \in AlertType, TimersTell(a)
  PROVE  ShowsKeep(a, a)
  BY DEF ShowsKeep

LEMMA ShowsKeepOneMore ==
  ASSUME NEW a \in AlertType, NEW b, ShowsKeep(a, b), NEW m \in Message
  PROVE  ShowsKeep(a, showAlert(b, m))
<1> DEFINE s == showAlert(b, m)
<1>1. b \in AlertType
  BY DEF ShowsKeep
<1>2. /\ s \in AlertType /\ s.held /\ s.view[m] = "up"
      /\ \A j \in Message \ {m} : s.view[j] = b.view[j]
      /\ Len(s.timers) \in Nat \ {0} /\ Len(b.timers) \in Nat /\ Len(s.timers) >= Len(b.timers)
      /\ b.view[m] = "none" \/ ~b.held => Len(s.timers) = Len(b.timers) + 1
      /\ s.timers[Len(s.timers)] = m
      /\ \A i \in 1..(Len(s.timers) - 1) : i <= Len(b.timers) /\ s.timers[i] = b.timers[i]
  <2> HIDE DEF s
  <2> QED BY <1>1, showAlertTimers DEF s
<1> HIDE DEF s
<1>3. DOMAIN s.timers = 1..Len(s.timers) /\ DOMAIN b.timers = 1..Len(b.timers)
  BY <1>1, <1>2 DEF AlertType
<1>4. TimersTell(s)
  BY <1>2 DEF TimersTell
<1>5. ASSUME NEW k \in Message, Alone(b, k) \/ \E j \in Message \ {k} : b.view[j] = "up"
      PROVE  Alone(s, k) \/ \E j \in Message \ {k} : s.view[j] = "up"
  <2>1. CASE m # k
    BY <1>2, <2>1
  <2>2. CASE m = k /\ \E j \in Message \ {k} : b.view[j] = "up"
    BY <1>2, <2>2
  <2>3. CASE m = k /\ Alone(b, k)
    <3>1. \A i \in 1..Len(s.timers) : s.timers[i] = k
      <4> SUFFICES ASSUME NEW i \in 1..Len(s.timers) PROVE s.timers[i] = k
        OBVIOUS
      <4>1. CASE i = Len(s.timers)
        BY <1>2, <2>3, <4>1
      <4>2. CASE i # Len(s.timers)
        <5>1. i \in 1..(Len(s.timers) - 1) /\ i \in Nat /\ i >= 1
          BY <1>2, <4>2
        <5>2. i \in 1..Len(b.timers) /\ s.timers[i] = b.timers[i]
          BY <1>2, <5>1
        <5> QED BY <1>3, <2>3, <5>2 DEF Alone
      <4> QED BY <4>1, <4>2
    <3> QED BY <1>2, <1>3, <2>3, <3>1 DEF Alone
  <2> QED BY <1>5, <2>1, <2>2, <2>3
<1>6. ASSUME NEW k \in Message, TimerIsSafe(b, k)
      PROVE  TimerIsSafe(s, k)
  <2>1. PICK i \in 1..Len(b.timers) : b.timers[i] = k
    BY <1>3, <1>6 DEF TimerIsSafe, HasTimer
  <2>2. ASSUME NEW n \in 1..(Len(s.timers) - 1), s.timers[n] = k
        PROVE  TimerIsSafe(s, k)
    BY <1>2, <1>3, <2>2 DEF TimerIsSafe, HasTimer
  <2>3. CASE b.view[m] = "none" \/ ~b.held
    <3>1. i \in 1..(Len(s.timers) - 1)
      BY <1>2, <2>3
    <3> QED BY <1>2, <2>1, <2>2, <3>1
  <2>4. ASSUME NEW n \in 1..(Len(b.timers) - 1), b.timers[n] = k
        PROVE  TimerIsSafe(s, k)
    <3>1. n \in 1..(Len(s.timers) - 1)
      BY <1>2
    <3> QED BY <1>2, <2>2, <2>4, <3>1
  <2>5. CASE m # k
    BY <1>6, <2>3, <2>4, <2>5 DEF TimerIsSafe
  <2>6. CASE m = k
    <3>1. HasTimer(s, k)
      BY <1>2, <1>3, <2>6 DEF HasTimer
    <3>2. \A j \in Message \ {k} : s.view[j] = b.view[j]
      BY <1>2, <2>6
    <3>3. CASE \A j \in Message \ {k} : b.view[j] = "none"
      BY <3>1, <3>2, <3>3 DEF TimerIsSafe
    <3>4. CASE \E j \in Message \ {k} : b.view[j] # "none"
      BY <1>6, <2>3, <2>4, <3>4 DEF TimerIsSafe
    <3> QED BY <3>3, <3>4
  <2> QED BY <2>5, <2>6
<1>7. \A k \in Message : Alone(a, k) => Alone(s, k) \/ \E j \in Message \ {k} : s.view[j] = "up"
  BY <1>5 DEF ShowsKeep
<1>8. \A k \in Message : TimerIsSafe(a, k) => TimerIsSafe(s, k)
  BY <1>6 DEF ShowsKeep
<1>9. ShowsKeep(a, s)
  BY <1>2, <1>4, <1>7, <1>8 DEF ShowsKeep
<1> QED BY <1>9 DEF s

(* The handlers show their messages one after another.                     *)
LEMMA FailureShownKeeps ==
  ASSUME alerts \in AlertType, TimersTell(alerts), NEW offline \in BOOLEAN
  PROVE  ShowsKeep(alerts, failureShown(offline))
<1>1. "warning" \in Message /\ "network" \in Message
  BY DEF Message
<1>2. ShowsKeep(alerts, alerts)
  BY ShowsKeepNone
<1>3. ShowsKeep(alerts, showAlert(alerts, "network"))
  BY <1>1, <1>2, ShowsKeepOneMore
<1>4. ShowsKeep(alerts, IF offline THEN showAlert(alerts, "network") ELSE alerts)
  BY <1>2, <1>3
<1> QED BY <1>1, <1>4, ShowsKeepOneMore DEF failureShown

LEMMA FormCheckedKeeps ==
  ASSUME alerts \in AlertType, TimersTell(alerts), NEW rows \in Rows
  PROVE  ShowsKeep(alerts, formChecked(rows))
<1>1. "warning" \in Message /\ "network" \in Message
  BY DEF Message
<1>2. ASSUME NEW b, ShowsKeep(alerts, b), NEW row \in {"hidden", "empty", "filled"}
      PROVE  ShowsKeep(alerts, rowChecked(b, row))
  <2>1. ShowsKeep(alerts, showAlert(b, "warning")) /\ ShowsKeep(alerts, showAlert(b, "network"))
    BY <1>1, <1>2, ShowsKeepOneMore
  <2>2. CASE row = "hidden"
    BY <1>2, <2>2 DEF rowChecked
  <2>3. CASE row = "empty"
    BY <2>1, <2>3 DEF rowChecked
  <2>4. CASE row = "filled"
    BY <2>1, <2>4 DEF rowChecked
  <2> QED BY <2>2, <2>3, <2>4
<1>3. \A r \in 1..4 : rows[r] \in {"hidden", "empty", "filled"}
  BY DEF Rows
<1>4. ShowsKeep(alerts, alerts)
  BY ShowsKeepNone
<1> DEFINE one == rowChecked(alerts, rows[1])
           two == rowChecked(one, rows[2])
           three == rowChecked(two, rows[3])
<1>5. ShowsKeep(alerts, one)
  BY <1>2, <1>3, <1>4
<1> HIDE DEF one
<1>6. ShowsKeep(alerts, two)
  BY <1>2, <1>3, <1>5
<1> HIDE DEF two
<1>7. ShowsKeep(alerts, three)
  BY <1>2, <1>3, <1>6
<1> HIDE DEF three
<1>8. ShowsKeep(alerts, rowChecked(three, rows[4]))
  BY <1>2, <1>3, <1>7
<1> QED BY <1>8 DEF formChecked, one, two, three

(* Whatever a step does, it leaves the messages, or shows some, or closes  *)
(* one of them, or the process ends.                                       *)
LEMMA MessagesNext ==
  ASSUME AlertTypeOK, TimersTell(alerts), [Next]_vars
  PROVE  ShowsKeep(alerts, alerts') \/ AlertStep \/ alerts' = NoAlerts
<1>1. alerts \in AlertType
  BY DEF AlertTypeOK, AlertType
<1>2. ShowsKeep(alerts, alerts)
  BY <1>1, ShowsKeepNone
<1>3. \A k \in Message : ShowsKeep(alerts, showAlert(alerts, k))
  BY <1>1, <1>2, ShowsKeepOneMore
<1>4. "warning" \in Message /\ "network" \in Message
  BY DEF Message
<1>5. CASE alerts' = alerts
  BY <1>2, <1>5
<1>6. CASE \E offline \in BOOLEAN : HousesFail(offline) \/ OldLoadFails(offline)
  BY <1>1, <1>6, FailureShownKeeps DEF HousesFail, OldLoadFails, Shown
<1>7. CASE OfflineRequest
  BY <1>3, <1>4, <1>7 DEF OfflineRequest, Shown
<1>8. ASSUME NEW name, NEW lastName, updateProfile(name, lastName)
      PROVE  ShowsKeep(alerts, alerts')
  BY <1>2, <1>3, <1>4, <1>8 DEF updateProfile, Shown, Quiet
<1>9. CASE \E rows \in Rows : sendMessagePressed(rows)
  BY <1>1, <1>9, FormCheckedKeeps DEF sendMessagePressed, Shown
<1>10. CASE Relaunch
  BY <1>10 DEF Relaunch
<1>11. CASE \/ \E l \in Lang : langBtnsPressed(l)
            \/ goToSignUpBtnPressed \/ nextBtnPressed \/ IdsArrive \/ HousesArrive \/ OldLoadEnds
            \/ \E from, to \in Page : Opened(from, to)
            \/ ContactPopped
            \/ \E l \in Lang : languagePressed(l)
            \/ Reloaded
  <2>1. alerts' = alerts
    BY <1>11 DEF langBtnsPressed, goToSignUpBtnPressed, nextBtnPressed, IdsArrive, HousesArrive,
      OldLoadEnds, Opened, ContactPopped, languagePressed, Reloaded, Quiet
  <2> QED BY <1>2, <2>1
<1>12. CASE UNCHANGED vars
  BY <1>5, <1>12 DEF vars
<1> QED BY <1>6, <1>7, <1>8, <1>9, <1>10, <1>11, <1>12 DEF Next

(* Closing a message takes it down, whatever becomes of the timers.        *)
LEMMA closeBtnPressedTimers ==
  ASSUME NEW a \in AlertType, NEW k \in Message, NEW c, c = closeBtnPressed(a, k)
  PROVE  /\ c.view[k] # "up" /\ ~c.held
         /\ \A j \in Message \ {k} : c.view[j] = a.view[j]
<1> DEFINE b == invalidated(a)
<1>1. b \in AlertType /\ b.view = a.view /\ ~b.held
  <2> HIDE DEF b
  <2> QED BY invalidatedTimers DEF b
<1>2. c = IF a.view[k] = "none" THEN b ELSE [b EXCEPT !.view[k] = "leaving"]
  BY DEF closeBtnPressed
<1> HIDE DEF b
<1>3. CASE a.view[k] = "none"
  BY <1>1, <1>2, <1>3
<1>4. CASE a.view[k] # "none"
  <2>1. c = [b EXCEPT !.view[k] = "leaving"]
    BY <1>2, <1>4
  <2> QED BY <1>1, <2>1 DEF AlertType
<1> QED BY <1>3, <1>4

(* A timer that fires closes the message it belongs to.                    *)
LEMMA timerFiredTimers ==
  ASSUME NEW a \in AlertType, a.timers # <<>>, NEW c, c = timerFired(a)
  PROVE  /\ Head(a.timers) \in Message /\ ~c.held
         /\ c.view[Head(a.timers)] # "up"
         /\ \A j \in Message \ {Head(a.timers)} : c.view[j] = a.view[j]
<1> DEFINE d == [a EXCEPT !.timers = Tail(@), !.held = @ /\ Len(a.timers) > 1]
           k == Head(a.timers)
<1>1. Tail(a.timers) \in Seq(Message) /\ k \in Message
  BY DEF AlertType
<1>2. (a.held /\ Len(a.timers) > 1) \in BOOLEAN
  OBVIOUS
<1>3. d \in AlertType /\ d.view = a.view
  BY <1>1, <1>2 DEF AlertType
<1>4. c = closeBtnPressed(d, k)
  BY DEF timerFired
<1> HIDE DEF d
<1> QED BY <1>1, <1>3, <1>4, closeBtnPressedTimers

LEMMA AlertStepKeeps ==
  ASSUME AlertTypeOK, TimersTell(alerts), AlertStep
  PROVE  /\ TimersTell(alerts')
         /\ \A k \in Message : Alone(alerts, k) => Alone(alerts', k) \/ alerts'.view[k] # "up"
         /\ \A k \in Message : \A j \in Message \ {k} :
              HasTimer(alerts, k) /\ alerts.view[j] = "none" /\ Head(alerts.timers) # j =>
                HasTimer(alerts', k) \/ alerts'.view[k] # "up"
<1>1. alerts \in AlertType
  BY DEF AlertTypeOK, AlertType
<1>2. CASE AlertTimerFires
  <2>1. /\ Head(alerts.timers) \in Message /\ ~alerts'.held
        /\ alerts'.view[Head(alerts.timers)] # "up"
        /\ \A j \in Message \ {Head(alerts.timers)} : alerts'.view[j] = alerts.view[j]
    BY <1>1, <1>2, timerFiredTimers DEF AlertTimerFires
  <2>2. ASSUME NEW k \in Message, Alone(alerts, k)
        PROVE  Head(alerts.timers) = k
    BY <1>1, <2>2 DEF Alone, TimersTell, AlertType
  <2>3. ASSUME NEW k \in Message, NEW j \in Message \ {k}
        PROVE  Head(alerts.timers) = k \/ Head(alerts.timers) = j
    BY <2>1 DEF Message
  <2> QED BY <2>1, <2>2, <2>3 DEF TimersTell
<1>3. ASSUME NEW m \in Message, AlertSwiped(m)
      PROVE  /\ alerts.view[m] = "up" /\ ~alerts'.held /\ alerts'.view[m] # "up"
             /\ \A j \in Message \ {m} : alerts'.view[j] = alerts.view[j]
  BY <1>1, <1>3, closeBtnPressedTimers DEF AlertSwiped
<1>4. CASE \E m \in Message : AlertSwiped(m)
  <2>1. PICK m \in Message : AlertSwiped(m)
    BY <1>4
  <2>2. \A k \in Message : \A j \in Message \ {k} : m = k \/ m = j
    BY DEF Message
  <2> QED BY <1>3, <2>1, <2>2 DEF TimersTell, Alone
<1>5. ASSUME NEW m \in Message, AlertSlidOut(m)
      PROVE  /\ alerts.view[m] = "leaving" /\ alerts'.view[m] = "none"
             /\ alerts'.held = alerts.held /\ alerts'.timers = alerts.timers
             /\ \A j \in Message \ {m} : alerts'.view[j] = alerts.view[j]
  BY <1>1, <1>5 DEF AlertSlidOut, AlertType
<1>6. CASE \E m \in Message : AlertSlidOut(m)
  BY <1>5, <1>6 DEF TimersTell, Alone, HasTimer
<1> QED BY <1>2, <1>4, <1>6 DEF AlertStep

LEMMA NoAlertsTell ==
  TimersTell(NoAlerts) /\ \A k \in Message : NoAlerts.view[k] = "none"
  BY DEF TimersTell, NoAlerts, Message

LEMMA TimersTellNext ==
  ASSUME AlertTypeOK, TimersTell(alerts), [Next]_vars
  PROVE  TimersTell(alerts')
  BY MessagesNext, AlertStepKeeps, NoAlertsTell DEF ShowsKeep

LEMMA TimersAlwaysTell == Spec => [](AlertTypeOK /\ TimersTell(alerts))
<1>1. Init => TimersTell(alerts)
  BY NoAlertsTell DEF Init, AlertInit
<1>2. AlertTypeOK /\ TimersTell(alerts) /\ [Next]_vars => TimersTell(alerts)'
  BY TimersTellNext
<1>3. TypeOK => AlertTypeOK
  BY DEF TypeOK
<1> QED BY <1>1, <1>2, <1>3, TypeCorrect, PTL DEF Spec

(* While two messages are up a timer is to fire, and when it does they are *)
(* not both up.  While one is up alone, with timers of its own, the next   *)
(* to fire is one of them; it stays so until it goes or the other comes;   *)
(* and when its timer fires it goes.                                       *)
MessagesGo ==
  /\ [](BothUp => alerts.timers # <<>>)
  /\ [](\A k \in Message : Alone(alerts, k) => alerts.timers # <<>> /\ Head(alerts.timers) = k)
  /\ [][\A k \in Message : Alone(alerts, k) =>
           \/ Alone(alerts', k)
           \/ alerts'.view[k] # "up"
           \/ \E j \in Message \ {k} : alerts'.view[j] = "up"]_vars
  /\ [][AlertTimerFires => ~BothUp' /\ \A k \in Message : Alone(alerts, k) => alerts'.view[k] # "up"]_vars

(* With timers that run to their end this gives BothUpSettles and          *)
(* LoneAlertCloses, for any number of messages shown (Alert.swift,         *)
(* closeBtnPressed and its timer).                                         *)
THEOREM MessagesAlwaysGo == Spec => MessagesGo
<1>1. ASSUME AlertTypeOK, TimersTell(alerts)
      PROVE  /\ BothUp => alerts.timers # <<>>
             /\ \A k \in Message : Alone(alerts, k) => alerts.timers # <<>> /\ Head(alerts.timers) = k
  <2>1. alerts.timers \in Seq(Message)
    BY <1>1 DEF AlertTypeOK
  <2> QED BY <1>1, <2>1 DEF TimersTell, BothUp, Alone
<1>2. ASSUME AlertTypeOK, TimersTell(alerts), [Next]_vars
      PROVE  \A k \in Message : Alone(alerts, k) =>
               \/ Alone(alerts', k)
               \/ alerts'.view[k] # "up"
               \/ \E j \in Message \ {k} : alerts'.view[j] = "up"
  BY <1>2, MessagesNext, AlertStepKeeps, NoAlertsTell DEF ShowsKeep
<1>3. ASSUME AlertTypeOK, TimersTell(alerts), AlertTimerFires
      PROVE  ~BothUp' /\ \A k \in Message : Alone(alerts, k) => alerts'.view[k] # "up"
  <2>1. alerts \in AlertType
    BY <1>3 DEF AlertTypeOK, AlertType
  <2>2. Head(alerts.timers) \in Message /\ alerts'.view[Head(alerts.timers)] # "up"
    BY <1>3, <2>1, timerFiredTimers DEF AlertTimerFires
  <2> QED BY <1>1, <1>3, <2>2 DEF BothUp
<1> QED BY <1>1, <1>2, <1>3, TimersAlwaysTell, PTL DEF Spec, MessagesGo

(* A message that is up loses its last timer only while the other message  *)
(* has a view, or as a timer of the other fires: the static that both of   *)
(* them share is the one reason why a message is not closed in time.       *)
OnlyTheOtherTakesATimer ==
  [][\A k \in Message : \A j \in Message \ {k} :
       /\ alerts.view[k] = "up" /\ HasTimer(alerts, k)
       /\ alerts'.view[k] = "up" /\ ~HasTimer(alerts', k)
       => alerts.view[j] # "none" \/ Head(alerts.timers) = j]_vars

(* No message takes its own timer away, however often it is shown, swiped  *)
(* or closed (Alert.swift).                                                *)
THEOREM TimersAreTakenByTheOther == Spec => OnlyTheOtherTakesATimer
<1>1. ASSUME AlertTypeOK, TimersTell(alerts), [Next]_vars,
             NEW k \in Message, NEW j \in Message \ {k},
             HasTimer(alerts, k), alerts'.view[k] = "up", ~HasTimer(alerts', k),
             alerts.view[j] = "none", Head(alerts.timers) # j
      PROVE  FALSE
  <2>1. TimerIsSafe(alerts, k)
    BY <1>1 DEF TimerIsSafe, Message
  <2>2. CASE ShowsKeep(alerts, alerts')
    BY <1>1, <2>1, <2>2 DEF ShowsKeep, TimerIsSafe
  <2>3. CASE AlertStep
    BY <1>1, <2>3, AlertStepKeeps
  <2>4. CASE alerts' = NoAlerts
    BY <1>1, <2>4, NoAlertsTell
  <2> QED BY <1>1, <2>2, <2>3, <2>4, MessagesNext
<1>2. AlertTypeOK /\ TimersTell(alerts) /\ [Next]_vars =>
        [\A k \in Message : \A j \in Message \ {k} :
           /\ alerts.view[k] = "up" /\ HasTimer(alerts, k)
           /\ alerts'.view[k] = "up" /\ ~HasTimer(alerts', k)
           => alerts.view[j] # "none" \/ Head(alerts.timers) = j]_vars
  BY <1>1
<1> QED BY <1>2, TimersAlwaysTell, PTL DEF Spec, OnlyTheOtherTakesATimer

=============================================================================
