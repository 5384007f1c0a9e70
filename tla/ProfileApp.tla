------------------------------ MODULE ProfileApp ------------------------------
(***************************************************************************)
(* What the user sets once and every screen reads: the language, chosen on *)
(* the first launch or on the profile tab, and the name; with the messages *)
(* that the forms, the network and the load of the houses show.  A new     *)
(* language is stored at once and half a second later all tabs are built   *)
(* anew, which starts a new load of the houses beside the old one.         *)
(***************************************************************************)
EXTENDS Alert, Loader

CONSTANTS
  Name,         \* what can be typed as a name
  NoName,       \* nothing typed, nothing stored
  MaxShows,     \* bound: handlers that show messages, in one process
  MaxOldLoads   \* bound: loads of home screens that are gone

ASSUME ProfileAssumption ==
  /\ NoName \notin Name
  /\ MaxShows \in Nat
  /\ MaxOldLoads \in Nat

Lang == {"uz", "ru", "en"}
NoLang == "none"

\* The language of the texts: SetLanguage falls back on English.
setLang(l) == IF l = NoLang THEN "en" ELSE l

\* Mutant: English is asked for in Uzbek.
currentLangTwo(l) == IF l = "ru" THEN "ru" ELSE "uz"

\* The language the server is asked for: API falls back on Uzbek.
currentLang(l) == IF l = NoLang THEN "uz" ELSE l

VARIABLES
  LANG,                      \* stored: the language
  isUserEnteredFirstTime,    \* stored: has the introduction been read?
  userName,                  \* stored: the name
  root,         \* what fills the window: "language", "introduction", "tabs"
  currentPage,  \* the page of the introduction
  page,         \* the screen in front among the tabs, "none" before them
  textLang,     \* the language of the texts in front
  nameShown,    \* the name on the profile tab
  load,         \* the load of the houses of the home screen: its stage,
  housesLang,   \* and the language the houses were asked for in
  oldLoads,     \* loads under way of home screens that are gone
  reloadsDue,   \* scheduled reloads of the application
  popsDue,      \* does a sent message's pop of the contact page come?
  shows         \* handlers that have shown messages

stored == <<LANG, isUserEnteredFirstTime, userName>>
pages == <<currentPage, page>>
loadVars == <<load, housesLang, oldLoads>>
vars == <<alerts, overlays, stored, root, pages, textLang, nameShown, loadVars,
          reloadsDue, popsDue, shows>>

Page == {"home", "profile", "edit", "language", "contact"}

\* A handler that calls the show functions leaves the messages in state a.
Shown(a) == shows < MaxShows /\ shows' = shows + 1 /\ alerts' = a

Quiet == UNCHANGED <<alerts, shows>>

\* CustomTabBar(): new tabs with texts in the language stored by now, and a
\* home screen that starts its load under an overlay.
tabsBuilt ==
  /\ root' = "tabs"
  /\ page' = "home"
  /\ currentPage' = 0
  /\ textLang' = setLang(LANG)
  /\ nameShown' = NoName
  /\ load' = "ids"
  /\ housesLang' = NoLang

languagePage ==
  /\ root' = "language"
  /\ page' = "none"
  /\ currentPage' = 0
  /\ textLang' = setLang(LANG)
  /\ nameShown' = NoName
  /\ load' = "failed"
  /\ housesLang' = NoLang

Init ==
  /\ AlertInit
  /\ overlays = 0
  /\ LANG = NoLang
  /\ isUserEnteredFirstTime = FALSE
  /\ userName = NoName
  /\ root = "language"
  /\ page = "none"
  /\ currentPage = 0
  /\ textLang = setLang(NoLang)
  /\ nameShown = NoName
  /\ load = "failed"
  /\ housesLang = NoLang
  /\ oldLoads = 0
  /\ reloadsDue = 0
  /\ popsDue = FALSE
  /\ shows = 0

\* The process ends, at any moment, and the user opens the application again.
Relaunch ==
  /\ IF isUserEnteredFirstTime THEN tabsBuilt /\ overlays' = 1
                               ELSE languagePage /\ overlays' = 0
  /\ alerts' = NoAlerts
  /\ oldLoads' = 0
  /\ reloadsDue' = 0
  /\ popsDue' = FALSE
  /\ shows' = 0
  /\ UNCHANGED stored

-----------------------------------------------------------------------------
\* SingInLangVC stores the language and sets its texts again.
langBtnsPressed(l) ==
  /\ root = "language"
  /\ LANG' = l
  /\ textLang' = setLang(l)
  /\ Quiet
  /\ UNCHANGED <<overlays, isUserEnteredFirstTime, userName, root, pages, nameShown, loadVars, reloadsDue, popsDue>>

goToSignUpBtnPressed ==
  /\ root = "language"
  /\ root' = "introduction"
  /\ currentPage' = 0
  /\ textLang' = setLang(LANG)
  /\ Quiet
  /\ UNCHANGED <<overlays, stored, page, nameShown, loadVars, reloadsDue, popsDue>>

\* After the third page the tabs come up.
nextBtnPressed ==
  /\ root = "introduction"
  /\ IF currentPage < 2
       THEN /\ currentPage' = currentPage + 1
            /\ textLang' = setLang(LANG)
            /\ UNCHANGED <<overlays, isUserEnteredFirstTime, root, page, nameShown, loadVars>>
       ELSE /\ isUserEnteredFirstTime' = TRUE
            /\ tabsBuilt
            /\ LoaderStart(1)
            /\ UNCHANGED oldLoads
  /\ Quiet
  /\ UNCHANGED <<LANG, userName, reloadsDue, popsDue>>

-----------------------------------------------------------------------------
\* getHouses asks for the ids, and then for each house in the language that
\* is stored at that moment.
IdsArrive ==
  /\ load = "ids"
  /\ load' = "details"
  /\ housesLang' = currentLang(LANG)
  /\ Quiet
  /\ UNCHANGED <<overlays, stored, root, pages, textLang, nameShown, oldLoads, reloadsDue, popsDue>>

HousesArrive ==
  /\ load = "details"
  /\ load' = "shown"
  /\ LoaderStop
  /\ Quiet
  /\ UNCHANGED <<stored, root, pages, textLang, nameShown, housesLang, oldLoads, reloadsDue, popsDue>>

\* A failed answer is a warning of the presenter, and offline the network
\* layer has shown its message before.
failureShown(offline) ==
  showAlert(IF offline THEN showAlert(alerts, "network") ELSE alerts, "warning")

\* Without the ids the load is over; without a house it may be.
HousesFail(offline) ==
  /\ load \in {"ids", "details"}
  /\ load' \in {"failed"} \cup ({"details"} \cap {load})
  /\ Shown(failureShown(offline))
  /\ UNCHANGED <<overlays, stored, root, pages, textLang, nameShown, housesLang, oldLoads, reloadsDue, popsDue>>

\* The presenter of a home screen that is gone still shows its warnings; its
\* houses go nowhere.
OldLoadFails(offline) ==
  /\ oldLoads > 0
  /\ Shown(failureShown(offline))
  /\ oldLoads' \in {oldLoads, oldLoads - 1}
  /\ UNCHANGED <<overlays, stored, root, pages, textLang, nameShown, load, housesLang, reloadsDue, popsDue>>

OldLoadEnds ==
  /\ oldLoads > 0
  /\ oldLoads' = oldLoads - 1
  /\ Quiet
  /\ UNCHANGED <<overlays, stored, root, pages, textLang, nameShown, load, housesLang, reloadsDue, popsDue>>

\* A request of any other screen of the tabs while the phone is offline.
OfflineRequest ==
  /\ root = "tabs"
  /\ Shown(showAlert(alerts, "network"))
  /\ UNCHANGED <<overlays, stored, root, pages, textLang, nameShown, loadVars, reloadsDue, popsDue>>

-----------------------------------------------------------------------------
InFront(p) == root = "tabs" /\ page = p /\ Touchable

\* Mutant: the profile tab does not draw its first section again.
ProfileWillAppearOnce(name) == nameShown' = IF nameShown = NoName THEN name ELSE nameShown

\* viewWillAppear of the profile tab draws the row with the name again.
ProfileWillAppear(name) == nameShown' = name

\* From a screen to one beside it, or pushed or presented over it.
Opens == {<<"home", "contact">>, <<"home", "profile">>, <<"profile", "edit">>, <<"profile", "language">>}

\* Leaving the contact page drops what its pop would do.
Opened(from, to) ==
  /\ InFront(from)
  /\ <<from, to>> \in Opens \/ <<to, from>> \in Opens
  /\ page' = to
  /\ IF to = "profile" /\ from # "language" THEN ProfileWillAppear(userName) ELSE UNCHANGED nameShown
  /\ popsDue' = (popsDue /\ from # "contact")
  /\ Quiet
  /\ UNCHANGED <<overlays, stored, root, currentPage, textLang, loadVars, reloadsDue>>

\* EditProfileVC stores the names if both are given, and is popped.
updateProfile(name, lastName) ==
  /\ InFront("edit")
  /\ IF name # NoName /\ lastName # NoName
       THEN /\ userName' = name
            /\ page' = "profile"
            /\ ProfileWillAppear(name)
            /\ Quiet
       ELSE /\ Shown(showAlert(alerts, "warning"))
            /\ UNCHANGED <<userName, page, nameShown>>
  /\ UNCHANGED <<overlays, LANG, isUserEnteredFirstTime, root, currentPage, textLang, loadVars, reloadsDue, popsDue>>

-----------------------------------------------------------------------------
(* The contact form.  Of its four rows those on the screen are looked at,  *)
(* one by one: an empty one is a warning, and each filled one sends the    *)
(* message and says so.                                                    *)
Rows == {rows \in [1..4 -> {"hidden", "empty", "filled"}] :
           \E i, j \in 1..4 : i <= j /\ \A r \in 1..4 : rows[r] # "hidden" <=> r \in i..j}

rowChecked(a, row) ==
  CASE row = "hidden" -> a
    [] row = "empty"  -> showAlert(a, "warning")
    [] row = "filled" -> showAlert(a, "network")

formChecked(rows) ==
  rowChecked(rowChecked(rowChecked(rowChecked(alerts, rows[1]), rows[2]), rows[3]), rows[4])

\* On a phone that can send mail.
sendMessagePressed(rows) ==
  /\ InFront("contact")
  /\ Shown(formChecked(rows))
  /\ popsDue' = (popsDue \/ \E r \in 1..4 : rows[r] = "filled")
  /\ UNCHANGED <<overlays, stored, root, pages, textLang, nameShown, loadVars, reloadsDue>>

\* One of them pops the page; the others find nothing more to pop.
ContactPopped ==
  /\ popsDue
  /\ popsDue' = FALSE
  /\ page' = "home"
  /\ Quiet
  /\ UNCHANGED <<overlays, stored, root, currentPage, textLang, nameShown, loadVars, reloadsDue>>

-----------------------------------------------------------------------------
\* Mutant: the page takes presses under the overlay.
languagePressedAnyTime(l) ==
  /\ root = "tabs" /\ page = "language"
  /\ LANG' = l
  /\ LoaderStart(1)
  /\ reloadsDue' = reloadsDue + 1
  /\ Quiet
  /\ UNCHANGED <<isUserEnteredFirstTime, userName, root, pages, textLang, nameShown, loadVars, popsDue>>

\* ChooseLanguageVC stores the language and schedules the reload.  A second
\* finger that was down before the overlay came presses another language.
languagePressed(l) ==
  /\ root = "tabs" /\ page = "language"
  /\ Touchable \/ reloadsDue = 1
  /\ LANG' = l
  /\ LoaderStart(1)
  /\ reloadsDue' = reloadsDue + 1
  /\ Quiet
  /\ UNCHANGED <<isUserEnteredFirstTime, userName, root, pages, textLang, nameShown, loadVars, popsDue>>

\* Mutant: the overlays are removed after the new tabs have come.
ReloadedThenStopped ==
  /\ reloadsDue > 0
  /\ reloadsDue' = reloadsDue - 1
  /\ tabsBuilt
  /\ overlays' = 0
  /\ oldLoads' = oldLoads + (IF load \in {"ids", "details"} THEN 1 ELSE 0)
  /\ popsDue' = FALSE
  /\ Quiet
  /\ UNCHANGED stored

\* Mutant: the tabs are kept, with the texts they have.
ReloadedSameTabs ==
  /\ reloadsDue > 0
  /\ reloadsDue' = reloadsDue - 1
  /\ page' = "home"
  /\ LoaderStop
  /\ Quiet
  /\ UNCHANGED <<stored, root, currentPage, textLang, nameShown, loadVars, popsDue>>

\* Half a second later: Loader.stop, then new tabs with an overlay of their
\* own.  The home screen before is released, its load is not.
Reloaded ==
  /\ reloadsDue > 0
  /\ oldLoads < MaxOldLoads \/ load \notin {"ids", "details"}
  /\ reloadsDue' = reloadsDue - 1
  /\ tabsBuilt
  /\ overlays' = 1
  /\ oldLoads' = oldLoads + (IF load \in {"ids", "details"} THEN 1 ELSE 0)
  /\ popsDue' = FALSE
  /\ Quiet
  /\ UNCHANGED stored

AlertStep ==
  /\ AlertTimerFires \/ (\E k \in Message : AlertSwiped(k) \/ AlertSlidOut(k))
  /\ UNCHANGED <<overlays, stored, root, pages, textLang, nameShown, loadVars, reloadsDue, popsDue, shows>>

Next ==
  \/ Relaunch
  \/ \E l \in Lang : langBtnsPressed(l)
  \/ goToSignUpBtnPressed
  \/ nextBtnPressed
  \/ IdsArrive
  \/ HousesArrive
  \/ \E offline \in BOOLEAN : HousesFail(offline)
  \/ \E offline \in BOOLEAN : OldLoadFails(offline)
  \/ OldLoadEnds
  \/ OfflineRequest
  \/ \E from, to \in Page : Opened(from, to)
  \/ \E name, lastName \in Name \cup {NoName} : updateProfile(name, lastName)
  \/ \E rows \in Rows : sendMessagePressed(rows)
  \/ ContactPopped
  \/ \E l \in Lang : languagePressed(l)
  \/ Reloaded
  \/ AlertStep

\* Timers and animations of the main run loop come to their end.
Spec ==
  /\ Init /\ [][Next]_vars
  /\ WF_vars(AlertTimerFires /\ AlertStep)

-----------------------------------------------------------------------------
TypeOK ==
  /\ AlertTypeOK
  /\ overlays \in Nat
  /\ LANG \in Lang \cup {NoLang}
  /\ isUserEnteredFirstTime \in BOOLEAN
  /\ userName \in Name \cup {NoName} /\ nameShown \in Name \cup {NoName}
  /\ root \in {"language", "introduction", "tabs"}
  /\ currentPage \in 0..2 /\ page \in Page \cup {"none"}
  /\ textLang \in Lang /\ housesLang \in Lang \cup {NoLang}
  /\ load \in {"ids", "details", "shown", "failed"}
  /\ oldLoads \in Nat /\ reloadsDue \in 0..2 /\ popsDue \in BOOLEAN /\ shows \in 0..MaxShows

\* Whatever is pressed, reloaded or ended in between, the texts in front are in
\* the stored language, unless a reload is about to come.
TextIsCurrent == reloadsDue = 0 => textLang = setLang(LANG)

\* The houses shown are in the language of the texts around them, once one has
\* been chosen: the load of earlier tabs never brings its own.
HousesSpeakTheLanguage ==
  load = "shown" /\ reloadsDue = 0 /\ LANG # NoLang => housesLang = textLang

\* A load of houses is under an overlay, though every reload removes all.
LoadIsCovered == root = "tabs" /\ load \in {"ids", "details"} => ~Touchable

\* The profile tab shows the stored name, in whatever way it comes to the front.
NameIsCurrent == InFront("profile") => nameShown = userName

=============================================================================
