-------------------------------- MODULE Alert --------------------------------
(***************************************************************************)
(* The messages that slide in over the window: one view for showAlert and  *)
(* one for showAlertWithBool.  Each closes itself by a timer four seconds  *)
(* later, but both keep their timer in one static variable, so showing or  *)
(* closing one of them can take the timer of the other away.               *)
(***************************************************************************)
EXTENDS Naturals, Sequences

\* showAlert and showAlertWithBool, by the tags of their views: 9981, 9982.
Message == {"warning", "network"}

VARIABLE alerts   \* the two views, the timers, and what the static holds

(* view[k]   is the view of message k down, up, or sliding out?            *)
(* timers    the timers that will fire, in order: all run four seconds     *)
(* held      does the static variable hold the last of them?  Otherwise    *)
(*           it holds one that has fired or was invalidated.               *)

NoAlerts == [view |-> [k \in Message |-> "none"], timers |-> <<>>, held |-> FALSE]

\* timer?.invalidate()
invalidated(a) ==
  IF a.held THEN [a EXCEPT !.timers = SubSeq(@, 1, Len(@) - 1), !.held = FALSE] ELSE a

\* A view already up is replaced and the static timer stopped, whosever it
\* is; the static then holds the timer of this message.
showAlert(a, k) ==
  LET b == IF a.view[k] = "none" THEN a ELSE invalidated(a)
  IN  [view |-> [b.view EXCEPT ![k] = "up"], timers |-> Append(b.timers, k), held |-> TRUE]

\* Mutant: the static timer is stopped, but the view stays.
closeBtnPressedStays(a, k) == invalidated(a)

\* Mutant: the view slides out only if the static timer was still to fire.
closeBtnPressedIfHeld(a, k) ==
  LET b == invalidated(a)
  IN  IF a.view[k] = "none" \/ ~a.held THEN b ELSE [b EXCEPT !.view[k] = "leaving"]

\* The view, if it is there, slides out, and the static timer is stopped
\* even if it is not.
closeBtnPressed(a, k) ==
  LET b == invalidated(a)
  IN  IF a.view[k] = "none" THEN b ELSE [b EXCEPT !.view[k] = "leaving"]

\* The first timer fires: it is spent, also if the static still holds it.
timerFired(a) ==
  closeBtnPressed([a EXCEPT !.timers = Tail(@), !.held = @ /\ Len(a.timers) > 1], Head(a.timers))

AlertInit == alerts = NoAlerts

AlertTimerFires ==
  /\ alerts.timers # <<>>
  /\ alerts' = timerFired(alerts)

\* A view takes no touches while it slides out.
AlertSwiped(k) ==
  /\ alerts.view[k] = "up"
  /\ alerts' = closeBtnPressed(alerts, k)

AlertSlidOut(k) ==
  /\ alerts.view[k] = "leaving"
  /\ alerts' = [alerts EXCEPT !.view[k] = "none"]

-----------------------------------------------------------------------------
AlertTypeOK ==
  alerts \in [view : [Message -> {"none", "up", "leaving"}], timers : Seq(Message), held : BOOLEAN]

BothUp == \A k \in Message : alerts.view[k] = "up"

\* Message k is up, and only timers of its own kind will fire.
Lone(k) == alerts.view[k] = "up" /\ alerts.held /\ \A i \in DOMAIN alerts.timers : alerts.timers[i] = k

\* Once no more messages come, two that are up do not both stay.
BothUpSettles == BothUp ~> ~BothUp

\* Once no more messages come, a message that meets no other closes by itself.
LoneAlertCloses ==
  \A k \in Message : Lone(k) ~> alerts.view[k] # "up" \/ \E j \in Message \ {k} : alerts.view[j] = "up"

=============================================================================
