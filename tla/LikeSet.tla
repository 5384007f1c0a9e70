------------------------------- MODULE LikeSet -------------------------------
(***************************************************************************)
(* What the application promises about likes, as a user sees it: for every *)
(* kind of product there is a set of liked products; one press of a heart  *)
(* adds or removes the one product it stands next to, and the wishlist     *)
(* only ever removes.  A like never appears or comes back on its own.      *)
(***************************************************************************)
CONSTANTS Kinds, Products

VARIABLE liked   \* liked[k]: the liked products of kind k

Init == liked = [k \in Kinds |-> {}]

Press(k, p) ==
  liked' = [liked EXCEPT ![k] = IF p \in @ THEN @ \ {p} ELSE @ \cup {p}]

Discard(k, S) == liked' = [liked EXCEPT ![k] = @ \ S]

Next == \E k \in Kinds :
  \/ \E p \in Products : Press(k, p)
  \/ \E S \in SUBSET liked[k] : Discard(k, S)

Spec == Init /\ [][Next]_liked

=============================================================================
