----------------------------- MODULE MCLikesApp -----------------------------
(***************************************************************************)
(* Small instances of LikesApp: few products, and the tabs that matter to  *)
(* the question a run asks.                                                *)
(***************************************************************************)
EXTENDS LikesApp

HousesOnly == [k \in Kind |-> IF k = "house" THEN Id ELSE {}]
PartiesAndOneHouse == [k \in Kind |-> IF k = "party" THEN Id ELSE IF k = "house" THEN {DefaultHouse} ELSE {}]
HousesAndOneTaxi == [k \in Kind |-> IF k = "house" THEN Id ELSE IF k = "taxi" THEN {DefaultHouse} ELSE {}]

=============================================================================
