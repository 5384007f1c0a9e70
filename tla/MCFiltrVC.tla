------------------------------ MODULE MCFiltrVC ------------------------------
(***************************************************************************)
(* The home screen and its filter, with a house in the capital, which the  *)
(* server names otherwise than the category does, and one elsewhere.       *)
(***************************************************************************)
EXTENDS FiltrVC

Houses == {"yard", "lake"}

Regions == {"Hammasi", "Toshkent", "Chorvoq"}

Provinces == [h \in Houses |-> IF h = "lake" THEN "Chorvoq" ELSE "Toshkent sh."]

\* What searchByCategory turns the name of a category into.
Cities == [r \in Regions |-> IF r = "Toshkent" THEN "Toshkent sh." ELSE r]

Texts == {"", "a"}

NameHas == [t \in Texts |-> IF t = "" THEN Houses ELSE {"yard"}]

Working == [h \in Houses |-> IF h = "yard" THEN 200000 ELSE 100000]

Weekends == [h \in Houses |-> IF h = "yard" THEN 200000 ELSE 400000]

\* What the circles can be at, when houses are shown or none is.
Prices == {100000 * n : n \in (-1)..150}

\* Guests, features, switches and people: who has what.
Has == <<{"yard"}, Houses, {"lake"}, {"lake"}>>

Filters == SUBSET (1..4)

Passes == [f \in Filters |-> {h \in Houses : \A r \in f : h \in Has[r]}]

\* The top of the sheet and its end; and, with all the
\* features shown, nothing but them.
Rows == {0..2, {2}, 2..4}

=============================================================================
