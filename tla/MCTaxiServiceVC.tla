--------------------------- MODULE MCTaxiServiceVC ---------------------------
(***************************************************************************)
(* The taxi tab with three taxis, two of them at the same price.           *)
(***************************************************************************)
EXTENDS TaxiServiceVC

Taxis == {"nexia", "tico", "spark"}

Prices == [p \in Taxis |-> IF p = "tico" THEN 3 ELSE 2]

=============================================================================
