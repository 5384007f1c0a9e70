------------------------------ MODULE ListOnce ------------------------------
(***************************************************************************)
(* What a screen relies on when it loads products: the load hands over at  *)
(* most one list, in which no product stands twice, and never takes it     *)
(* back or hands over another one.  It may also never hand over a list.    *)
(***************************************************************************)
EXTENDS SequencesExt

CONSTANT Products

VARIABLE delivered   \* the lists handed over, at most one

Lists == {s \in SeqOf(Products, Cardinality(Products)) : IsInjective(s)}

Init == delivered = <<>>

Deliver == delivered = <<>> /\ \E list \in Lists : delivered' = <<list>>

Next == Deliver

Spec == Init /\ [][Next]_delivered

=============================================================================
