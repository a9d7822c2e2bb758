-------------------------- MODULE MCOverviewEditor --------------------------
(* Two pages for TLC: p1 with one element, p2 empty. *)
EXTENDS OverviewEditor

CONSTANTS p1, p2, p3, n1, n2, n3, v1, v2

First == [Empty(p1, n1) EXCEPT
  !.els = <<NewElement(1, 0, 1, 1)>>, !.layer = <<1>>]

TwoPages == [p \in {p1, p2} |-> IF p = p1 THEN First ELSE Empty(p2, n2)]
=============================================================================
