---------------------------- MODULE MCTagDelivery ---------------------------
(* The instance of TagDelivery that TLC checks: one page of one source     *)
(* beside a source it does not show.                                       *)
EXTENDS TagDelivery

CONSTANTS c1, s1, s2

OneOfTwo == [c \in Client |-> {s1}]
=============================================================================
