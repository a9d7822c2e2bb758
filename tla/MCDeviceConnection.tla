------------------------- MODULE MCDeviceConnection -------------------------
(* Requests of every class for TLC: m1 and m2 are two runs of one monitor  *)
(* list, m3 is of another; a1 and a2 have one owner.                       *)
EXTENDS DeviceConnection

CONSTANTS w1, f1, m1, m2, m3, a1, a2

MCClass == [r \in Request |->
  CASE r = w1 -> "write"
    [] r = f1 -> "workflow"
    [] r \in {m1, m2, m3} -> "monitor"
    [] OTHER -> "acquisition"]

MCOwner == [r \in Request |->
  CASE r \in {m1, m2} -> "list1"
    [] r = m3 -> "list2"
    [] OTHER -> "tags"]

MCRun == [r \in Request |-> IF r = m1 THEN 1 ELSE 2]
=============================================================================
