----------------------------- MODULE MCBlockEngine -----------------------------
(* A workflow whose list of blocks goes against its edges: a latch that is *)
(* set by the edge of "both sub-inputs are on" and reset by a timer, and   *)
(* two more timers of the same trigger.                                    *)
EXTENDS BlockEngine

Placed(id, type, inputs, duration, reads) ==
  [id |-> id, type |-> type, inputCount |-> inputs, duration |-> duration, reads |-> reads]

Adverse == <<
  Placed("latch", "SR_LATCH", 2, 0, 0), Placed("out", "MODBUS_OUTPUT", 1, 0, 0),
  Placed("ton", "TON", 2, 1, 0), Placed("tof", "TOF", 2, 1, 0), Placed("pulse", "PULSE", 2, 1, 0),
  Placed("edge", "RISING_EDGE", 1, 0, 0), Placed("both", "AND", 2, 0, 0),
  Placed("multi", "MODBUS_MULTI_INPUT", 0, 0, 2), Placed("trigger", "MANUAL_TRIGGER", 0, 0, 0)>>

(* The second input of a timer is only looked at for its quality.          *)
Wires == {
  <<"multi", 0, "both", 0>>, <<"multi", 1, "both", 1>>, <<"both", 0, "edge", 0>>,
  <<"edge", 0, "latch", 0>>, <<"ton", 0, "latch", 1>>, <<"latch", 0, "out", 0>>,
  <<"trigger", 0, "ton", 0>>, <<"trigger", 0, "tof", 0>>, <<"trigger", 0, "pulse", 0>>,
  <<"trigger", 0, "ton", 1>>, <<"trigger", 0, "tof", 1>>, <<"trigger", 0, "pulse", 1>>}

ASSUME EnoughPasses
================================================================================
