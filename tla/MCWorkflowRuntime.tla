-------------------------- MODULE MCWorkflowRuntime --------------------------
(* Workflows, resources and sets of definitions for TLC.                   *)
EXTENDS WorkflowRuntime

CONSTANTS w1, w2, r1, r2

Design(mode, target) == [mode |-> mode, enabled |-> TRUE, valid |-> TRUE, target |-> target]

(* Two workflows with one output; the first can also be given another one. *)
Shared ==
  [w \in Workflow |->
     IF w = w1 THEN {Design("LIVE_LOCKED", r1), Design("LIVE_ARMED", r1), Design("LIVE_LOCKED", r2)}
     ELSE {Design("DESIGN", r1), Design("LIVE_ARMED", r1)}]

(* One workflow in every mode, also disabled and invalid.                  *)
Unfit ==
  {[Design("LIVE_ARMED", r1) EXCEPT !.valid = FALSE],
   [Design("LIVE_LOCKED", r1) EXCEPT !.enabled = FALSE]}

Many ==
  [w \in Workflow |-> {Design(m, r1) : m \in Mode} \cup Unfit]

Readings == [w \in Workflow |-> "READING"]
Mixed == [w \in Workflow |-> IF w = w1 THEN "READING" ELSE "ONE_SHOT"]
=============================================================================
