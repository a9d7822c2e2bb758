--------------------------- MODULE MCWorkflowEditor ---------------------------
(***************************************************************************)
(* Instances of WorkflowEditor: an armed workflow with one block, and one  *)
(* with two blocks and a connection.                                       *)
(***************************************************************************)
EXTENDS WorkflowEditor

CONSTANTS w1, w2

Block(at, p) == [name |-> <<>>, at |-> at, param |-> p]
TwoWorkflows ==
  (w1 :> [doc |-> [nodes |-> 1 :> Block(0, 0), edges |-> {}],
          rev |-> 1, mode |-> "LIVE_ARMED"])
  @@ (w2 :> [doc |-> [nodes |-> 2 :> Block(0, 0) @@ 3 :> Block(2, 0),
                      edges |-> {[source |-> 2, target |-> 3]}],
             rev |-> 2, mode |-> "LIVE_LOCKED"])

EveryKind ==
  <<{"add", "duplicate", "delete", "remove", "drag", "connect", "parameter"},
    {"history", "parameter"}, {"history"}>>
==============================================================================
