---------------------------- MODULE MCStudioStore ----------------------------
(* The instance of StudioStore that TLC checks; its bounds are in           *)
(* StoreRestarts.cfg.                                                       *)
EXTENDS StudioStore
CONSTANTS n1, n2, x, g1, g2, d

=============================================================================
