--------------------------- MODULE MCMonitorLists ---------------------------
(* Monitor lists for TLC.                                                  *)
EXTENDS MonitorLists

CONSTANTS l1, l2
=============================================================================
