--------------------------- MODULE MCLiveTransport ---------------------------
(* Telemetry keys and parts of the state for TLC: a snapshot sends p1, and *)
(* p2 is a part it leaves out, like the runtime or the audit.              *)
EXTENDS LiveTransport

CONSTANTS k1, p1, p2

MCSnapshotParts == <<p1>>
=============================================================================
