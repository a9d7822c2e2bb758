-------------------------- MODULE MCTagAcquisition --------------------------
(* The instance of TagAcquisition that TLC checks.                         *)
EXTENDS TagAcquisition, TLC

CONSTANTS s1, s2, d1, b1, b2
=============================================================================
