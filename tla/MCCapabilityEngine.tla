------------------------ MODULE MCCapabilityEngine ------------------------
(* CapabilityEngine on small instances.  Confidences and thresholds are     *)
(* percentages: one confidence below the threshold and one above it, the    *)
(* lower one also standing for a request that carries none.                 *)
EXTENDS CapabilityEngine

CONSTANT p1

MCConfidence == {0, 86}
MCThreshold  == {80}
MCOnePlan    == {p1}
=============================================================================
