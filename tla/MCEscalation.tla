---------------------------- MODULE MCEscalation ----------------------------
(* Three levels, the thresholds of the source. *)
EXTENDS Escalation
=============================================================================
