-------------------------- MODULE MCDynamicConfig --------------------------
(* Inventories on both sides of the thresholds of the sanity check. *)
EXTENDS DynamicConfig
MCFull == [scanned |-> 40, survivors |-> 30, mapped |-> 10, scored |-> 8]
MCShrunk == [scanned |-> 14, survivors |-> 12, mapped |-> 6, scored |-> 5]
MCCold == [scanned |-> 2, survivors |-> 1, mapped |-> 0, scored |-> 0]
MCBroken == [scanned |-> 40, survivors |-> 4, mapped |-> 10, scored |-> 3]
=============================================================================
