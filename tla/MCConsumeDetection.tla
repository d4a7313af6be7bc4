------------------------- MODULE MCConsumeDetection -------------------------
(***************************************************************************)
(* Two attempts, each upstream of at most three events before it ends,     *)
(* throws or goes silent: enough for an opening to be held, a second event *)
(* to wait behind it, and a terminal event to meet both.                   *)
(***************************************************************************)
EXTENDS ConsumeDetection
=============================================================================
