---------------------------- MODULE MCScanCache ----------------------------
(* Two processes of one project on their cache files. *)
EXTENDS ScanCache
=============================================================================
