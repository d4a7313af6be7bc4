----------------------------- MODULE MCClassifier -----------------------------
(***************************************************************************)
(* Two sessions and two prompts, one of them short, the other with a HINT   *)
(* inside.  Three configurations without scans, for the stages of a         *)
(* classification, and two with a prompt between two scans: three cloud     *)
(* models of two providers, or three local models.                          *)
(***************************************************************************)
EXTENDS Probes
CONSTANTS c1, c2, yes, ask, none
MCPrompts == {yes, ask}
MCWords == [p \in MCPrompts |-> IF p = ask THEN {"edit", "complex", "plan"} ELSE {}]
MCCloud == [m \in {"m1", "m3", "n1"} |->
    CASE m = "m1" -> [provider |-> "mistral", price |-> 1, gdp |-> 5, zero |-> FALSE]
      [] m = "m3" -> [provider |-> "mistral", price |-> 1, gdp |-> none, zero |-> FALSE]
      [] OTHER -> [provider |-> "nvidia", price |-> none, gdp |-> none, zero |-> TRUE]]
MCLocal == [m \in {"small", "large", "odd"} |->
    CASE m = "small" -> [size |-> 4, chats |-> TRUE]
      [] m = "large" -> [size |-> 30, chats |-> TRUE]
      [] OTHER -> [size |-> none, chats |-> none]]

Base == [laya |-> "off", observe |-> FALSE, compare |-> FALSE, cloud |-> TRUE, static |-> TRUE,
         found |-> << >>, probed |-> none, free |-> << >>, pin |-> none, excluded |-> {},
         chain |-> none, first |-> none, second |-> none, inventories |-> {},
         calls |-> Calls, says |-> MCPrompts, turns |-> 2, scans |-> 0]
Scan == [Base EXCEPT !.calls = {c1}, !.says = {yes}, !.turns = 1, !.scans = 2]
MCConfigs == {
    [Base EXCEPT !.found = <<"m1", "m3">>, !.pin = "m2", !.excluded = {"m1"}, !.chain = <<"small", "large">>],
    [Base EXCEPT !.laya = "active", !.observe = TRUE, !.compare = TRUE, !.probed = <<"m1">>, !.static = FALSE],
    [Base EXCEPT !.laya = "shadow", !.cloud = FALSE, !.free = <<"m1">>, !.chain = <<"small">>],
    [Scan EXCEPT !.inventories = {<<"m1", "m3", "n1">>, <<"m1">>}],
    [Scan EXCEPT !.inventories = {<<"odd", "small">>, <<"small">>}] }
=============================================================================
