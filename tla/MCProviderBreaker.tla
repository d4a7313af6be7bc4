-------------------------- MODULE MCProviderBreaker --------------------------
(***************************************************************************)
(* Two providers for TLC: a local daemon with two models (two distinct     *)
(* models trip it) and a cloud provider with three (three trip it).  The   *)
(* ladder 1, 2, 3 is longer than the window, so that evidence ages out     *)
(* while a breaker is open.                                                *)
(***************************************************************************)
EXTENDS ProviderBreaker

CONSTANTS ollama, requesty, l1, l2, c1, c2, c3

MCProviders == {ollama, requesty}
MCModels == {l1, l2, c1, c2, c3}
MCProviderOf == [m \in MCModels |-> IF m \in {l1, l2} THEN ollama ELSE requesty]
MCLocal == {ollama}
MCMinModels == [p \in MCProviders |-> IF p = ollama THEN 2 ELSE 3]
MCLadder == <<1, 2, 3>>
MCKinds == {"empty_timeout", "provider_error"}
MCTexts == {{"transport"}, {"gateway", "code4xx"}, {"code5xx"}, {"rate_limit", "code5xx"}, {}}
=============================================================================
