---------------------------- MODULE MCStreamWalk ----------------------------
(***************************************************************************)
(* One walk over two groups that name each other as fallback, as generated *)
(* configurations do: "design" holds a local and a cloud model, "simple" a *)
(* free one and the same cloud model, so an overflow in either restarts.   *)
(* Overflow errors name a window or do not.  Or two walks that share one   *)
(* local and one cloud model, one in each of two groups, all of it fresh   *)
(* at first.                                                               *)
(***************************************************************************)
EXTENDS StreamWalk

CONSTANTS w0, w1, w2, local, cloud, free, near, far

MCProviderOf == [r \in Refs |-> IF r \in {local, near} THEN "ollama" ELSE "openrouter"]
MCGroups == {"design", "simple", "left", "right"}
MCCandidatesOf == [g \in MCGroups |->
    CASE g = "design" -> <<local, cloud>> [] g = "simple" -> <<free, cloud>>
      [] g = "left" -> <<near>> [] OTHER -> <<far>>]
MCFallbackOrder == [g \in MCGroups |->
    CASE g = "design" -> <<"simple">> [] g = "simple" -> <<"design">>
      [] g = "left" -> <<"right">> [] OTHER -> <<"left">>]
MCStartGroup == [w \in Walks |-> IF w = w0 THEN "design" ELSE "left"]
MCOverflowTexts == [w \in Walks |-> IF w = w0 THEN BOOLEAN ELSE {}]
MCCasts == {[walks |-> {w0}, refs |-> {local, cloud, free}],
            [walks |-> {w1, w2}, refs |-> {}]}
=============================================================================
