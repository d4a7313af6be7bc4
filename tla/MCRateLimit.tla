----------------------------- MODULE MCRateLimit ----------------------------
(***************************************************************************)
(* A free and a paid model of one provider.  A hard rung is longer than    *)
(* the soft rung of the same hit, and an announced reset or the midnight   *)
(* cap may be longer than either.                                          *)
(***************************************************************************)
EXTENDS RateLimit

CONSTANTS free, paid

MCRefs == {free, paid}
MCProviderOf == [r \in MCRefs |-> "openrouter"]
MCHard == <<2, 3>>
MCSoft == <<1, 2>>

\* A stretch in which nobody clears a cooldown and nothing reloads.
UndisturbedNext ==
    \/ \E r \in Refs : Failure(r) \/ RecordOk(r) \/ Look(r)
    \/ Tick
UndisturbedSpec == Init /\ [][UndisturbedNext]_vars
=============================================================================
