-------------------------------- MODULE Lists ---------------------------------
(***************************************************************************)
(* Lists of models, best first.                                             *)
(***************************************************************************)
EXTENDS Naturals, Sequences, FiniteSets

\* The entries at some places, each behind the ahead[i] others that go before it.
InOrder(refs, places, ahead) ==
    [k \in 1 .. Cardinality(places) |-> refs[CHOOSE i \in places : ahead[i] = k - 1]]

\* Array.filter: what is in S, in its order.
Only(refs, S) ==
    LET places == {i \in DOMAIN refs : refs[i] \in S}
    IN InOrder(refs, places, [i \in places |-> Cardinality({j \in places : j < i})])

\* Array.sort: a stable sort by a comparison.
Sorted(refs, Less(_, _)) ==
    LET Before(i) == {j \in DOMAIN refs :
                        Less(refs[j], refs[i]) \/ (j < i /\ ~Less(refs[i], refs[j]))}
    IN InOrder(refs, DOMAIN refs, [i \in DOMAIN refs |-> Cardinality(Before(i))])

Place(refs, r) == CHOOSE i \in DOMAIN refs : refs[i] = r
Cut(refs, k) == IF k < Len(refs) THEN SubSeq(refs, 1, k) ELSE refs
=============================================================================
