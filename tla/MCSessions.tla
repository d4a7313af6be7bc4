---------------------------- MODULE MCSessions ----------------------------
(* An instance of Sessions.  The parent has a prompt and a follow-up turn, the *)
(* child one turn; no two of them, nor the reader, share a model.            *)
EXTENDS Sessions

CONSTANTS parent, child, planning, simple, dear, cheap, kid, reader

MCGroup == {planning, simple}
MCRef == {dear, cheap, kid, reader}
MCDriver == [s \in Session |-> [g \in MCGroup |->
  IF s = child THEN kid ELSE IF g = planning THEN dear ELSE cheap]]
MCTurns == [s \in Session |-> IF s = child THEN 1 ELSE 2]
=============================================================================
