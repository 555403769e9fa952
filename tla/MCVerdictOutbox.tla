--------------------------- MODULE MCVerdictOutbox ---------------------------
(* An instance of VerdictOutbox for TLC: a cloud deployment that holds the *)
(* write key and two drains of it, a local backend that forwards to it.    *)
EXTENDS VerdictOutbox, TLC

CONSTANTS cloud, local, c1, l1, old, told, ruling,
          anna, ben, castle, decision

(* The cloud's old row and the backend's row judge the same position.      *)
MCRows == {old, told, ruling}
MCJudgementOf == old :> castle @@ told :> castle
                 @@ ruling :> decision
MCAuthorOf == old :> anna @@ told :> ben @@ ruling :> anna
MCHomeOf == old :> cloud @@ told :> local @@ ruling :> cloud
MCSiteOf == [d \in Drains |-> IF d = l1 THEN local ELSE cloud]
MCSpoiled == { <<castle, 2>> }
=============================================================================
