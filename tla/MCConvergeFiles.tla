-------------------------- MODULE MCConvergeFiles ---------------------------
(* One release ships a unit, the other withdrew it.                        *)
EXTENDS ConvergeFiles

MCDeclares == [r \in Releases |-> IF r = "r1" THEN Paths ELSE {}]
MCBytes == [r \in Releases |-> [p \in Paths |-> "c1"]]
=============================================================================
