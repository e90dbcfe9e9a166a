--------------------------- MODULE MCSigninFlows ----------------------------
(* Two releases; the second changes the steps of both flows.                *)
EXTENDS SigninFlows, TLC

MCSteps == (1 :> [b \in Bases |-> 1]) @@ (2 :> [b \in Bases |-> 2])
=============================================================================
