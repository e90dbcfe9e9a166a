--------------------------- MODULE MCDispatchPath ---------------------------
(* Up to three trees over an install's path, each path carrying a name      *)
(* another one lacks.  What Sound leaves out does not answer as the proof   *)
(* asks.                                                                    *)
EXTENDS DispatchPath, TLC

CONSTANTS g1, g2, g3

AllNames == (LEGACY :> {"EMAIL"}) @@ (NONE :> {}) @@ (g1 :> {"EMAIL", "PAYLOAD"})
            @@ (g2 :> {"PAYLOAD", "TOKEN"}) @@ (g3 :> {"EMAIL"})
MCNames == [p \in Paths |-> AllNames[p]]

=============================================================================
