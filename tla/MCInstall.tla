----------------------------- MODULE MCInstall ------------------------------
(* Runs from two machines, each with a key of its own, of two releases: a  *)
(* names the older release and b names none.                               *)
EXTENDS Install, TLC

CONSTANTS a, b, ka, kb, v1, v2

MCKeyOf == (a :> ka) @@ (b :> kb)
MCWants == (a :> v1) @@ (b :> NONE)
=============================================================================
