-------------------------- MODULE MCEmailCodeTwins --------------------------
(* One session asks for a client's code, the other for nobody's.            *)
EXTENDS EmailCodeTwins, TLC

CONSTANTS client

MCOwner == ("client@" :> client) @@ ("nobody@" :> NONE)
MCAddressOf == client :> "client@"
MCAddresses == DOMAIN MCOwner
MCReads == [s \in Sessions |-> NONE]
MCAddress == (First :> "client@") @@ (Second :> "nobody@")

ASSUME MCTwins == TwinsOK
=============================================================================
