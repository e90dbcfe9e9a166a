---------------------------- MODULE MCEmailCode -----------------------------
(* A client and a colleague, each with a mailbox; the client is found by    *)
(* email and by username, and one address finds nobody.                     *)
EXTENDS EmailCode, TLC

CONSTANTS client, other

MCOwner == ("client@" :> client) @@ ("other@" :> other) @@ ("nobody@" :> NONE)
MCAddressOf == (client :> "client@") @@ (other :> "other@")
MCAddresses == DOMAIN MCOwner
MCReads == ("s1" :> client)
=============================================================================
