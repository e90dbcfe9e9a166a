--------------------------- MODULE EmailCodeTwins ---------------------------
(***************************************************************************)
(* Two sessions of people who read nobody's mail make the same requests,   *)
(* one after the other, of two addresses: one that finds an account and    *)
(* one that may find none.  Accounts change and mail goes out between      *)
(* them; the clock does not move within a pair.                            *)
(***************************************************************************)
EXTENDS EmailCode

CONSTANTS First, Second,    \* the two sessions
          Address           \* the address each of them types

Requests == {"authenticate", "address", "blank", "resend", "code"}

TwinsOK ==
    /\ First # Second /\ Sessions = {First, Second}
    /\ Address \in [Sessions -> Addresses]
    /\ \A s \in Sessions : Reads[s] = NONE
    /\ NONE \notin Requests

VARIABLE pending    \* the request the second session has still to make

twinVars == <<vars, pending>>

Ask(s, request) ==
    \/ request = "authenticate" /\ Authenticate(s)
    \/ request = "address" /\ AddressPost(s, Address[s])
    \/ request = "blank" /\ AddressPost(s, NONE)
    \/ request = "resend" /\ ResendPost(s)
    \/ request = "code" /\ CodePost(s, GUESS)

TwinInit == Init /\ pending = NONE

FirstAsks ==
    /\ pending = NONE
    /\ \E r \in Requests : Ask(First, r) /\ pending' = r

SecondAsks ==
    /\ pending # NONE
    /\ Ask(Second, pending)
    /\ pending' = NONE

Between == (Deliver \/ Restart \/ Standing) /\ UNCHANGED pending

TimePasses == pending = NONE /\ Tick /\ UNCHANGED pending

TwinNext == FirstAsks \/ SecondAsks \/ Between \/ TimePasses

TwinSpec == TwinInit /\ [][TwinNext]_twinVars

(* "The page, the status and the time are the same for every address" (the *)
(* authenticator's comment, for the page and the status): no sequence of   *)
(* requests tells an address that finds an account from one that does not, *)
(* or an account that was mailed its code from one that was refused it.    *)
SameAnswers == pending = NONE => answer[First] = answer[Second]
=============================================================================
