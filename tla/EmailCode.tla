----------------------------- MODULE EmailCode ------------------------------
(***************************************************************************)
(* The clients' emailed sign-in code (keycloak/provider,                   *)
(* CatenaClientEmailCodeAuthenticator and its factory): browser sessions   *)
(* whose notes hold the address and the code, the one-thread bounded queue *)
(* that mails the codes, and accounts whose standing changes in between.   *)
(*                                                                         *)
(* A code is the session that drew it and the number of the send, so two   *)
(* codes are never equal.  A person posts GUESS, or a code out of the      *)
(* mailbox they read.  A GUESS never matches: a lucky one is left to       *)
(* GuessesBounded.  Requests of one session do not overlap.                *)
(***************************************************************************)
EXTENDS Naturals, Sequences

CONSTANTS
    Sessions, Users, Addresses,
    Owner,         \* the account findUserByNameOrEmail finds, or NONE
    AddressOf,     \* the address a known user's code goes to
    Reads,         \* the account whose mail the person at a session reads, or NONE
    MaxSends, MaxWrong, QueueSize, Resend, Lifetime,
    Horizon,       \* bound on the clock
    NONE, GUESS

ASSUME EmailCodeAssumption ==
    /\ Owner \in [Addresses -> Users \cup {NONE}]
    /\ AddressOf \in [Users -> Addresses]
    /\ \A u \in Users : Owner[AddressOf[u]] = u
    /\ Reads \in [Sessions -> Users \cup {NONE}]
    /\ NONE \notin Users \cup Addresses /\ NONE \notin Nat
    /\ GUESS \notin Sessions \X (1..MaxSends)
    /\ MaxSends \in Nat \ {0} /\ MaxWrong \in Nat \ {0} /\ QueueSize \in Nat
    /\ Resend \in Nat /\ Lifetime \in Nat /\ Horizon \in Nat \ {0}

VARIABLES
    notes,    \* each session's notes, and the user its flow knows
    answer,   \* the page each session was last answered with
    signed,   \* the account each session signed in as, or NONE
    queue,    \* the mailing jobs, the running one first
    mail,     \* the codes in each account's mailbox
    barred,   \* the accounts that are not eligible now
    now,
    guesses   \* auxiliary: guesses compared with a live code, per session

vars == <<notes, answer, signed, queue, mail, barred, now, guesses>>

(* issued is 0 and the rest NONE or 0 while a note is not set.             *)
NoNotes == [address |-> NONE, code |-> NONE, issued |-> 0, sends |-> 0,
            wrong |-> 0, attempted |-> NONE, known |-> NONE]

Init ==
    /\ notes = [s \in Sessions |-> NoNotes]
    /\ answer = [s \in Sessions |-> "none"]
    /\ signed = [s \in Sessions |-> NONE]
    /\ queue = << >>
    /\ mail = [u \in Users |-> {}]
    /\ barred \in SUBSET Users
    /\ now = 1
    /\ guesses = [s \in Sessions |-> 0]

-----------------------------------------------------------------------------
(* What a request does to one session's notes n.                           *)

CodeIsLive(n) == n.code # NONE /\ n.issued # 0 /\ now - n.issued <= Lifetime

Gate(n) ==
    CASE n.sends >= MaxSends -> "limit"
      [] n.sends < MaxSends /\ n.issued # 0 /\ n.issued + Resend > now -> "too_soon"
      [] OTHER -> "open"

Sent(n, a) ==
    [n EXCEPT !.address = a, !.code = n.sends + 1, !.issued = now,
              !.sends = n.sends + 1, !.wrong = 0, !.attempted = a]

(* MUTANT: the last wrong post leaves the code.                            *)
WrongKeepsCode(n) ==
    [n EXCEPT !.attempted = IF n.address = NONE THEN n.attempted ELSE n.address,
              !.wrong = IF n.wrong < MaxWrong THEN n.wrong + 1 ELSE n.wrong]

(* wrong stops at MaxWrong, past which no reader tells it apart.           *)
Wrong(n) ==
    LET wrongs == IF n.wrong < MaxWrong THEN n.wrong + 1 ELSE n.wrong
    IN  [n EXCEPT !.attempted = IF n.address = NONE THEN n.attempted ELSE n.address,
                  !.wrong = wrongs,
                  !.code = IF wrongs >= MaxWrong THEN NONE ELSE n.code]

Found(a) == IF a = NONE THEN NONE ELSE Owner[a]
Eligible(u) == u # NONE /\ u \notin barred

(* The session and the code a post names, against the notes.               *)
Matches(s, n, given) ==
    n.code # NONE /\ n.address # NONE /\ CodeIsLive(n) /\ given = <<s, n.code>>

(* MUTANT: the account is not compared with the one the flow knows.        *)
SignsInAnyone(s, n, given) == Matches(s, n, given) /\ Eligible(Found(n.address))

SignsIn(s, n, given) ==
    /\ Matches(s, n, given)
    /\ Eligible(Found(n.address))
    /\ n.known = NONE \/ n.known = Found(n.address)

(* The factory's executor: one job runs, QueueSize wait, one more is lost. *)
Submit(q, job) == IF Len(q) > QueueSize THEN q ELSE Append(q, job)

Answer(s, page) == answer' = [answer EXCEPT ![s] = page]

(* MUTANT: an address without an eligible account is not recorded.         *)
SendEligible(s, a, page) ==
    /\ notes' = IF Eligible(Found(a)) THEN [notes EXCEPT ![s] = Sent(@, a)] ELSE notes
    /\ queue' = Submit(queue, [address |-> a, code |-> <<s, notes[s].sends + 1>>])
    /\ Answer(s, page)

(* send, and the page after it.                                            *)
Send(s, a, page) ==
    /\ notes' = [notes EXCEPT ![s] = Sent(@, a)]
    /\ queue' = Submit(queue, [address |-> a, code |-> <<s, notes[s].sends + 1>>])
    /\ Answer(s, page)

(* gate, then send; a refusal is the code page with its message.           *)
GatedSend(s, a) ==
    \/ Gate(notes[s]) = "open" /\ Send(s, a, "code")
    \/ Gate(notes[s]) # "open" /\ Answer(s, Gate(notes[s])) /\ UNCHANGED <<notes, queue>>

-----------------------------------------------------------------------------
(* The requests of a session that has not signed in.                       *)

(* A known user is sent the code at once; anyone else is asked for the     *)
(* address, or for the code if one is live.                                *)
Authenticate(s) ==
    /\ signed[s] = NONE
    /\ LET n == notes[s]
       IN  \/ n.known # NONE /\ ~CodeIsLive(n) /\ GatedSend(s, AddressOf[n.known])
           \/ /\ n.known = NONE \/ CodeIsLive(n)
              /\ Answer(s, IF CodeIsLive(n) THEN "code" ELSE "address")
              /\ UNCHANGED <<notes, queue>>
    /\ UNCHANGED <<signed, mail, barred, now, guesses>>

(* typed is NONE for a blank or an overlong address.                       *)
AddressPost(s, typed) ==
    /\ signed[s] = NONE
    /\ LET a == IF notes[s].known # NONE THEN AddressOf[notes[s].known] ELSE typed
       IN  \/ a = NONE /\ Answer(s, "address_invalid") /\ UNCHANGED <<notes, queue>>
           \/ a # NONE /\ GatedSend(s, a)
    /\ UNCHANGED <<signed, mail, barred, now, guesses>>

ResendPost(s) ==
    /\ signed[s] = NONE
    /\ \/ notes[s].address = NONE /\ Answer(s, "address") /\ UNCHANGED <<notes, queue>>
       \/ notes[s].address # NONE /\ GatedSend(s, notes[s].address)
    /\ UNCHANGED <<signed, mail, barred, now, guesses>>

(* A code that signs in, or wrong's one answer to every other.             *)
CodePost(s, given) ==
    /\ signed[s] = NONE
    /\ LET n == notes[s]
       IN  \/ /\ SignsIn(s, n, given)
              /\ notes' = [notes EXCEPT ![s] = [NoNotes EXCEPT
                              !.attempted = n.attempted, !.known = Found(n.address)]]
              /\ signed' = [signed EXCEPT ![s] = Found(n.address)]
              /\ Answer(s, "success")
              /\ UNCHANGED guesses
           \/ /\ ~SignsIn(s, n, given)
              /\ notes' = [notes EXCEPT ![s] = Wrong(n)]
              /\ guesses' = [guesses EXCEPT ![s] =
                                IF CodeIsLive(n) /\ given = GUESS THEN @ + 1 ELSE @]
              /\ Answer(s, "code_invalid")
              /\ UNCHANGED signed
    /\ UNCHANGED <<queue, mail, barred, now>>

-----------------------------------------------------------------------------
(* The background job, and what Keycloak and its administrators do.        *)

(* deliver mails to the account the address finds, if it is eligible by    *)
(* now; a mail that fails is logged and lost.                              *)
Deliver ==
    /\ queue # << >>
    /\ LET job == Head(queue)
           u == Found(job.address)
       IN  \/ Eligible(u) /\ mail' = [mail EXCEPT ![u] = @ \cup {job.code}]
           \/ UNCHANGED mail
    /\ queue' = Tail(queue)
    /\ UNCHANGED <<notes, answer, signed, barred, now, guesses>>

(* The server restarts; the queue is in its memory.                        *)
Restart ==
    /\ queue # << >>
    /\ queue' = << >>
    /\ UNCHANGED <<notes, answer, signed, mail, barred, now, guesses>>

(* The password form writes the name typed there to the same note.         *)
PasswordForm(s, a) ==
    /\ signed[s] = NONE
    /\ notes' = [notes EXCEPT ![s].attempted = a]
    /\ UNCHANGED <<answer, signed, queue, mail, barred, now, guesses>>

(* Another step of the flow identifies the user.                           *)
Identify(s, u) ==
    /\ signed[s] = NONE /\ notes[s].known = NONE
    /\ notes' = [notes EXCEPT ![s].known = u]
    /\ UNCHANGED <<answer, signed, queue, mail, barred, now, guesses>>

(* Promotion to a tier, a disabled account, a lockout, mail settings; or   *)
(* the reverse.                                                            *)
Standing ==
    /\ barred' \in SUBSET Users
    /\ UNCHANGED <<notes, answer, signed, queue, mail, now, guesses>>

Tick ==
    /\ now < Horizon
    /\ now' = now + 1
    /\ UNCHANGED <<notes, answer, signed, queue, mail, barred, guesses>>

Given(s) == {GUESS} \cup (IF Reads[s] = NONE THEN {} ELSE mail[Reads[s]])

Next ==
    \/ \E s \in Sessions :
        \/ Authenticate(s) \/ ResendPost(s)
        \/ \E a \in Addresses \cup {NONE} : AddressPost(s, a)
        \/ \E g \in Given(s) : CodePost(s, g)
        \/ \E a \in Addresses : PasswordForm(s, a)
        \/ \E u \in Users : Identify(s, u)
    \/ Deliver \/ Restart \/ Standing \/ Tick

Spec == Init /\ [][Next]_vars

-----------------------------------------------------------------------------

Codes == Sessions \X (1..MaxSends)
Pages == {"none", "address", "code", "address_invalid", "code_invalid",
          "too_soon", "limit", "success"}

(* Types, and the queue's bound: 100 wait behind the one that runs.        *)
TypeOK ==
    /\ notes \in [Sessions ->
            [address : Addresses \cup {NONE}, code : 1..MaxSends \cup {NONE},
             issued : 0..Horizon, sends : 0..MaxSends, wrong : 0..MaxWrong,
             attempted : Addresses \cup {NONE}, known : Users \cup {NONE}]]
    /\ answer \in [Sessions -> Pages]
    /\ signed \in [Sessions -> Users \cup {NONE}]
    /\ queue \in Seq([address : Addresses, code : Codes]) /\ Len(queue) <= QueueSize + 1
    /\ mail \in [Users -> SUBSET Codes]
    /\ barred \subseteq Users
    /\ now \in 1..Horizon
    /\ guesses \in [Sessions -> Nat]

(* A person signs in only as the account whose mail they read, whichever   *)
(* account the flow came to know and however late the mail, and only while *)
(* that account is eligible and the code is the last one sent and within   *)
(* its lifetime (codePost).                                                *)
SignInProves ==
    [][\A s \in Sessions : signed'[s] # signed[s] =>
          /\ signed'[s] = Reads[s]
          /\ signed'[s] \notin barred
          /\ notes[s].known \in {NONE, signed'[s]}
          /\ now - notes[s].issued <= Lifetime
          /\ <<s, notes[s].sends>> \in mail[signed'[s]]]_vars

(* Over a session, its resends included, MAX_SENDS codes stand MAX_WRONG   *)
(* guesses each and no more are ever compared with a code (wrong, gate).   *)
GuessesBounded == \A s \in Sessions : guesses[s] <= MaxSends * MaxWrong
=============================================================================
