--------------------------- MODULE ConsoleInstall ---------------------------
(***************************************************************************)
(* Attempts to install the server of one inventory, from the console       *)
(* (__main__.py: seed, then install.run until it returns) and from the     *)
(* page (steps.py: the probes, then install.run), as far as they reach     *)
(* over SSH (remote.py, install.py): whose host key is trusted, which      *)
(* login opens, what goes to whom.  A machine is named by its host key;    *)
(* which one answers at the address changes at any time, because the       *)
(* server is reinstalled or another machine takes its address.             *)
(***************************************************************************)
EXTENDS Inventory, Naturals, FiniteSets

CONSTANTS
    Machines,
    Inputs,      \* install.yaml files: [env, pin, password]; NONE for no -i
    Edits,       \* the lines a client writes into a .env by hand
    ADDR,        \* the key of the server's address
    MaxMoves,    \* bound: how often another machine answers
    NONE

ASSUME ConsoleAssumption ==
    /\ ADDR \in Keys /\ MaxMoves \in Nat
    /\ \A i \in Inputs \ {NONE} :
          /\ i.pin \in {"none", "short", "long"} /\ i.password \in BOOLEAN
          /\ \A k \in DOMAIN i.env : i.env[k] \in Values
    /\ \A e \in Edits : \A k \in DOMAIN e : e[k] \in Values

VARIABLES
    env, hosts,  \* the inventory's .env (NONE for no directory) and its hosts.yml
    known,       \* the keys known_hosts trusts for the address
    at, moves,   \* the machine that answers there
    opens,       \* the logins of each machine that take this machine's key
    pw,          \* its initial login's password: "client" (the one the client
                 \* has), "expired" (that one, to be changed), "random", "off"
    got,         \* what each machine was sent
    cut,         \* machines an attempt was cut short on, between the change of
                 \* their expired password and the key going in (auxiliary)
    run          \* the attempt

files == <<env, hosts>>
server == <<at, moves, opens, pw, cut>>
vars == <<files, known, server, got, run>>

NoAttempt == [pc |-> "idle", from |-> "none", reinstalled |-> FALSE, password |-> FALSE,
              tty |-> FALSE, pin |-> FALSE, session |-> NONE, legs |-> {}]

Init ==
    /\ env = NONE /\ hosts = FALSE
    /\ known = {} /\ at \in Machines /\ moves = 0
    /\ opens \in [Machines -> {{}, {"initial"}}]
    /\ pw \in [Machines -> {"client", "expired"}]
    /\ got = [m \in Machines |-> {}] /\ cut = {}
    /\ run = NoAttempt

Goto(pc) == run' = [run EXCEPT !.pc = pc]
Send(m, what) == got' = [got EXCEPT ![m] = @ \cup what]

-----------------------------------------------------------------------------
(* The inventory's files.                                                  *)

(* cmd_init, for a name no inventory has.                                  *)
InitInventory ==
    /\ run.pc = "idle" /\ env = NONE
    /\ env' = WriteEnv(<< >>, << >>)
    /\ UNCHANGED <<hosts, known, server, got, run>>

EditByHand ==
    /\ run.pc = "idle" /\ env # NONE
    /\ \E e \in Edits : env' = Atop(e, env)
    /\ UNCHANGED <<hosts, known, server, got, run>>

(* The page's save of a form (see InstallerPage), missing_required, and    *)
(* then the probes.                                                        *)
PageAttempt(answers, reinstalled, password) ==
    /\ run.pc = "idle"
    /\ env' = WriteEnv(IF env = NONE THEN << >> ELSE env, answers)
    /\ run' = [NoAttempt EXCEPT !.pc = IF \E k \in Exampled : env'[k] = BLANK THEN "idle"
                                       ELSE "probe",
                                !.from = "page", !.reinstalled = reinstalled,
                                !.password = password]
    /\ UNCHANGED <<hosts, known, server, got>>

(* _seed and seed.main, from the input file or the existing .env, with or  *)
(* without a terminal: everything that can refuse, then the files.  A      *)
(* question declined is one of the refusals.                               *)
Seed(input, tty, reinstalled) ==
    LET provided == IF input = NONE THEN env ELSE input.env
    IN  /\ run.pc = "idle"
        /\ input = NONE => env # NONE
        /\ input # NONE => NotInstallInputs(input.env) = {} /\ input.pin # "short"
        /\ \E values \in Collected(provided, tty /\ ~hosts) :
             /\ \A k \in Keys : values[k] # DIE
             /\ Problems(values) = {}
             /\ env' = Emit(IF env = NONE THEN << >> ELSE env, values, TRUE)
        /\ hosts' = TRUE
        /\ run' = [NoAttempt EXCEPT
                      !.pc = IF env'[ADDR] = BLANK THEN "idle" ELSE "ops",
                      !.from = "console", !.tty = tty, !.reinstalled = reinstalled,
                      !.password = input # NONE /\ input.password,
                      !.pin = input # NONE /\ input.pin = "long"]
        /\ UNCHANGED <<known, server, got>>

-----------------------------------------------------------------------------
(* A connection: _transport.                                               *)

(* MUTANT: a person who is not asked is taken to have confirmed.           *)
AcceptsAny(reinstalled) == TRUE

(* The machine's key is trusted, or is the first one, or is taken for a    *)
(* reinstalled server's.                                                   *)
Accepts(reinstalled) == known = {} \/ at \in known \/ reinstalled

(* The key is recorded when it was not trusted, in place of what was.      *)
Trust == known' = IF at \in known THEN known ELSE {at}

Over == run' = NoAttempt

(* The attempt leaves off here: after the change of a password nobody else *)
(* knows, the machine it was on has no key yet.                            *)
CutHere == cut' = IF run.pc = "password again" THEN cut \cup {run.session} ELSE cut

(* HostKeyChanged reaches whoever asked: the page's form stops with it     *)
(* (its box is ticked in a later attempt), the console asks at a terminal. *)
KeyChanged ==
    /\ \/ Over
       \/ run.from = "console" /\ run.tty
          /\ run' = [run EXCEPT !.pc = "ops", !.reinstalled = TRUE, !.session = NONE, !.legs = {}]
    /\ CutHere
    /\ UNCHANGED <<files, known, at, moves, opens, pw, got>>

(* Nothing answers, the connection drops, an exception nothing caught, or  *)
(* the console is interrupted.                                             *)
Interrupted ==
    /\ run.pc # "idle"
    /\ Over /\ CutHere
    /\ UNCHANGED <<files, known, at, moves, opens, pw, got>>

(* check_target: the offered key, the logins with the key, the password.   *)
(* Nothing is recorded.                                                    *)
ProbeKey ==
    /\ run.pc = "probe"
    /\ IF ~Accepts(run.reinstalled) THEN Over
       ELSE IF opens[at] # {} THEN Goto("ops")
       ELSE IF run.password THEN Goto("probe password") ELSE Over
    /\ UNCHANGED <<files, known, server, got>>

ProbePassword ==
    /\ run.pc = "probe password"
    /\ IF Accepts(run.reinstalled)
       THEN /\ Send(at, {"password"})
            /\ IF pw[at] \in {"client", "expired"} THEN Goto("ops") ELSE Over
       ELSE Over /\ UNCHANGED got
    /\ UNCHANGED <<files, known, server>>

(* login: the key, as ops and then as the initial login.                   *)
LoginWithKey(user, otherwise) ==
    /\ run.pc = user
    /\ \/ ~Accepts(run.reinstalled) /\ KeyChanged
       \/ /\ Accepts(run.reinstalled) /\ Trust
          /\ run' = IF user \in opens[at]
                    THEN [run EXCEPT !.pc = "accounts", !.session = at]
                    ELSE [run EXCEPT !.pc = otherwise]
          /\ UNCHANGED <<files, server, got>>

(* MUTANT: the password typed is not kept for the next round.              *)
PasswordForgotten ==
    /\ run.pc = "password" /\ ~run.password
    /\ \/ Over
       \/ run.from = "console" /\ run.tty /\ Goto("ops")
    /\ UNCHANGED <<files, known, server, got>>

(* No key opens the server and no password was given: the console asks for *)
(* it, once, and starts over.                                              *)
PasswordNeeded ==
    /\ run.pc = "password" /\ ~run.password
    /\ \/ Over
       \/ run.from = "console" /\ run.tty /\ run' = [run EXCEPT !.pc = "ops", !.password = TRUE]
    /\ UNCHANGED <<files, known, server, got>>

AppendKey == opens' = [opens EXCEPT ![at] = @ \cup {"initial"}]

(* _append_key, whole, or cut short after or before the key is in the      *)
(* file: a session that stops answering, and at the second login one that  *)
(* is refused or asks for another password still.                          *)
Append ==
    \/ AppendKey /\ (Goto("added") \/ Over) /\ UNCHANGED cut
    \/ /\ Over /\ UNCHANGED opens
       /\ cut' = IF pw'[at] = "random" THEN cut \cup {at} ELSE cut

(* MUTANT: the end of the session is taken for the end of the work.        *)
ChangePasswordOnce ==
    /\ pw[at] = "expired" /\ pw' = [pw EXCEPT ![at] = "random"]
    /\ \/ Goto("added") /\ UNCHANGED <<opens, cut>>
       \/ Append

(* An expired password is changed for a random one the process keeps to    *)
(* itself; sshd ends the session, or the key goes in through it.           *)
ChangePassword ==
    /\ pw[at] = "expired" /\ pw' = [pw EXCEPT ![at] = "random"]
    /\ \/ run' = [run EXCEPT !.pc = "password again", !.session = at] /\ UNCHANGED <<opens, cut>>
       \/ Append

(* install_key_with_password.                                              *)
AddKey ==
    /\ run.pc = "password" /\ run.password
    /\ \/ ~Accepts(run.reinstalled) /\ KeyChanged
       \/ /\ Accepts(run.reinstalled) /\ Trust
          /\ Send(at, {"password"})
          /\ \/ pw[at] = "client" /\ UNCHANGED pw /\ Append
             \/ ChangePassword
             \/ pw[at] \in {"random", "off"} /\ Over /\ UNCHANGED <<opens, pw, cut>>
          /\ UNCHANGED <<files, at, moves>>

(* Its second round, with the random password: another machine refuses it. *)
AddKeyAgain ==
    /\ run.pc = "password again"
    /\ \/ ~Accepts(run.reinstalled) /\ KeyChanged
       \/ /\ Accepts(run.reinstalled) /\ Trust /\ UNCHANGED pw
          /\ IF at = run.session THEN Append ELSE Over /\ CutHere /\ UNCHANGED opens
          /\ UNCHANGED <<files, at, moves, got>>

(* MUTANT: the confirmation is taken along into the later logins.          *)
ConnectRetryingAny(user, leg) ==
    /\ \/ ~Accepts(run.reinstalled) /\ KeyChanged
       \/ /\ Accepts(run.reinstalled) /\ Trust
          /\ run' = IF user \in opens[at] THEN [run EXCEPT !.pc = leg, !.session = at]
                                          ELSE NoAttempt
          /\ UNCHANGED <<files, server, got>>

(* _connect_retrying: the key, on the machine trusted by now.              *)
ConnectRetrying(user, leg) ==
    /\ \/ ~Accepts(FALSE) /\ KeyChanged
       \/ /\ Accepts(FALSE) /\ Trust
          /\ run' = IF user \in opens[at] THEN [run EXCEPT !.pc = leg, !.session = at]
                                          ELSE NoAttempt
          /\ UNCHANGED <<files, server, got>>

LoginAdded == run.pc = "added" /\ ConnectRetrying("initial", "accounts")
LoginAgain == run.pc = "reconnect" /\ ConnectRetrying("ops", "system")

(* The accounts leg, through the session: it ends well, with ops and its   *)
(* key there, or it ends the attempt, with them or without.                *)
Accounts ==
    /\ run.pc = "accounts"
    /\ Send(run.session, {"env", "key"})
    /\ \/ /\ opens' = [opens EXCEPT ![run.session] = @ \cup {"ops"}]
          /\ run' = [run EXCEPT !.pc = "reconnect", !.legs = @ \cup {run.session}] \/ Over
       \/ Over /\ UNCHANGED opens
    /\ UNCHANGED <<files, known, at, moves, cut, pw>>

(* The system leg, with the pinned password: the hardening closes every    *)
(* login but ops, in whatever the leg ends.                                *)
System ==
    /\ run.pc = "system"
    /\ Send(run.session, IF run.pin THEN {"env", "key", "pin"} ELSE {"env", "key"})
    /\ run' = [run EXCEPT !.pc = "ended", !.legs = @ \cup {run.session}]
    /\ \/ /\ opens' = [opens EXCEPT ![run.session] = @ \cap {"ops"}]
          /\ pw' = [pw EXCEPT ![run.session] = "off"]
       \/ UNCHANGED <<opens, pw>>
    /\ UNCHANGED <<files, known, at, moves, cut>>

Return == run.pc = "ended" /\ Over /\ UNCHANGED <<files, known, server, got>>

(* Another machine answers at the address.                                 *)
Move ==
    /\ moves < MaxMoves /\ moves' = moves + 1
    /\ at' \in Machines \ {at}
    /\ UNCHANGED <<files, known, opens, pw, cut, got, run>>

Attempt ==
    \/ ProbeKey \/ ProbePassword
    \/ LoginWithKey("ops", "initial") \/ LoginWithKey("initial", "password")
    \/ PasswordNeeded \/ AddKey \/ AddKeyAgain \/ LoginAdded
    \/ Accounts \/ LoginAgain \/ System \/ Return

Next ==
    \/ InitInventory \/ EditByHand \/ Move \/ Attempt \/ Interrupted
    \/ \E e \in Edits, r, p \in BOOLEAN : PageAttempt(e, r, p)
    \/ \E i \in Inputs, tty, r \in BOOLEAN : Seed(i, tty, r)

(* Every connection and every question ends: TIMEOUT, the keepalive, and a *)
(* person who answers.                                                     *)
Spec == Init /\ [][Next]_vars /\ WF_vars(Attempt)

-----------------------------------------------------------------------------
(* Types.                                                                  *)
TypeOK ==
    /\ env = NONE \/ (Keys \subseteq DOMAIN env /\ \A k \in DOMAIN env : env[k] \in Values)
    /\ hosts \in BOOLEAN /\ (hosts => env # NONE)
    /\ known \subseteq Machines /\ Cardinality(known) <= 1
    /\ at \in Machines /\ moves \in 0..MaxMoves
    /\ opens \in [Machines -> SUBSET {"ops", "initial"}]
    /\ pw \in [Machines -> {"client", "expired", "random", "off"}]
    /\ got \in [Machines -> SUBSET {"password", "env", "key", "pin"}]
    /\ cut \subseteq Machines /\ run.session \in Machines \cup {NONE} /\ run.legs \subseteq Machines

(* "A server presenting another host key than the one this machine trusts  *)
(* gets nothing until the client confirms it was reinstalled" (README): no *)
(* password, no .env, no key, and no place in known_hosts.                 *)
StrangerGetsNothing == [][\A m \in Machines :
    got'[m] # got[m] \/ m \in known' \ known =>
        known = {} \/ m \in known \/ run.reinstalled]_vars

(* The login as ops "is the proof the hardening waits for" (install.py):   *)
(* the system leg, its secrets and its hardening go to the machine the     *)
(* accounts leg put ops on, whoever answers at the address by then.        *)
OneMachine == Cardinality(run.legs) <= 1

(* "Used once, to put the installer's key on the provider's login"         *)
(* (remote.py): an attempt that ended, well, in a failure or interrupted   *)
(* anywhere, leaves the client a way in on every machine: the password it  *)
(* has, or the key.  The code leaves one window, and only for a password   *)
(* the server demanded to be changed: a machine an attempt was cut short   *)
(* on between that change and the key is the exception.                    *)
ClientKeepsLogin == run.pc = "idle" =>
    \A m \in Machines \ cut : pw[m] \in {"client", "expired"} \/ opens[m] # {}

(* An attempt comes to its end however often another machine answered.     *)
AttemptEnds == run.pc # "idle" ~> run.pc = "idle"
=============================================================================
