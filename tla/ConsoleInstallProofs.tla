------------------------ MODULE ConsoleInstallProofs ------------------------
(***************************************************************************)
(* The safety properties of ConsoleInstall, for every set of machines and  *)
(* however often another one answers.                                      *)
(***************************************************************************)
EXTENDS ConsoleInstall, TLAPS, FiniteSetTheorems

PCs == {"idle", "probe", "probe password", "ops", "initial", "password", "password again",
        "added", "accounts", "reconnect", "system", "ended"}

Attempts == [pc : PCs, from : {"none", "page", "console"}, reinstalled : BOOLEAN,
             password : BOOLEAN, tty : BOOLEAN, pin : BOOLEAN,
             session : Machines \cup {NONE}, legs : SUBSET Machines]

Things == {"password", "env", "key", "pin"}

Types ==
    /\ known \subseteq Machines /\ at \in Machines
    /\ opens \in [Machines -> SUBSET {"ops", "initial"}]
    /\ pw \in [Machines -> {"client", "expired", "random", "off"}]
    /\ got \in [Machines -> SUBSET Things] /\ cut \subseteq Machines
    /\ run \in Attempts

(* known_hosts trusts one key for the address at most.                     *)
OneKey == \A m, n \in known : m = n

(* An open session is with the machine known_hosts trusts, and the legs    *)
(* that ran went there; the system leg's was opened as ops.                *)
Sessions ==
    /\ run.pc \in {"accounts", "system", "password again"} =>
          run.session \in Machines /\ known = {run.session}
    /\ run.pc \in {"reconnect", "system", "ended"} => known # {} /\ run.legs = known
    /\ run.pc \notin {"reconnect", "system", "ended"} => run.legs = {}
    /\ run.pc = "system" => "ops" \in opens[run.session]
    /\ run.pc = "password again" => pw[run.session] = "random"

(* ClientKeepsLogin, with the one moment in which only the attempt itself  *)
(* can open the machine.                                                   *)
WayIn == \A m \in Machines \ cut :
    \/ pw[m] \in {"client", "expired"}
    \/ opens[m] # {}
    \/ run.pc = "password again" /\ m = run.session

IInv == Types /\ OneKey /\ Sessions /\ WayIn

-----------------------------------------------------------------------------
(* An attempt that is over holds nothing.                                  *)
LEMMA NoAttemptFacts ==
  NoAttempt \in Attempts /\ NoAttempt.pc = "idle" /\ NoAttempt.legs = {}
  BY DEF NoAttempt, Attempts, PCs

(* Whatever ends an attempt and leaves the machines as they were keeps     *)
(* IInv: where the password was changed and the key was not added, the     *)
(* machine is one the attempt was cut short on.                            *)
LEMMA OverStep ==
  ASSUME IInv, Over, UNCHANGED <<at, opens, pw>>, CutHere,
         known' \subseteq Machines, OneKey', got' \in [Machines -> SUBSET Things]
  PROVE  IInv'
<1>1. run' = NoAttempt
  BY DEF Over
<1>2. cut' \subseteq Machines
  BY DEF CutHere, IInv, Types, Sessions
<1>3. Types' /\ Sessions'
  BY <1>1, <1>2, NoAttemptFacts DEF IInv, Types, Sessions
<1>4. WayIn'
  BY DEF CutHere, IInv, WayIn
<1> QED
  BY <1>3, <1>4 DEF IInv

(* The connection's two outcomes.  A key that is not accepted.             *)
LEMMA KeyChangedStep ==
  ASSUME IInv, KeyChanged
  PROVE  IInv'
<1>1. CutHere /\ UNCHANGED <<known, at, opens, pw, got>>
  BY DEF KeyChanged
<1>2. CASE Over
  BY <1>1, <1>2, OverStep DEF IInv, Types, OneKey
<1>3. CASE run' = [run EXCEPT !.pc = "ops", !.reinstalled = TRUE, !.session = NONE, !.legs = {}]
  <2>1. run' \in Attempts /\ run'.pc = "ops" /\ run'.legs = {}
    BY <1>3 DEF IInv, Types, Attempts, PCs
  <2>2. cut' \subseteq Machines
    BY <1>1 DEF CutHere, IInv, Types, Sessions
  <2>3. Types' /\ OneKey' /\ Sessions'
    BY <1>1, <2>1, <2>2 DEF IInv, Types, OneKey, Sessions
  <2>4. WayIn'
    BY <1>1 DEF CutHere, IInv, WayIn
  <2> QED
    BY <2>3, <2>4 DEF IInv
<1> QED
  BY <1>2, <1>3 DEF KeyChanged

(* One that is: it is recorded, alone.                                     *)
LEMMA TrustFacts ==
  ASSUME IInv, Trust
  PROVE  known' = {at} /\ known' \subseteq Machines /\ OneKey'
  BY DEF IInv, Types, OneKey, Trust

(* A key added, or an attempt to add it cut short, on the machine that     *)
(* answers, whose password is the client's still or is the random one.     *)
LEMMA AppendStep ==
  ASSUME IInv, Append, UNCHANGED at, known' = {at}, OneKey', run.legs = {},
         got' \in [Machines -> SUBSET Things],
         pw' \in [Machines -> {"client", "expired", "random", "off"}],
         \A m \in Machines : m # at => pw'[m] = pw[m],
         pw'[at] \in {"client", "random"},
         run.pc = "password again" => run.session = at
  PROVE  IInv'
<1>1. run \in Attempts /\ at \in Machines
      /\ opens \in [Machines -> SUBSET {"ops", "initial"}] /\ cut \subseteq Machines
  BY DEF IInv, Types
<1>2. run' \in Attempts /\ run'.pc \in {"idle", "added"} /\ run'.legs = {}
  BY <1>1, NoAttemptFacts DEF Append, Goto, Over, Attempts, PCs
<1>3. CASE AppendKey /\ UNCHANGED cut
  <2>1. /\ opens' \in [Machines -> SUBSET {"ops", "initial"}] /\ opens'[at] # {}
        /\ \A m \in Machines : m # at => opens'[m] = opens[m]
    BY <1>1, <1>3 DEF AppendKey
  <2>2. Types' /\ Sessions'
    BY <1>1, <1>2, <1>3, <2>1 DEF IInv, Types, Sessions
  <2>3. WayIn'
    BY <1>1, <1>3, <2>1 DEF IInv, WayIn
  <2> QED
    BY <2>2, <2>3 DEF IInv
<1>4. CASE UNCHANGED opens /\ cut' = IF pw'[at] = "random" THEN cut \cup {at} ELSE cut
  <2>1. Types' /\ Sessions'
    BY <1>1, <1>2, <1>4 DEF IInv, Types, Sessions
  <2>2. WayIn'
    BY <1>1, <1>4 DEF IInv, WayIn
  <2> QED
    BY <2>1, <2>2 DEF IInv
<1> QED
  BY <1>3, <1>4 DEF Append

(* A step of an attempt that moves it on to pc, with the machines' state   *)
(* as it stands.                                                           *)
LEMMA GotoStep ==
  ASSUME IInv, run' \in Attempts, run'.legs = {}, run.pc # "password again",
         run'.pc \notin {"reconnect", "system", "ended", "password again"},
         run'.pc = "accounts" => run'.session \in Machines /\ known' = {run'.session},
         known' \subseteq Machines, OneKey', got' \in [Machines -> SUBSET Things],
         UNCHANGED <<at, opens, pw, cut>>
  PROVE  IInv'
<1>1. Types' /\ Sessions'
  BY DEF IInv, Types, Sessions
<1>2. WayIn'
  BY DEF IInv, WayIn
<1> QED
  BY <1>1, <1>2 DEF IInv

(* Every step of an attempt.                                               *)
LEMMA AttemptStep ==
  ASSUME IInv, Attempt
  PROVE  IInv'
<1>1. run \in Attempts /\ at \in Machines /\ known \subseteq Machines
      /\ got \in [Machines -> SUBSET Things]
  BY DEF IInv, Types
<1>2. CASE ProbeKey
  <2>1. run.pc = "probe" /\ run.legs = {} /\ UNCHANGED <<known, at, opens, pw, cut, got>>
    BY <1>2 DEF ProbeKey, server, IInv, Sessions
  <2>2. CASE Over
    BY <1>1, <2>1, <2>2, OverStep DEF CutHere, IInv, OneKey
  <2>3. CASE Goto("ops") \/ Goto("probe password")
    <3>1. run' \in Attempts /\ run'.pc \in {"ops", "probe password"} /\ run'.legs = {}
      BY <1>1, <2>1, <2>3 DEF Goto, Attempts, PCs
    <3> QED
      BY <1>1, <2>1, <3>1, GotoStep DEF IInv, OneKey
  <2> QED
    BY <1>2, <2>2, <2>3 DEF ProbeKey
<1>3. CASE ProbePassword
  <2>1. /\ run.pc = "probe password" /\ run.legs = {} /\ UNCHANGED <<known, at, opens, pw, cut>>
        /\ got' \in [Machines -> SUBSET Things]
    <3>1. got' = got \/ got' = [got EXCEPT ![at] = @ \cup {"password"}]
      BY <1>3 DEF ProbePassword, Send
    <3>2. got' \in [Machines -> SUBSET Things]
      BY <1>1, <3>1 DEF Things
    <3> QED
      BY <1>3, <3>2 DEF ProbePassword, server, IInv, Sessions
  <2>2. CASE Over
    BY <1>1, <2>1, <2>2, OverStep DEF CutHere, IInv, OneKey
  <2>3. CASE Goto("ops")
    <3>1. run' \in Attempts /\ run'.pc = "ops" /\ run'.legs = {}
      BY <1>1, <2>1, <2>3 DEF Goto, Attempts, PCs
    <3> QED
      BY <1>1, <2>1, <3>1, GotoStep DEF IInv, OneKey
  <2> QED
    BY <1>3, <2>2, <2>3 DEF ProbePassword
<1>4. ASSUME NEW user \in {"ops", "initial"}, NEW otherwise \in {"initial", "password"},
             LoginWithKey(user, otherwise)
      PROVE  IInv'
  <2>1. run.pc = user /\ run.legs = {}
    BY <1>4 DEF LoginWithKey, IInv, Sessions
  <2>2. CASE ~Accepts(run.reinstalled) /\ KeyChanged
    BY <2>2, KeyChangedStep
  <2>3. CASE ~(~Accepts(run.reinstalled) /\ KeyChanged)
    <3>1. Trust /\ UNCHANGED <<at, opens, pw, cut, got>>
      BY <1>4, <2>3 DEF LoginWithKey, server
    <3>2. /\ run' \in Attempts /\ run'.legs = {} /\ run'.pc \in {"accounts", "initial", "password"}
          /\ run'.pc = "accounts" => run'.session = at
      BY <1>1, <1>4, <2>1, <2>3 DEF LoginWithKey, Attempts, PCs
    <3> QED
      BY <1>1, <2>1, <3>1, <3>2, TrustFacts, GotoStep
  <2> QED
    BY <2>2, <2>3
<1>5. CASE PasswordNeeded
  <2>1. run.pc = "password" /\ run.legs = {} /\ UNCHANGED <<known, at, opens, pw, cut, got>>
    BY <1>5 DEF PasswordNeeded, server, IInv, Sessions
  <2>2. CASE Over
    BY <1>1, <2>1, <2>2, OverStep DEF CutHere, IInv, OneKey
  <2>3. CASE run' = [run EXCEPT !.pc = "ops", !.password = TRUE]
    <3>1. run' \in Attempts /\ run'.pc = "ops" /\ run'.legs = {}
      BY <1>1, <2>1, <2>3 DEF Attempts, PCs
    <3> QED
      BY <1>1, <2>1, <3>1, GotoStep DEF IInv, OneKey
  <2> QED
    BY <1>5, <2>2, <2>3 DEF PasswordNeeded
<1>6. CASE AddKey
  <2>1. run.pc = "password" /\ run.legs = {}
    BY <1>6 DEF AddKey, IInv, Sessions
  <2>2. CASE ~Accepts(run.reinstalled) /\ KeyChanged
    BY <2>2, KeyChangedStep
  <2>3. CASE ~(~Accepts(run.reinstalled) /\ KeyChanged)
    <3>1. Trust /\ UNCHANGED at /\ got' \in [Machines -> SUBSET Things]
      BY <1>1, <1>6, <2>3 DEF AddKey, Send, Things
    <3>2. known' = {at} /\ OneKey'
      BY <3>1, TrustFacts
    <3>3. CASE Over /\ UNCHANGED <<opens, pw, cut>>
      BY <1>1, <2>1, <3>1, <3>2, <3>3, OverStep DEF CutHere
    <3>4. CASE pw[at] = "client" /\ UNCHANGED pw /\ Append
      BY <1>1, <2>1, <3>1, <3>2, <3>4, AppendStep DEF IInv, Types
    <3>5. CASE pw' = [pw EXCEPT ![at] = "random"] /\ Append
      <4>1. /\ pw' \in [Machines -> {"client", "expired", "random", "off"}]
            /\ \A m \in Machines : m # at => pw'[m] = pw[m]
            /\ pw'[at] = "random"
        BY <1>1, <3>5 DEF IInv, Types
      <4> QED
        BY <1>1, <2>1, <3>1, <3>2, <3>5, <4>1, AppendStep
    <3>6. CASE /\ pw' = [pw EXCEPT ![at] = "random"] /\ UNCHANGED <<opens, cut>>
               /\ run' = [run EXCEPT !.pc = "password again", !.session = at]
      <4>1. run' \in Attempts /\ run'.pc = "password again" /\ run'.session = at /\ run'.legs = {}
        BY <1>1, <2>1, <3>6 DEF Attempts, PCs
      <4>2. /\ pw' \in [Machines -> {"client", "expired", "random", "off"}] /\ pw'[at] = "random"
            /\ opens' = opens /\ cut' = cut
        BY <1>1, <3>6 DEF IInv, Types
      <4>4. Types' /\ Sessions'
        BY <1>1, <3>1, <3>2, <4>1, <4>2 DEF IInv, Types, Sessions
      <4>3. WayIn'
        BY <2>1, <3>1, <3>6, <4>1 DEF IInv, Types, WayIn
      <4> QED
        BY <3>2, <4>3, <4>4 DEF IInv
    <3> QED
      BY <1>6, <2>3, <3>3, <3>4, <3>5, <3>6 DEF AddKey, ChangePassword
  <2> QED
    BY <2>2, <2>3
<1>7. CASE AddKeyAgain
  <2>1. run.pc = "password again" /\ run.legs = {} /\ pw[run.session] = "random"
    BY <1>7 DEF AddKeyAgain, IInv, Sessions
  <2>2. CASE ~Accepts(run.reinstalled) /\ KeyChanged
    BY <2>2, KeyChangedStep
  <2>3. CASE ~(~Accepts(run.reinstalled) /\ KeyChanged)
    <3>1. Trust /\ UNCHANGED <<at, pw, got>>
      BY <1>7, <2>3 DEF AddKeyAgain
    <3>2. known' = {at} /\ OneKey'
      BY <3>1, TrustFacts
    <3>3. CASE at # run.session
      BY <1>1, <1>7, <2>3, <3>1, <3>2, <3>3, OverStep DEF AddKeyAgain
    <3>4. CASE at = run.session
      <4>1. Append
        BY <1>7, <2>3, <3>4 DEF AddKeyAgain
      <4> QED
        BY <1>1, <2>1, <3>1, <3>2, <3>4, <4>1, AppendStep DEF IInv, Types
    <3> QED
      BY <3>3, <3>4
  <2> QED
    BY <2>2, <2>3
<1>8. CASE LoginAdded \/ LoginAgain
  <2>1. PICK user \in {"initial", "ops"}, leg \in {"accounts", "system"} :
          /\ ConnectRetrying(user, leg)
          /\ \/ run.pc = "added" /\ leg = "accounts"
             \/ run.pc = "reconnect" /\ leg = "system" /\ user = "ops"
    BY <1>8 DEF LoginAdded, LoginAgain
  <2>2. CASE ~Accepts(FALSE) /\ KeyChanged
    BY <2>2, KeyChangedStep
  <2>3. CASE ~(~Accepts(FALSE) /\ KeyChanged)
    <3>1. Accepts(FALSE) /\ Trust /\ UNCHANGED <<at, opens, pw, cut, got>>
      BY <2>1, <2>3 DEF ConnectRetrying, server
    <3>2. known' = {at} /\ OneKey'
      BY <3>1, TrustFacts
    <3>3. CASE Over
      BY <1>1, <2>1, <3>1, <3>2, <3>3, OverStep DEF CutHere
    <3>4. CASE ~Over
      <4>1. run' = [run EXCEPT !.pc = leg, !.session = at]
        BY <2>1, <2>3, <3>4 DEF ConnectRetrying, Over
      <4>2. run' \in Attempts /\ run'.pc = leg /\ run'.session = at /\ run'.legs = run.legs
        BY <1>1, <4>1 DEF Attempts, PCs
      <4>3. CASE leg = "accounts"
        BY <1>1, <2>1, <3>1, <3>2, <4>2, <4>3, GotoStep DEF IInv, Sessions
      <4>4. CASE leg = "system"
        <5>1. known = {at} /\ run.legs = {at}
          BY <2>1, <3>1, <4>4 DEF Accepts, IInv, Sessions, OneKey
        <5>4. "ops" \in opens[at]
          BY <2>1, <2>3, <3>4, <4>4 DEF ConnectRetrying, Over
        <5>2. Types' /\ Sessions'
          BY <1>1, <3>1, <3>2, <4>2, <4>4, <5>1, <5>4 DEF IInv, Types, Sessions
        <5>3. WayIn'
          BY <2>1, <3>1, <4>4 DEF IInv, WayIn
        <5> QED
          BY <3>2, <5>2, <5>3 DEF IInv
      <4> QED
        BY <4>3, <4>4
    <3> QED
      BY <3>3, <3>4
  <2> QED
    BY <2>2, <2>3
<1>9. CASE Accounts
  <2>1. /\ run.pc = "accounts" /\ run.legs = {} /\ run.session \in Machines /\ known = {run.session}
        /\ UNCHANGED <<known, at, cut, pw>> /\ got' \in [Machines -> SUBSET Things]
    BY <1>1, <1>9 DEF Accounts, Send, Things, IInv, Sessions
  <2>2. CASE Over /\ UNCHANGED opens
    BY <1>1, <2>1, <2>2, OverStep DEF CutHere, IInv, OneKey
  <2>3. CASE /\ run' = [run EXCEPT !.pc = "reconnect", !.legs = @ \cup {run.session}]
             /\ opens' = [opens EXCEPT ![run.session] = @ \cup {"ops"}]
    <3>1. run' \in Attempts /\ run'.pc = "reconnect" /\ run'.legs = {run.session}
      BY <1>1, <2>1, <2>3 DEF Attempts, PCs
    <3>2. /\ opens' \in [Machines -> SUBSET {"ops", "initial"}]
          /\ \A m \in Machines : opens[m] \subseteq opens'[m]
      BY <2>1, <2>3 DEF IInv, Types
    <3>3. Types' /\ OneKey' /\ Sessions'
      BY <2>1, <3>1, <3>2 DEF IInv, Types, OneKey, Sessions
    <3>4. WayIn'
      BY <2>1, <3>2 DEF IInv, WayIn
    <3> QED
      BY <3>3, <3>4 DEF IInv
  <2>4. CASE /\ Over
             /\ opens' = [opens EXCEPT ![run.session] = @ \cup {"ops"}]
    <3>1. run' \in Attempts /\ run'.pc = "idle" /\ run'.legs = {}
      BY <2>4, NoAttemptFacts DEF Over
    <3>2. /\ opens' \in [Machines -> SUBSET {"ops", "initial"}]
          /\ \A m \in Machines : opens[m] \subseteq opens'[m]
      BY <2>1, <2>4 DEF IInv, Types
    <3>3. Types' /\ OneKey' /\ Sessions'
      BY <2>1, <3>1, <3>2 DEF IInv, Types, OneKey, Sessions
    <3>4. WayIn'
      BY <2>1, <3>2 DEF IInv, WayIn
    <3> QED
      BY <3>3, <3>4 DEF IInv
  <2> QED
    BY <1>9, <2>2, <2>3, <2>4 DEF Accounts
<1>10. CASE System
  <2>1. /\ run.pc = "system" /\ run.session \in Machines /\ known = {run.session} /\ run.legs = known
        /\ UNCHANGED <<known, at, cut>> /\ got' \in [Machines -> SUBSET Things]
        /\ run' = [run EXCEPT !.pc = "ended", !.legs = @ \cup {run.session}]
    BY <1>1, <1>10 DEF System, Send, Things, IInv, Sessions
  <2>2. run' \in Attempts /\ run'.pc = "ended" /\ run'.legs = known
    BY <1>1, <2>1 DEF Attempts, PCs
  <2>3. /\ opens' \in [Machines -> SUBSET {"ops", "initial"}]
        /\ pw' \in [Machines -> {"client", "expired", "random", "off"}]
        /\ \A m \in Machines : \/ opens'[m] = {"ops"}
                               \/ opens'[m] = opens[m] /\ pw'[m] = pw[m]
    <3>1. "ops" \in opens[run.session]
      BY <2>1 DEF IInv, Sessions
    <3> QED
      BY <1>10, <2>1, <3>1 DEF System, IInv, Types
  <2>4. Types' /\ OneKey' /\ Sessions'
    BY <2>1, <2>2, <2>3 DEF IInv, Types, OneKey, Sessions
  <2>5. WayIn'
    BY <2>1, <2>3 DEF IInv, WayIn
  <2> QED
    BY <2>4, <2>5 DEF IInv
<1>11. CASE Return
  BY <1>1, <1>11, OverStep DEF Return, CutHere, server, IInv, OneKey
<1> QED
  BY <1>2, <1>3, <1>4, <1>5, <1>6, <1>7, <1>8, <1>9, <1>10, <1>11 DEF Attempt

(* The invariant holds before anything is asked.                           *)
LEMMA InitIInv == Init => IInv
<1> SUFFICES ASSUME Init PROVE IInv
  OBVIOUS
<1>1. Types
  BY NoAttemptFacts DEF Init, Types, Things
<1> QED
  BY <1>1, NoAttemptFacts DEF Init, IInv, OneKey, Sessions, WayIn

(* Every step of every attempt keeps the invariant.                        *)
LEMMA NextIInv == IInv /\ [Next]_vars => IInv'
<1> SUFFICES ASSUME IInv, [Next]_vars PROVE IInv'
  OBVIOUS
<1>1. ASSUME UNCHANGED <<known, server, got, run>> PROVE IInv'
  BY <1>1 DEF server, IInv, Types, OneKey, Sessions, WayIn
<1>2. CASE Move
  <2>1. at' \in Machines /\ UNCHANGED <<known, opens, pw, cut, got, run>>
    BY <1>2 DEF Move
  <2>2. Types' /\ OneKey' /\ Sessions'
    BY <2>1 DEF IInv, Types, OneKey, Sessions
  <2>3. WayIn'
    BY <2>1 DEF IInv, WayIn
  <2> QED
    BY <2>2, <2>3 DEF IInv
<1>6. CASE Interrupted
  BY <1>6, OverStep DEF Interrupted, IInv, Types, OneKey
<1>3. ASSUME run.pc = "idle", UNCHANGED <<known, server, got>>, NEW pc \in {"idle", "probe", "ops"},
             run' \in Attempts, run'.pc = pc, run'.legs = {}
      PROVE  IInv'
  BY <1>3, GotoStep DEF server, IInv, Types, OneKey
<1>4. ASSUME NEW e \in Edits, NEW r \in BOOLEAN, NEW p \in BOOLEAN, PageAttempt(e, r, p) PROVE IInv'
  <2> DEFINE to == IF \E k \in Exampled : env'[k] = BLANK THEN "idle" ELSE "probe"
  <2>1. /\ run.pc = "idle" /\ UNCHANGED <<known, server, got>>
        /\ run' = [NoAttempt EXCEPT !.pc = to, !.from = "page", !.reinstalled = r, !.password = p]
    BY <1>4 DEF PageAttempt
  <2>2. to \in {"idle", "probe", "ops"}
    OBVIOUS
  <2> HIDE DEF to
  <2>3. run' \in Attempts /\ run'.pc = to /\ run'.legs = {}
    BY <2>1, <2>2 DEF NoAttempt, Attempts, PCs
  <2> QED
    BY <1>3, <2>1, <2>2, <2>3
<1>5. ASSUME NEW i \in Inputs, NEW tty \in BOOLEAN, NEW r \in BOOLEAN, Seed(i, tty, r) PROVE IInv'
  <2> DEFINE to == IF env'[ADDR] = BLANK THEN "idle" ELSE "ops"
             password == i # NONE /\ i.password
             pinned == i # NONE /\ i.pin = "long"
  <2>1. /\ run.pc = "idle" /\ UNCHANGED <<known, server, got>>
        /\ run' = [NoAttempt EXCEPT !.pc = to, !.from = "console", !.tty = tty, !.reinstalled = r,
                                    !.password = password, !.pin = pinned]
    BY <1>5 DEF Seed
  <2>2. to \in {"idle", "probe", "ops"} /\ password \in BOOLEAN /\ pinned \in BOOLEAN
    BY ConsoleAssumption
  <2> HIDE DEF to, password, pinned
  <2>3. run' \in Attempts /\ run'.pc = to /\ run'.legs = {}
    BY <2>1, <2>2 DEF NoAttempt, Attempts, PCs
  <2> QED
    BY <1>3, <2>1, <2>2, <2>3
<1> QED
  BY <1>1, <1>2, <1>4, <1>5, <1>6, AttemptStep DEF Next, InitInventory, EditByHand, vars

-----------------------------------------------------------------------------
(* What a connection may give a machine.                                   *)
LEMMA StrangerStep ==
  ASSUME IInv, [Next]_vars, NEW m \in Machines, got'[m] # got[m] \/ m \in known' \ known
  PROVE  known = {} \/ m \in known \/ run.reinstalled
<1>1. got \in [Machines -> SUBSET Things] /\ (got' # got \/ known' # known)
  BY DEF IInv, Types
<1>2. ASSUME NEW b \in {FALSE, run.reinstalled}, Accepts(b), Trust, m \in known' \ known
      PROVE  known = {} \/ m \in known \/ run.reinstalled
  BY <1>2 DEF Accepts, Trust
<1>3. ASSUME NEW x \in Machines, NEW what, Send(x, what), m # x PROVE got'[m] = got[m]
  BY <1>1, <1>3 DEF Send
<1>4. CASE ProbePassword
  BY <1>3, <1>4 DEF ProbePassword, Accepts, IInv, Types
<1>5. CASE \/ LoginWithKey("ops", "initial") \/ LoginWithKey("initial", "password")
           \/ AddKeyAgain \/ LoginAdded \/ LoginAgain
  BY <1>2, <1>5 DEF LoginWithKey, AddKeyAgain, LoginAdded, LoginAgain, ConnectRetrying, KeyChanged
<1>6. CASE AddKey
  BY <1>2, <1>3, <1>6 DEF AddKey, KeyChanged, Accepts, IInv, Types
<1>7. CASE Accounts \/ System
  BY <1>3, <1>7 DEF Accounts, System, IInv, Sessions
<1> QED
  BY <1>1, <1>4, <1>5, <1>6, <1>7 DEF Next, Attempt, ProbeKey, PasswordNeeded, Return, Move,
     Interrupted, InitInventory, EditByHand, PageAttempt, Seed, vars

(* "A server presenting another host key than the one this machine trusts  *)
(* gets nothing until the client confirms it was reinstalled" (README), in *)
(* every step of every attempt, whichever machine answers when.            *)
THEOREM StrangersGetNothing == Spec => StrangerGetsNothing
<1>1. IInv /\ [Next]_vars =>
        [\A m \in Machines : got'[m] # got[m] \/ m \in known' \ known =>
            known = {} \/ m \in known \/ run.reinstalled]_vars
  BY StrangerStep
<1> QED
  BY <1>1, InitIInv, NextIInv, PTL DEF Spec, StrangerGetsNothing

(* Both legs of an attempt go to one machine: the login the hardening      *)
(* waits for was a login on the server it hardens (install.py).            *)
THEOREM BothLegsOnOneMachine == Spec => []OneMachine
<1>1. IInv => OneMachine
  <2> SUFFICES ASSUME IInv PROVE OneMachine
    OBVIOUS
  <2>1. CASE run.legs = {}
    BY <2>1, FS_EmptySet DEF OneMachine
  <2>2. CASE run.legs # {}
    <3>1. PICK m \in known : run.legs = {m}
      BY <2>2 DEF IInv, Sessions, OneKey
    <3>2. Cardinality({m}) = 1
      BY FS_Singleton, Zenon
    <3> QED
      BY <3>1, <3>2 DEF OneMachine
  <2> QED
    BY <2>1, <2>2
<1> QED
  BY <1>1, InitIInv, NextIInv, PTL DEF Spec

(* Every attempt, however it ended and wherever it was interrupted, leaves *)
(* the client a login on every machine, but for one an attempt was cut     *)
(* short on between the change of its expired password and the key: the    *)
(* code's one window (install_key_with_password).                          *)
THEOREM LoginIsKept == Spec => []ClientKeepsLogin
<1>1. IInv => ClientKeepsLogin
  BY DEF IInv, WayIn, ClientKeepsLogin
<1> QED
  BY <1>1, InitIInv, NextIInv, PTL DEF Spec
=============================================================================
