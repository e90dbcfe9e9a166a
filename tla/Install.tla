------------------------------ MODULE Install -------------------------------
(***************************************************************************)
(* Installs of one server: the installer's two sessions (install.py), the  *)
(* starter's lock, fetch and link (starter.sh, fetch_release.py), and the  *)
(* two legs that run from the fetched tree (install-host.sh,               *)
(* session_proof.py, bootstrap/roles/common), for several installs started *)
(* from several machines, connections that drop and a server that reboots. *)
(*                                                                         *)
(* A leg goes on when its connection drops; the rerun is another install.  *)
(* The tree an install fetches is named by the install, its dest.  A tree  *)
(* is PART until its IMAGE is recorded.                                    *)
(***************************************************************************)

CONSTANTS
    Installs,    \* runs of the installer
    Keys,        \* SSH keys
    KeyOf,       \* the key of an install's machine
    Images,      \* release images, by digest
    Wants,       \* the image an install names (--image, --release), or NONE
    Newest,      \* the newest release
    Password,    \* the installs given the provider's password
    NONE, PART, NOBODY

ASSUME InstallAssumption ==
    /\ KeyOf \in [Installs -> Keys]
    /\ Wants \in [Installs -> Images \cup {NONE}] /\ Newest \in Images
    /\ Password \subseteq Installs
    /\ {NONE, PART} \cap Images = {} /\ NONE # PART
    /\ NONE \notin Installs /\ NOBODY \notin Installs

VARIABLES
    inst,      \* where each run of the installer is
    leg,       \* the leg an install has on the server
    live,      \* the installs whose connection still carries the leg
    lock,      \* /run/catena-install.lock
    hostLock,  \* /run/catena.lock
    trees,     \* what /var/lib/catena/install/<dest> holds: NONE, PART, an image
    current,   \* the dest the current link names, or NONE
    opsKeys, providerKeys,  \* the two logins' authorized_keys
    opsOpens,  \* whether sshd takes a key for ops at all (account, modes)
    hardened,  \* 10-catena.conf: no password, no login but ops
    running,   \* the version the server runs, PART between two
    pin,       \* image_pins' catena-admin entry
    applied    \* auxiliary: the versions this server was moved to whole

locks == <<lock, hostLock>>
staged == <<trees, current>>
logins == <<opsKeys, providerKeys, opsOpens, hardened>>
version == <<running, pin, applied>>
server == <<locks, staged, logins, version>>
vars == <<inst, leg, live, server>>

NoLeg == [kind |-> "none", pc |-> "none", user |-> "none", tree |-> NONE,
          image |-> NONE, tags |-> FALSE, rc |-> 0]

Init ==
    /\ inst = [i \in Installs |-> "new"]
    /\ leg = [i \in Installs |-> NoLeg]
    /\ live = {}
    /\ lock = NOBODY /\ hostLock = NOBODY
    /\ trees = [i \in Installs |-> NONE] /\ current = NONE
    /\ opsKeys = {} /\ providerKeys = {}
    /\ opsOpens \in BOOLEAN
    /\ hardened = FALSE
    /\ running = NONE /\ pin = NONE /\ applied = {}

Goto(i, pc) == leg' = [leg EXCEPT ![i].pc = pc]

(* A leg is sent; a system leg's converge may be scoped by --tags.         *)
Queue(i, kind, user) ==
    /\ \E t \in {FALSE, kind = "system"} :
         leg' = [leg EXCEPT ![i] = [NoLeg EXCEPT !.kind = kind, !.pc = "queued",
                                                 !.user = user, !.tags = t]]
    /\ live' = live \cup {i}

(* MUTANT: the leg's end leaves the lock, as a child that kept fd 8 would. *)
EndLocked(i, rc) ==
    /\ leg' = [leg EXCEPT ![i] = [NoLeg EXCEPT !.pc = "ended", !.rc = rc]]
    /\ hostLock' = IF hostLock = i THEN NOBODY ELSE hostLock
    /\ UNCHANGED lock

(* The leg exits with rc; both flocks end with it.                         *)
End(i, rc) ==
    /\ leg' = [leg EXCEPT ![i] = [NoLeg EXCEPT !.pc = "ended", !.rc = rc]]
    /\ lock' = IF lock = i THEN NOBODY ELSE lock
    /\ hostLock' = IF hostLock = i THEN NOBODY ELSE hostLock

-----------------------------------------------------------------------------
(* The installer's machine.                                                *)

OpsLogin(i) == opsOpens /\ KeyOf[i] \in opsKeys
ProviderLogin(i) == ~hardened /\ KeyOf[i] \in providerKeys

(* login, and the accounts leg sent: as ops, else as the provider's login, *)
(* else the key is added to that login with the password.                  *)
Login(i) ==
    /\ inst[i] = "new"
    /\ LET added == ~OpsLogin(i) /\ ~ProviderLogin(i) /\ ~hardened /\ i \in Password
       IN  /\ providerKeys' = IF added THEN providerKeys \cup {KeyOf[i]} ELSE providerKeys
           /\ \/ /\ OpsLogin(i) \/ ProviderLogin(i) \/ added
                 /\ Queue(i, "accounts", IF OpsLogin(i) THEN "ops" ELSE "provider")
                 /\ inst' = [inst EXCEPT ![i] = "accounts"]
              \/ /\ ~OpsLogin(i) /\ ~ProviderLogin(i) /\ ~added
                 /\ inst' = [inst EXCEPT ![i] = "over"] /\ UNCHANGED <<leg, live>>
    /\ UNCHANGED <<locks, staged, opsKeys, opsOpens, hardened, version>>

(* uninstall logs in as ops or not at all, and sends its one leg.          *)
LoginToUninstall(i) ==
    /\ inst[i] = "new" /\ OpsLogin(i)
    /\ Queue(i, "uninstall", "ops")
    /\ inst' = [inst EXCEPT ![i] = "uninstall"]
    /\ UNCHANGED server

(* The first leg's status came back: anything but 0 ends the run.          *)
AfterAccounts(i) ==
    /\ inst[i] = "accounts" /\ i \in live /\ leg[i].pc = "ended"
    /\ inst' = [inst EXCEPT ![i] = IF leg[i].rc = 0 THEN "reconnect" ELSE "over"]
    /\ leg' = [leg EXCEPT ![i] = NoLeg] /\ live' = live \ {i}
    /\ UNCHANGED server

(* _connect_retrying, as ops: that login is the proof the hardening waits  *)
(* for.                                                                    *)
Reconnect(i) ==
    /\ inst[i] = "reconnect"
    /\ \/ OpsLogin(i) /\ Queue(i, "system", "ops") /\ inst' = [inst EXCEPT ![i] = "system"]
       \/ inst' = [inst EXCEPT ![i] = "over"] /\ UNCHANGED <<leg, live>>
    /\ UNCHANGED server

AfterLast(i) ==
    /\ inst[i] \in {"system", "uninstall"} /\ i \in live /\ leg[i].pc = "ended"
    /\ inst' = [inst EXCEPT ![i] = "over"]
    /\ leg' = [leg EXCEPT ![i] = NoLeg] /\ live' = live \ {i}
    /\ UNCHANGED server

(* Someone sends the system leg through the provider's login.              *)
SystemByHand(i) ==
    /\ inst[i] = "new" /\ i \in Password /\ ~hardened
    /\ Queue(i, "system", "provider")
    /\ inst' = [inst EXCEPT ![i] = "system"]
    /\ UNCHANGED server

(* The connection is lost: the run is over, its leg is not.                *)
Drop(i) ==
    /\ i \in live
    /\ live' = live \ {i}
    /\ inst' = [inst EXCEPT ![i] = "over"]
    /\ UNCHANGED <<leg, server>>

-----------------------------------------------------------------------------
(* starter.sh.                                                             *)

(* MUTANT: the lock is asked for and not waited for.                       *)
AcquireShared(i) ==
    /\ leg[i].pc = "queued"
    /\ lock' = i
    /\ Goto(i, IF leg[i].kind = "system" THEN "start" ELSE "fetch")
    /\ UNCHANGED <<inst, live, hostLock, staged, logins, version>>

Acquire(i) ==
    /\ leg[i].pc = "queued" /\ lock = NOBODY
    /\ lock' = i
    /\ Goto(i, IF leg[i].kind = "system" THEN "start" ELSE "fetch")
    /\ UNCHANGED <<inst, live, hostLock, staged, logins, version>>

(* An hour without the install's lock, or without the host's.              *)
GiveUp(i) ==
    /\ \/ leg[i].pc = "queued" /\ lock # NOBODY
       \/ leg[i].pc = "host_lock" /\ hostLock # NOBODY
    /\ End(i, 1)
    /\ UNCHANGED <<inst, live, staged, logins, version>>

(* resolve_ref: what the run names, the pin, the image the service runs    *)
(* (either of two while it moves), the newest release.                     *)
Resolved(i) ==
    CASE Wants[i] # NONE -> {Wants[i]}
      [] Wants[i] = NONE /\ pin # NONE -> {pin}
      [] Wants[i] = NONE /\ pin = NONE /\ running \in Images -> {running}
      [] Wants[i] = NONE /\ pin = NONE /\ running = PART -> Images
      [] OTHER -> {Newest}

(* fetch: dest and its staging are made.                                   *)
Fetch(i) ==
    /\ leg[i].pc = "fetch"
    /\ trees' = [trees EXCEPT ![i] = PART]
    /\ \E v \in Resolved(i) : leg' = [leg EXCEPT ![i].pc = "unpack", ![i].image = v]
    /\ UNCHANGED <<inst, live, locks, current, logins, version>>

(* _install moves the two trees in; IMAGE is the last rename.              *)
Unpack(i) ==
    /\ leg[i].pc = "unpack"
    /\ trees' = [trees EXCEPT ![i] = leg[i].image]
    /\ Goto(i, "link")
    /\ UNCHANGED <<inst, live, locks, current, logins, version>>

(* MUTANT: the link is moved while the tree is still being unpacked.       *)
LinkEarly(i) ==
    /\ leg[i].pc \in {"unpack", "link"}
    /\ current' = i
    /\ IF leg[i].pc = "link" THEN Goto(i, "sweep") ELSE UNCHANGED leg
    /\ UNCHANGED <<inst, live, locks, trees, logins, version>>

Link(i) ==
    /\ leg[i].pc = "link"
    /\ current' = i
    /\ Goto(i, "sweep")
    /\ UNCHANGED <<inst, live, locks, trees, logins, version>>

Sweep(i) ==
    /\ leg[i].pc = "sweep"
    /\ trees' = [d \in Installs |-> IF d = i THEN trees[d] ELSE NONE]
    /\ Goto(i, "start")
    /\ UNCHANGED <<inst, live, locks, current, logins, version>>

(* exec install-host.sh of the current tree, with the image it records.    *)
Start(i) ==
    /\ leg[i].pc = "start"
    /\ \/ /\ current # NONE /\ trees[current] \in Images
          /\ leg' = [leg EXCEPT ![i].tree = current, ![i].image = trees[current],
                       ![i].pc = CASE leg[i].kind = "system" -> "proof"
                                   [] leg[i].kind = "accounts" -> "accounts"
                                   [] OTHER -> "uninstall"]
          /\ UNCHANGED locks
       \/ /\ IF current = NONE THEN TRUE ELSE trees[current] \notin Images
          /\ End(i, 1)
    /\ UNCHANGED <<inst, live, staged, logins, version>>

-----------------------------------------------------------------------------
(* install-host.sh: the accounts and uninstall legs.                       *)

Accounts(i) ==
    /\ leg[i].pc = "accounts"
    /\ opsKeys' = opsKeys \cup {KeyOf[i]}
    /\ End(i, 0)
    /\ UNCHANGED <<inst, live, staged, providerKeys, opsOpens, hardened, version>>

Uninstall(i) ==
    /\ leg[i].pc = "uninstall"
    /\ End(i, 0)
    /\ UNCHANGED <<inst, live, staged, logins, version>>

-----------------------------------------------------------------------------
(* install-host.sh: the system leg.                                        *)

(* MUTANT: the proof is of the session, whoever logged in.                 *)
ProofAnySession(i) ==
    /\ leg[i].pc = "proof"
    /\ Goto(i, "baseline")
    /\ UNCHANGED <<inst, live, locks, staged, logins, version>>

(* session_proof: sshd recorded a key login of ops for this session, and   *)
(* that key is still in ops' authorized_keys.  A journal that does not     *)
(* show the login proves nothing.                                          *)
Proof(i) ==
    /\ leg[i].pc = "proof"
    /\ \/ /\ leg[i].user = "ops" /\ KeyOf[i] \in opsKeys
          /\ Goto(i, "baseline") /\ UNCHANGED locks
       \/ End(i, 4)
    /\ UNCHANGED <<inst, live, staged, logins, version>>

(* bootstrap.yml, before sshd: the accounts again.                         *)
Baseline(i) ==
    /\ leg[i].pc = "baseline"
    /\ opsKeys' = opsKeys \cup {KeyOf[i]}
    /\ Goto(i, "harden")
    /\ UNCHANGED <<inst, live, locks, staged, providerKeys, opsOpens, hardened, version>>

Harden(i) ==
    /\ leg[i].pc = "harden"
    /\ hardened' = TRUE
    /\ Goto(i, "host_lock")
    /\ UNCHANGED <<inst, live, locks, staged, opsKeys, providerKeys, opsOpens, version>>

HostLock(i) ==
    /\ leg[i].pc = "host_lock" /\ hostLock = NOBODY
    /\ hostLock' = i
    /\ Goto(i, "converge")
    /\ UNCHANGED <<inst, live, lock, staged, logins, version>>

(* The converge moves the server to the image it was started with; one     *)
(* scoped by --tags applies part of it.                                    *)
Converge(i) ==
    /\ leg[i].pc = "converge"
    /\ running' = IF running = leg[i].image THEN running ELSE PART
    /\ Goto(i, "converging")
    /\ UNCHANGED <<inst, live, locks, staged, logins, pin, applied>>

(* MUTANT: a converge scoped by --tags is recorded too.                    *)
ConvergeEndsRecorded(i) ==
    /\ leg[i].pc = "converging"
    /\ running' = IF leg[i].tags THEN running ELSE leg[i].image
    /\ applied' = IF leg[i].tags THEN applied ELSE applied \cup {leg[i].image}
    /\ hostLock' = NOBODY
    /\ Goto(i, "pin")
    /\ UNCHANGED <<inst, live, lock, staged, logins, pin>>

ConvergeEnds(i) ==
    /\ leg[i].pc = "converging"
    /\ running' = IF leg[i].tags THEN running ELSE leg[i].image
    /\ applied' = IF leg[i].tags THEN applied ELSE applied \cup {leg[i].image}
    /\ hostLock' = NOBODY
    /\ Goto(i, IF leg[i].tags THEN "validate" ELSE "pin")
    /\ UNCHANGED <<inst, live, lock, staged, logins, pin>>

(* The lock is free by now: a lane may have moved the server on meanwhile.  *)
Pin(i) ==
    /\ leg[i].pc = "pin"
    /\ pin' = leg[i].image
    /\ Goto(i, "validate")
    /\ UNCHANGED <<inst, live, locks, staged, logins, running, applied>>

Validate(i) ==
    /\ leg[i].pc = "validate"
    /\ \E rc \in {0, 3} : End(i, rc)
    /\ UNCHANGED <<inst, live, staged, logins, version>>

Fallible == {"fetch", "unpack", "accounts", "uninstall", "baseline", "harden",
             "converging", "pin"}

(* A step fails, and the leg with it: what it did so far stays.            *)
Fails(i) ==
    /\ leg[i].pc \in Fallible
    /\ End(i, 1)
    /\ UNCHANGED <<inst, live, staged, logins, version>>

-----------------------------------------------------------------------------
(* Around the legs.                                                        *)

(* The server restarts: every leg and every lock ends.                     *)
Reboot ==
    /\ \E i \in Installs : leg[i].pc \notin {"none", "ended"}
    /\ leg' = [i \in Installs |-> NoLeg]
    /\ inst' = [i \in Installs |-> IF i \in live THEN "over" ELSE inst[i]]
    /\ live' = {}
    /\ lock' = NOBODY /\ hostLock' = NOBODY
    /\ UNCHANGED <<staged, logins, version>>

(* The panel's update lane moves the server under the host's lock, and     *)
(* records what it moved to.                                               *)
LaneUpdate(v) ==
    /\ hostLock = NOBODY /\ running \in Images \ {v}
    /\ running' = v /\ pin' = v /\ applied' = applied \cup {v}
    /\ UNCHANGED <<inst, leg, live, locks, staged, logins>>

(* An administrator takes a key off ops, before the server is hardened.    *)
RemoveKey(k) ==
    /\ k \in opsKeys /\ ~hardened
    /\ \A i \in Installs : leg[i].pc # "harden"
    /\ opsKeys' = opsKeys \ {k}
    /\ UNCHANGED <<inst, leg, live, locks, staged, providerKeys, opsOpens, hardened, version>>

(* "lines a client added by hand stay" (accounts.yml): another machine's   *)
(* key, once there is an account.                                          *)
AddKey(k) ==
    /\ opsKeys # {} /\ k \notin opsKeys
    /\ opsKeys' = opsKeys \cup {k}
    /\ UNCHANGED <<inst, leg, live, locks, staged, providerKeys, opsOpens, hardened, version>>

Machine(i) == Login(i) \/ LoginToUninstall(i) \/ AfterAccounts(i) \/ Reconnect(i) \/ AfterLast(i)

LegStep(i) ==
    \/ Acquire(i) \/ GiveUp(i) \/ Fetch(i) \/ Unpack(i) \/ Link(i) \/ Sweep(i) \/ Start(i)
    \/ Accounts(i) \/ Uninstall(i)
    \/ Proof(i) \/ Baseline(i) \/ Harden(i) \/ HostLock(i) \/ Converge(i)
    \/ ConvergeEnds(i) \/ Pin(i) \/ Validate(i) \/ Fails(i)

Next ==
    \/ \E i \in Installs : Machine(i) \/ LegStep(i) \/ SystemByHand(i) \/ Drop(i)
    \/ Reboot
    \/ \E v \in Images : LaneUpdate(v)
    \/ \E k \in Keys : AddKey(k) \/ RemoveKey(k)

Spec == Init /\ [][Next]_vars

(* A leg on the server goes on to its end: every step of it ends, by a     *)
(* result, a failure or the hour's deadline of a wait.                     *)
FairSpec == Spec /\ \A i \in Installs : WF_vars(LegStep(i))

-----------------------------------------------------------------------------
Pcs == {"none", "queued", "fetch", "unpack", "link", "sweep", "start", "proof",
        "converge", "host_lock", "validate", "ended"} \cup Fallible

(* The variables keep their ranges, and the lock is held by the one leg    *)
(* past the starter's flock, until that leg ends (starter.sh:40-44).       *)
TypeOK ==
    /\ inst \in [Installs -> {"new", "accounts", "reconnect", "system",
                           "uninstall", "over"}]
    /\ leg \in [Installs -> [kind : {"none", "accounts", "system", "uninstall"}, pc : Pcs,
                             user : {"none", "ops", "provider"},
                             tree : Installs \cup {NONE}, image : Images \cup {NONE},
                             tags : BOOLEAN, rc : {0, 1, 3, 4}]]
    /\ live \subseteq Installs
    /\ hostLock \in Installs \cup {NOBODY}
    /\ \A i \in Installs : (lock = i) <=> leg[i].pc \notin {"none", "queued", "ended"}
    /\ lock \in Installs \cup {NOBODY}
    /\ trees \in [Installs -> Images \cup {NONE, PART}] /\ current \in Installs \cup {NONE}
    /\ opsKeys \subseteq Keys /\ providerKeys \subseteq Keys
    /\ opsOpens \in BOOLEAN /\ hardened \in BOOLEAN
    /\ running \in Images \cup {NONE, PART} /\ pin \in Images \cup {NONE}
    /\ applied \subseteq Images \cup {NONE}

(* "A rerun after a dropped connection waits for the leg still running and *)
(* never removes the tree it runs from" (starter.sh:10-13): the tree of a  *)
(* running leg stays whole, of the image the leg applies, and current.     *)
TreeStands ==
    \A i \in Installs : leg[i].tree # NONE =>
        /\ trees[leg[i].tree] = leg[i].image
        /\ current = leg[i].tree

(* current names a whole tree from the first link on, whatever fetch       *)
(* failed, was dropped or was cut by a reboot: a leg sent with --no-fetch  *)
(* finds one (starter.sh:58-70).                                           *)
CurrentWhole == current # NONE => trees[current] \in Images

(* The hardening takes every other login away, so it leaves a server ops   *)
(* opens with a key (bootstrap/roles/common/tasks/main.yml:215-238).       *)
NotLockedOut == hardened => opsOpens /\ opsKeys # {}

(* "A converge scoped by --tags applied part of a version, which is not    *)
(* one to record" (install-host.sh:230-235): the version a rerun without   *)
(* --image fetches is one this server was moved to whole, by an install or *)
(* by the panel's lane, whatever failed, was cut by a reboot, was scoped   *)
(* by --tags or ran between another's converge and its pin.                *)
PinWasApplied == pin # NONE => pin \in applied

(* A leg that was sent ends, and the lock with it: no rerun waits for ever *)
(* (starter.sh:43, install-host.sh:22-24).                                 *)
LegEnds == \A i \in Installs : leg[i].pc = "queued" ~> lock # i /\ leg[i].pc \in {"none", "ended"}
=============================================================================
