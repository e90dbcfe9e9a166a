---------------------------- MODULE InstallProofs ---------------------------
(***************************************************************************)
(* The safety properties of Install, for every number of installs, keys    *)
(* and releases.                                                           *)
(***************************************************************************)
EXTENDS Install, TLAPS

OnHost == {"proof", "accounts", "uninstall", "baseline", "harden", "host_lock",
           "converge", "converging", "pin", "validate"}

(* A run that has yet to send a leg has none on the server.                *)
NothingSent == \A i \in Installs : inst[i] \in {"new", "reconnect"} => leg[i] = NoLeg

(* current does not name the tree of an install until its fetch is whole.  *)
Unlinked == \A i \in Installs :
    \/ inst[i] = "new"
    \/ leg[i].pc \in {"fetch", "unpack", "link"}
    \/ leg[i].pc = "queued" /\ leg[i].kind # "system"
    => current # i

(* What the starter has in hand between the fetch and the sweep.           *)
Staged == \A i \in Installs :
    /\ leg[i].pc = "unpack" => leg[i].image \in Images
    /\ leg[i].pc = "link" => trees[i] \in Images
    /\ leg[i].pc = "sweep" => current = i

(* Only a leg past the starter, so under the lock, runs from a tree.       *)
FromTree == \A i \in Installs : leg[i].tree # NONE => leg[i].pc \in OnHost

(* A session of ops is one sshd opened with a key, and the hardening has   *)
(* such a session behind it and the session's key in ops' file.            *)
OpsSession == \A i \in Installs :
    /\ leg[i].user = "ops" => opsOpens
    /\ leg[i].pc \in {"baseline", "harden"} => leg[i].user = "ops"
    /\ leg[i].pc = "harden" => KeyOf[i] \in opsKeys

IInv == /\ TypeOK /\ NothingSent /\ Unlinked /\ Staged /\ FromTree /\ OpsSession
        /\ TreeStands /\ CurrentWhole /\ NotLockedOut

(* A leg about to record its version has applied it.                       *)
Converged == \A i \in Installs : leg[i].pc = "pin" => leg[i].image \in applied
PinInv == Converged /\ PinWasApplied

Legs == [kind : {"none", "accounts", "system", "uninstall"}, pc : Pcs,
         user : {"none", "ops", "provider"}, tree : Installs \cup {NONE},
         image : Images \cup {NONE}, tags : BOOLEAN, rc : {0, 1, 3, 4}]

Waits == {"none", "queued", "ended"}

-----------------------------------------------------------------------------
(* Facts of the types every step uses: one leg is past the lock.           *)
LEMMA LegFacts ==
  ASSUME TypeOK
  PROVE  /\ leg \in [Installs -> Legs]
         /\ \A i, j \in Installs : leg[i].pc \notin Waits /\ leg[j].pc \notin Waits => i = j
  BY InstallAssumption DEF TypeOK, Legs, Waits

(* NoLeg holds nothing.                                                    *)
LEMMA NoLegFacts ==
  /\ NoLeg \in Legs /\ NoLeg.pc = "none" /\ NoLeg.tree = NONE /\ NoLeg.user = "none"
  /\ \A rc \in {0, 1, 3, 4} :
       LET over == [NoLeg EXCEPT !.pc = "ended", !.rc = rc]
       IN  over \in Legs /\ over.pc = "ended" /\ over.tree = NONE /\ over.user = "none"
  BY DEF NoLeg, Legs, Pcs

(* A leg that ends, in whatever step, leaves nothing IInv speaks of.       *)
LEMMA EndStep ==
  ASSUME IInv, NEW i \in Installs, NEW rc \in {0, 1, 3, 4}, End(i, rc),
         leg[i].pc # "none", UNCHANGED <<inst, live, staged, version>>,
         UNCHANGED <<providerKeys, opsOpens, hardened>>,
         opsKeys \subseteq opsKeys', opsKeys' \subseteq Keys
  PROVE  IInv'
<1> DEFINE over == [NoLeg EXCEPT !.pc = "ended", !.rc = rc]
<1>1. /\ leg' = [leg EXCEPT ![i] = over]
      /\ lock' = IF lock = i THEN NOBODY ELSE lock
      /\ hostLock' = IF hostLock = i THEN NOBODY ELSE hostLock
  BY DEF End
<1>2. over \in Legs /\ over.pc = "ended" /\ over.tree = NONE /\ over.user = "none"
  BY NoLegFacts
<1> HIDE DEF over
<1>3. leg \in [Installs -> Legs] /\ leg' \in [Installs -> Legs] /\ leg'[i] = over
      /\ \A j \in Installs : j # i => leg'[j] = leg[j]
  BY <1>1, <1>2, LegFacts DEF IInv
<1>4. TypeOK'
  BY <1>1, <1>2, <1>3, InstallAssumption DEF IInv, TypeOK, Legs, staged, version
<1>5. inst[i] \notin {"new", "reconnect"}
  BY NoLegFacts DEF IInv, NothingSent
<1>6. NothingSent' /\ Unlinked'
  BY <1>2, <1>3, <1>5 DEF IInv, NothingSent, Unlinked, staged
<1>7. Staged' /\ FromTree' /\ OpsSession'
  BY <1>2, <1>3 DEF IInv, Staged, FromTree, OpsSession, staged
<1>8. TreeStands' /\ CurrentWhole' /\ NotLockedOut'
  BY <1>2, <1>3 DEF IInv, TreeStands, CurrentWhole, NotLockedOut, staged
<1> QED
  BY <1>4, <1>6, <1>7, <1>8 DEF IInv

(* A leg that is sent.                                                     *)
LEMMA QueueStep ==
  ASSUME IInv, NEW i \in Installs, NEW kind \in {"accounts", "system", "uninstall"},
         NEW user \in {"ops", "provider"}, Queue(i, kind, user),
         leg[i] = NoLeg, kind # "system" => current # i, user = "ops" => opsOpens,
         NEW to \in {"accounts", "system", "uninstall"}, inst' = [inst EXCEPT ![i] = to],
         UNCHANGED <<locks, staged, version, opsKeys, opsOpens, hardened>>,
         providerKeys' \subseteq Keys
  PROVE  IInv'
<1>1. PICK t \in BOOLEAN :
         leg' = [leg EXCEPT ![i] = [NoLeg EXCEPT !.kind = kind, !.pc = "queued",
                                                 !.user = user, !.tags = t]]
  BY DEF Queue
<1> DEFINE sent == [NoLeg EXCEPT !.kind = kind, !.pc = "queued", !.user = user, !.tags = t]
<1>2. /\ sent \in Legs /\ sent.pc = "queued" /\ sent.tree = NONE
      /\ sent.user = user /\ sent.kind = kind
  BY DEF NoLeg, Legs, Pcs
<1>3. leg' = [leg EXCEPT ![i] = sent] /\ live' = live \cup {i}
  BY <1>1 DEF Queue
<1> HIDE DEF sent
<1>4. leg \in [Installs -> Legs] /\ leg' \in [Installs -> Legs] /\ leg'[i] = sent
      /\ \A j \in Installs : j # i => leg'[j] = leg[j]
  BY <1>2, <1>3, LegFacts DEF IInv
<1>5. TypeOK'
  BY <1>2, <1>3, <1>4, NoLegFacts DEF IInv, TypeOK, Legs, locks, staged, version
<1>6. NothingSent' /\ Unlinked'
  BY <1>2, <1>4 DEF IInv, TypeOK, NothingSent, Unlinked, staged
<1>7. Staged' /\ FromTree' /\ OpsSession'
  BY <1>2, <1>4 DEF IInv, Staged, FromTree, OpsSession, staged
<1>8. TreeStands' /\ CurrentWhole' /\ NotLockedOut'
  BY <1>2, <1>4 DEF IInv, TreeStands, CurrentWhole, NotLockedOut, staged
<1> QED
  BY <1>5, <1>6, <1>7, <1>8 DEF IInv

(* A leg's next step, in the tree it has or from the starter, that moves   *)
(* its pc alone and neither keys nor trees.                                *)
LEMMA GotoStep ==
  ASSUME IInv, NEW i \in Installs, NEW pc \in OnHost, Goto(i, pc),
         leg[i].pc \in OnHost, UNCHANGED <<inst, live, lock, staged>>,
         hostLock' \in Installs \cup {NOBODY},
         UNCHANGED <<providerKeys, opsOpens>>, hardened' \in BOOLEAN,
         opsKeys \subseteq opsKeys', opsKeys' \subseteq Keys,
         running' \in Images \cup {NONE, PART}, pin' \in Images \cup {NONE},
         applied' \subseteq Images \cup {NONE},
         pc \in {"baseline", "harden"} => leg[i].user = "ops",
         pc = "harden" => KeyOf[i] \in opsKeys',
         NotLockedOut'
  PROVE  IInv'
<1> DEFINE new == [leg[i] EXCEPT !.pc = pc]
<1>1. leg \in [Installs -> Legs] /\ leg[i] \in Legs
  BY LegFacts DEF IInv
<1>2. pc \in Pcs /\ pc \notin Waits /\ leg[i].pc \notin Waits
  BY DEF OnHost, Pcs, Fallible, Waits
<1>3. leg' = [leg EXCEPT ![i] = new]
  BY <1>1 DEF Goto
<1>4. /\ new \in Legs /\ new.pc = pc /\ new.tree = leg[i].tree /\ new.user = leg[i].user
      /\ new.kind = leg[i].kind /\ new.image = leg[i].image
  BY <1>1, <1>2 DEF Legs
<1> HIDE DEF new
<1>5. leg' \in [Installs -> Legs] /\ leg'[i] = new
      /\ \A j \in Installs : j # i => leg'[j] = leg[j]
  BY <1>1, <1>3, <1>4
<1>6. TypeOK'
  BY <1>2, <1>4, <1>5, InstallAssumption DEF IInv, TypeOK, Legs, Waits, staged
<1>7. NothingSent' /\ Unlinked'
  BY <1>2, <1>4, <1>5, NoLegFacts DEF IInv, NothingSent, Unlinked, staged, Waits, OnHost
<1>8. Staged' /\ FromTree'
  BY <1>4, <1>5 DEF IInv, Staged, FromTree, staged, OnHost
<1>9. OpsSession'
  BY <1>4, <1>5 DEF IInv, OpsSession
<1>10. TreeStands' /\ CurrentWhole'
  BY <1>4, <1>5 DEF IInv, TreeStands, CurrentWhole, staged
<1> QED
  BY <1>6, <1>7, <1>8, <1>9, <1>10 DEF IInv

(* The starter's steps, each with the one leg under the lock.              *)
LEMMA StarterStep ==
  ASSUME IInv, NEW i \in Installs,
         Acquire(i) \/ Fetch(i) \/ Unpack(i) \/ Link(i) \/ Sweep(i)
  PROVE  IInv'
<1> DEFINE new == leg'[i]
<1>1. leg \in [Installs -> Legs] /\ leg[i] \in Legs
      /\ \A j, k \in Installs : leg[j].pc \notin Waits /\ leg[k].pc \notin Waits => j = k
  BY LegFacts DEF IInv
<1>2. \A v \in Resolved(i) : v \in Images
  BY InstallAssumption DEF Resolved, IInv, TypeOK
<1>3. /\ new \in Legs
      /\ leg' = [leg EXCEPT ![i] = new]
      /\ new.tree = leg[i].tree /\ new.user = leg[i].user /\ new.kind = leg[i].kind
      /\ new.pc \in {"fetch", "unpack", "link", "sweep", "start"}
      /\ leg[i].pc \in {"queued", "fetch", "unpack", "link", "sweep"}
  BY <1>1, <1>2 DEF Acquire, Fetch, Unpack, Link, Sweep, Goto, Legs, Pcs, Fallible
<1>4. leg' \in [Installs -> Legs] /\ \A j \in Installs : j # i => leg'[j] = leg[j]
  BY <1>1, <1>3
<1>5. UNCHANGED <<inst, live, hostLock, logins, version>>
  BY DEF Acquire, Fetch, Unpack, Link, Sweep, locks
<1>6. \A j \in Installs : j # i /\ leg[i].pc # "queued" => leg[j].pc \in Waits
  BY <1>1, <1>3 DEF Waits
<1>7. leg[i].tree = NONE /\ inst[i] \notin {"new", "reconnect"}
  BY <1>3, NoLegFacts DEF IInv, FromTree, OnHost, NothingSent
<1>8. TypeOK'
  <2>1. (lock' = i) /\ \A j \in Installs : j # i => (lock' = j <=> leg'[j].pc \notin Waits)
    <3>1. CASE Acquire(i)
      BY <3>1, <1>4, InstallAssumption DEF Acquire, IInv, TypeOK, Waits
    <3>2. CASE Fetch(i) \/ Unpack(i) \/ Link(i) \/ Sweep(i)
      BY <3>2, <1>4, <1>6 DEF Fetch, Unpack, Link, Sweep, locks, IInv, TypeOK, Waits
    <3> QED
      BY <3>1, <3>2
  <2>2. trees' \in [Installs -> Images \cup {NONE, PART}] /\ current' \in Installs \cup {NONE}
    BY <1>1 DEF Acquire, Fetch, Unpack, Link, Sweep, staged, IInv, TypeOK, Staged
  <2>3. new.pc \notin Waits
    BY <1>3 DEF Waits
  <2> QED
    BY <1>3, <1>4, <1>5, <2>1, <2>2, <2>3 DEF IInv, TypeOK, Legs, Waits, logins, version
<1>9. NothingSent' /\ FromTree' /\ OpsSession' /\ NotLockedOut'
  BY <1>3, <1>4, <1>5, <1>7 DEF IInv, NothingSent, FromTree, OpsSession, NotLockedOut, logins
<1>10. Unlinked' /\ Staged' /\ CurrentWhole' /\ TreeStands'
  <2>1. CASE Acquire(i)
    BY <2>1, <1>1, <1>3, <1>4, <1>5, <1>7 DEF Acquire, Goto, IInv, Unlinked, Staged, CurrentWhole,
       TreeStands, staged
  <2>2. CASE Fetch(i)
    <3>1. /\ new.pc = "unpack" /\ new.image \in Images
          /\ leg[i].pc = "fetch" /\ current # i /\ current' = current
          /\ \A d \in Installs : d # i => trees'[d] = trees[d]
      <4>1. PICK v \in Images : leg' = [leg EXCEPT ![i].pc = "unpack", ![i].image = v]
        BY <2>2, <1>2 DEF Fetch
      <4>2. new.pc = "unpack" /\ new.image = v
        BY <4>1, <1>1 DEF Legs
      <4>3. leg[i].pc = "fetch" /\ trees' = [trees EXCEPT ![i] = PART] /\ current' = current
        BY <2>2 DEF Fetch
      <4> QED
        BY <4>2, <4>3 DEF IInv, TypeOK, Unlinked
    <3>2. \A j \in Installs : j # i => leg[j].pc \in Waits /\ leg[j].tree = NONE
      BY <3>1, <1>6 DEF IInv, FromTree, Waits, OnHost
    <3> QED
      BY <3>1, <3>2, <1>3, <1>4, <1>5, <1>7 DEF IInv, TypeOK, Unlinked, Staged, CurrentWhole,
         TreeStands, Waits
  <2>3. CASE Unpack(i)
    BY <2>3, <1>1, <1>3, <1>4, <1>5, <1>6, <1>7 DEF Unpack, Goto, IInv, TypeOK, Unlinked, Staged,
       CurrentWhole, TreeStands, FromTree, OnHost, Waits
  <2>4. CASE Link(i)
    BY <2>4, <1>1, <1>3, <1>4, <1>5, <1>6, <1>7 DEF Link, Goto, IInv, TypeOK, Unlinked, Staged,
       CurrentWhole, TreeStands, FromTree, OnHost, Waits
  <2>5. CASE Sweep(i)
    BY <2>5, <1>1, <1>3, <1>4, <1>5, <1>6, <1>7 DEF Sweep, Goto, IInv, TypeOK, Unlinked, Staged,
       CurrentWhole, TreeStands, FromTree, OnHost, Waits
  <2> QED
    BY <2>1, <2>2, <2>3, <2>4, <2>5
<1> QED
  BY <1>8, <1>9, <1>10 DEF IInv

(* Every step of a leg.                                                    *)
LEMMA LegStepKeeps ==
  ASSUME IInv, NEW i \in Installs, LegStep(i)
  PROVE  IInv'
<1>1. leg \in [Installs -> Legs] /\ leg[i] \in Legs
      /\ \A j, k \in Installs : leg[j].pc \notin Waits /\ leg[k].pc \notin Waits => j = k
  BY LegFacts DEF IInv
<1>2. KeyOf[i] \in Keys /\ opsKeys \subseteq Keys
  BY InstallAssumption DEF IInv, TypeOK
<1>3. CASE Acquire(i) \/ Fetch(i) \/ Unpack(i) \/ Link(i) \/ Sweep(i)
  BY <1>3, StarterStep
<1>4. CASE GiveUp(i) \/ Uninstall(i) \/ Fails(i)
  BY <1>2, <1>4, EndStep DEF GiveUp, Uninstall, Fails, Fallible, logins
<1>5. CASE Accounts(i)
  BY <1>2, <1>5, EndStep DEF Accounts
<1>6. CASE Validate(i)
  BY <1>2, <1>6, EndStep DEF Validate, logins
<1>7. CASE Start(i)
  <2>1. CASE End(i, 1)
    BY <1>2, <1>7, <2>1, EndStep DEF Start, logins
  <2>2. CASE ~End(i, 1)
    <3> DEFINE new == leg'[i]
    <3>1. /\ leg[i].pc = "start" /\ current # NONE /\ trees[current] \in Images
          /\ UNCHANGED <<inst, live, locks, staged, logins, version>>
          /\ leg' = [leg EXCEPT ![i].tree = current, ![i].image = trees[current],
                       ![i].pc = CASE leg[i].kind = "system" -> "proof"
                                   [] leg[i].kind = "accounts" -> "accounts"
                                   [] OTHER -> "uninstall"]
      BY <1>7, <2>2 DEF Start
    <3>2. /\ new \in Legs /\ leg' = [leg EXCEPT ![i] = new]
          /\ new.tree = current /\ new.image = trees[current] /\ new.user = leg[i].user
          /\ new.pc \in {"proof", "accounts", "uninstall"}
      BY <1>1, <3>1 DEF Legs, Pcs, Fallible, IInv, TypeOK
    <3>3. leg' \in [Installs -> Legs] /\ \A j \in Installs : j # i => leg'[j] = leg[j]
      BY <1>1, <3>2
    <3>4. TypeOK'
      BY <3>1, <3>2, <3>3 DEF IInv, TypeOK, Legs, locks, staged, logins, version
    <3>5. NothingSent' /\ Unlinked' /\ Staged'
      BY <3>1, <3>2, <3>3, NoLegFacts DEF IInv, NothingSent, Unlinked, Staged, staged
    <3>6. FromTree' /\ OpsSession' /\ NotLockedOut'
      BY <3>1, <3>2, <3>3 DEF IInv, FromTree, OnHost, OpsSession, NotLockedOut, logins
    <3>7. TreeStands' /\ CurrentWhole'
      BY <3>1, <3>2, <3>3 DEF IInv, TreeStands, CurrentWhole, staged
    <3> QED
      BY <3>4, <3>5, <3>6, <3>7 DEF IInv
  <2> QED
    BY <2>1, <2>2
<1>8. CASE Proof(i)
  <2>1. CASE End(i, 4)
    BY <1>2, <1>8, <2>1, EndStep DEF Proof, logins
  <2>2. CASE Goto(i, "baseline") /\ leg[i].user = "ops" /\ UNCHANGED locks
    BY <1>2, <1>8, <2>2, GotoStep DEF Proof, OnHost, IInv, TypeOK, NotLockedOut, logins, locks, version
  <2> QED
    BY <1>8, <2>1, <2>2 DEF Proof
<1>9. CASE Baseline(i)
  <2>1. leg[i].user = "ops" /\ leg[i].pc = "baseline"
    BY <1>9 DEF Baseline, IInv, OpsSession
  <2> QED
    BY <1>2, <1>9, <2>1, GotoStep DEF Baseline, OnHost, IInv, TypeOK, NotLockedOut, locks, version
<1>10. CASE Harden(i)
  <2>1. leg[i].pc = "harden" /\ opsOpens /\ KeyOf[i] \in opsKeys
    BY <1>10 DEF Harden, IInv, OpsSession
  <2> QED
    BY <1>2, <1>10, <2>1, GotoStep DEF Harden, OnHost, IInv, TypeOK, NotLockedOut, locks, version
<1>11. CASE HostLock(i)
  BY <1>2, <1>11, GotoStep DEF HostLock, OnHost, IInv, TypeOK, NotLockedOut, logins, version
<1>12. CASE Converge(i)
  BY <1>2, <1>12, GotoStep DEF Converge, OnHost, IInv, TypeOK, NotLockedOut, logins, locks
<1>13. CASE ConvergeEnds(i)
  <2>1. leg[i].image \in Images \cup {NONE}
    BY <1>1 DEF Legs
  <2> QED
    BY <1>2, <1>13, <2>1, GotoStep DEF ConvergeEnds, OnHost, IInv, TypeOK, NotLockedOut, logins
<1>14. CASE Pin(i)
  <2>1. leg[i].image \in Images \cup {NONE}
    BY <1>1 DEF Legs
  <2> QED
    BY <1>2, <1>14, <2>1, GotoStep DEF Pin, OnHost, IInv, TypeOK, NotLockedOut, logins, locks
<1> QED
  BY <1>3, <1>4, <1>5, <1>6, <1>7, <1>8, <1>9, <1>10, <1>11, <1>12, <1>13, <1>14 DEF LegStep

(* The invariant holds of a host before its first install.                 *)
LEMMA InitIInv == Init => IInv
<1> SUFFICES ASSUME Init PROVE IInv
  OBVIOUS
<1>1. leg \in [Installs -> Legs] /\ \A i \in Installs : leg[i] = NoLeg
  BY NoLegFacts DEF Init
<1>2. TypeOK
  BY <1>1, InstallAssumption, NoLegFacts DEF Init, TypeOK, Legs
<1> QED
  BY <1>1, <1>2, InstallAssumption, NoLegFacts DEF Init, IInv, NothingSent, Unlinked, Staged,
     FromTree, OpsSession, TreeStands, CurrentWhole, NotLockedOut

(* Every step of every install and lane keeps the invariant.               *)
LEMMA NextIInv == IInv /\ [Next]_vars => IInv'
<1> SUFFICES ASSUME IInv, [Next]_vars PROVE IInv'
  OBVIOUS
<1>1. leg \in [Installs -> Legs]
  BY LegFacts DEF IInv
<1>2. ASSUME NEW i \in Installs, Login(i) PROVE IInv'
  <2>1. leg[i] = NoLeg /\ current # i
    BY <1>2 DEF Login, IInv, NothingSent, Unlinked
  <2>2. providerKeys' \subseteq Keys
    BY <1>2, InstallAssumption DEF Login, IInv, TypeOK
  <2>3. CASE UNCHANGED <<leg, live>> /\ inst' = [inst EXCEPT ![i] = "over"]
    BY <1>2, <2>2, <2>3 DEF Login, IInv, TypeOK, NothingSent, Unlinked, Staged, FromTree, OpsSession,
       TreeStands, CurrentWhole, NotLockedOut, locks, staged, version
  <2>4. CASE /\ Queue(i, "accounts", IF OpsLogin(i) THEN "ops" ELSE "provider")
             /\ inst' = [inst EXCEPT ![i] = "accounts"]
    <3>1. CASE OpsLogin(i)
      BY <1>2, <2>1, <2>2, <2>4, <3>1, QueueStep DEF Login, OpsLogin
    <3>2. CASE ~OpsLogin(i)
      BY <1>2, <2>1, <2>2, <2>4, <3>2, QueueStep DEF Login
    <3> QED
      BY <3>1, <3>2
  <2> QED
    BY <1>2, <2>3, <2>4 DEF Login
<1>3. ASSUME NEW i \in Installs, LoginToUninstall(i) PROVE IInv'
  <2>1. leg[i] = NoLeg /\ current # i
    BY <1>3 DEF LoginToUninstall, IInv, NothingSent, Unlinked
  <2> QED
    BY <1>3, <2>1, QueueStep DEF LoginToUninstall, OpsLogin, server, logins, locks, staged, version,
       IInv, TypeOK
<1>4. ASSUME NEW i \in Installs, AfterAccounts(i) \/ AfterLast(i) PROVE IInv'
  <2>1. /\ leg' = [leg EXCEPT ![i] = NoLeg] /\ leg[i].pc = "ended" /\ live' = live \ {i}
        /\ \E to \in {"reconnect", "over"} : inst' = [inst EXCEPT ![i] = to]
        /\ UNCHANGED <<locks, staged, logins, version>>
    BY <1>4 DEF AfterAccounts, AfterLast, server
  <2>2. leg' \in [Installs -> Legs] /\ leg'[i] = NoLeg
        /\ \A j \in Installs : j # i => leg'[j] = leg[j]
    BY <1>1, <2>1, NoLegFacts
  <2>3. TypeOK'
    BY <2>1, <2>2, NoLegFacts DEF IInv, TypeOK, Legs, locks, staged, logins, version
  <2>4. NothingSent' /\ Unlinked' /\ Staged' /\ FromTree'
    BY <2>1, <2>2, NoLegFacts DEF IInv, TypeOK, NothingSent, Unlinked, Staged, FromTree, staged
  <2>5. OpsSession' /\ TreeStands' /\ CurrentWhole' /\ NotLockedOut'
    BY <2>1, <2>2, NoLegFacts DEF IInv, OpsSession, TreeStands, CurrentWhole, NotLockedOut, staged, logins
  <2> QED
    BY <2>3, <2>4, <2>5 DEF IInv
<1>5. ASSUME NEW i \in Installs, Reconnect(i) PROVE IInv'
  <2>1. CASE OpsLogin(i) /\ Queue(i, "system", "ops") /\ inst' = [inst EXCEPT ![i] = "system"]
    BY <1>5, <2>1, QueueStep DEF Reconnect, OpsLogin, server, logins, locks, staged, version, IInv,
       TypeOK, NothingSent
  <2>2. CASE inst' = [inst EXCEPT ![i] = "over"] /\ UNCHANGED <<leg, live>>
    BY <1>5, <2>2 DEF Reconnect, server, logins, locks, staged, version, IInv, TypeOK, NothingSent,
       Unlinked, Staged, FromTree, OpsSession, TreeStands, CurrentWhole, NotLockedOut
  <2> QED
    BY <1>5, <2>1, <2>2 DEF Reconnect
<1>6. ASSUME NEW i \in Installs, SystemByHand(i) PROVE IInv'
  BY <1>6, QueueStep DEF SystemByHand, server, logins, locks, staged, version, IInv, TypeOK, NothingSent
<1>7. ASSUME NEW i \in Installs, Drop(i) PROVE IInv'
  BY <1>7 DEF Drop, server, logins, locks, staged, version, IInv, TypeOK, NothingSent, Unlinked,
     Staged, FromTree, OpsSession, TreeStands, CurrentWhole, NotLockedOut
<1>8. CASE Reboot
  <2>1. leg' = [i \in Installs |-> NoLeg] /\ leg' \in [Installs -> Legs]
    BY <1>8, NoLegFacts DEF Reboot
  <2>2. TypeOK'
    BY <1>8, <2>1, NoLegFacts, InstallAssumption DEF Reboot, IInv, TypeOK, Legs, staged, logins, version
  <2> QED
    BY <1>8, <2>1, <2>2, NoLegFacts DEF Reboot, IInv, TypeOK, NothingSent, Unlinked, Staged, FromTree,
       OpsSession, TreeStands, CurrentWhole, NotLockedOut, staged, logins
<1>9. ASSUME NEW v \in Images, LaneUpdate(v) PROVE IInv'
  BY <1>9 DEF LaneUpdate, logins, locks, staged, IInv, TypeOK, NothingSent, Unlinked,
     Staged, FromTree, OpsSession, TreeStands, CurrentWhole, NotLockedOut
<1>10. ASSUME NEW k \in Keys, AddKey(k) \/ RemoveKey(k) PROVE IInv'
  BY <1>10 DEF AddKey, RemoveKey, locks, staged, version, IInv, TypeOK, NothingSent, Unlinked,
     Staged, FromTree, OpsSession, TreeStands, CurrentWhole, NotLockedOut
<1>11. CASE UNCHANGED vars
  BY <1>11 DEF vars, server, logins, locks, staged, version, IInv, TypeOK, NothingSent, Unlinked,
     Staged, FromTree, OpsSession, TreeStands, CurrentWhole, NotLockedOut
<1> QED
  BY <1>2, <1>3, <1>4, <1>5, <1>6, <1>7, <1>8, <1>9, <1>10, <1>11, LegStepKeeps DEF Next, Machine

(* A step that moves no leg to its pin, and no version, keeps what the     *)
(* version's records say.                                                  *)
LEMMA PinFrame ==
  ASSUME PinInv, UNCHANGED version,
         \A j \in Installs : leg'[j].pc = "pin" => leg'[j] = leg[j]
  PROVE  PinInv'
  BY DEF PinInv, Converged, PinWasApplied, version

(* Every step, the lane's in the moment before a leg's pin included.       *)
LEMMA PinStep ==
  ASSUME IInv, PinInv, [Next]_vars
  PROVE  PinInv'
<1>1. leg \in [Installs -> Legs]
      /\ \A j, k \in Installs : leg[j].pc \notin Waits /\ leg[k].pc \notin Waits => j = k
  BY LegFacts DEF IInv
<1>2. ASSUME NEW i \in Installs, NEW rc \in {0, 1, 3, 4}, End(i, rc), UNCHANGED version
      PROVE  PinInv'
  <2> DEFINE over == [NoLeg EXCEPT !.pc = "ended", !.rc = rc]
  <2>1. over.pc = "ended" /\ leg' = [leg EXCEPT ![i] = over]
    BY <1>2, NoLegFacts DEF End
  <2> HIDE DEF over
  <2> QED
    BY <1>1, <1>2, <2>1, PinFrame
<1>3. ASSUME NEW i \in Installs, NEW pc \in Pcs \ {"pin"}, Goto(i, pc), UNCHANGED version
      PROVE  PinInv'
  <2>1. leg'[i].pc = pc /\ \A j \in Installs : j # i => leg'[j] = leg[j]
    BY <1>1, <1>3 DEF Goto, Legs
  <2> QED
    BY <1>3, <2>1, PinFrame
<1>4. ASSUME NEW i \in Installs, NEW kind, NEW user, Queue(i, kind, user), UNCHANGED version
      PROVE  PinInv'
  <2>1. PICK t : leg' = [leg EXCEPT ![i] = [NoLeg EXCEPT !.kind = kind, !.pc = "queued",
                                                         !.user = user, !.tags = t]]
    BY <1>4 DEF Queue
  <2>2. leg'[i].pc = "queued" /\ \A j \in Installs : j # i => leg'[j] = leg[j]
    BY <1>1, <2>1 DEF NoLeg
  <2> QED
    BY <1>4, <2>2, PinFrame
<1>5. ASSUME NEW i \in Installs, Machine(i) \/ SystemByHand(i) \/ Drop(i) PROVE PinInv'
  <2>1. UNCHANGED version
    BY <1>5 DEF Machine, Login, LoginToUninstall, AfterAccounts, Reconnect, AfterLast, SystemByHand,
       Drop, server
  <2>2. \/ \E kind \in {"accounts", "system", "uninstall"}, user \in {"ops", "provider"} : Queue(i, kind, user)
        \/ UNCHANGED leg
        \/ leg' = [leg EXCEPT ![i] = NoLeg]
    BY <1>5 DEF Machine, Login, LoginToUninstall, AfterAccounts, Reconnect, AfterLast, SystemByHand, Drop
  <2>3. CASE UNCHANGED leg
    BY <2>1, <2>3, PinFrame
  <2>4. CASE leg' = [leg EXCEPT ![i] = NoLeg]
    BY <1>1, <2>1, <2>4, NoLegFacts, PinFrame
  <2> QED
    BY <1>4, <2>1, <2>2, <2>3, <2>4
<1>6. ASSUME NEW i \in Installs, LegStep(i) PROVE PinInv'
  <2>1. CASE GiveUp(i) \/ Accounts(i) \/ Uninstall(i) \/ Validate(i) \/ Fails(i)
    BY <1>2, <2>1 DEF GiveUp, Accounts, Uninstall, Validate, Fails
  <2>2. CASE Acquire(i) \/ Unpack(i) \/ Link(i) \/ Sweep(i) \/ Baseline(i) \/ Harden(i) \/ HostLock(i)
    BY <1>3, <2>2 DEF Acquire, Unpack, Link, Sweep, Baseline, Harden, HostLock, Pcs, Fallible
  <2>3. CASE Proof(i)
    BY <1>2, <1>3, <2>3 DEF Proof, Pcs, Fallible
  <2>4. CASE Fetch(i)
    <3>1. leg'[i].pc = "unpack" /\ (\A j \in Installs : j # i => leg'[j] = leg[j]) /\ UNCHANGED version
      BY <1>1, <2>4 DEF Fetch, Legs
    <3> QED
      BY <3>1, PinFrame
  <2>5. CASE Start(i)
    <3>1. CASE End(i, 1)
      BY <1>2, <2>5, <3>1 DEF Start
    <3>2. CASE ~End(i, 1)
      <4>1. /\ leg'[i].pc \in {"proof", "accounts", "uninstall"}
            /\ (\A j \in Installs : j # i => leg'[j] = leg[j]) /\ UNCHANGED version
        BY <1>1, <2>5, <3>2 DEF Start, Legs
      <4> QED
        BY <4>1, PinFrame
    <3> QED
      BY <3>1, <3>2
  <2>6. ASSUME leg[i].pc \notin Waits, NEW j \in Installs, j # i, leg'[j] = leg[j]
        PROVE  leg'[j].pc # "pin"
    BY <1>1, <2>6 DEF Waits
  <2>7. CASE Converge(i)
    <3>1. leg[i].pc \notin Waits /\ leg'[i].pc = "converging" /\ UNCHANGED <<pin, applied>>
          /\ \A j \in Installs : j # i => leg'[j] = leg[j]
      BY <1>1, <2>7 DEF Converge, Goto, Legs, Waits
    <3> QED
      BY <2>6, <3>1 DEF PinInv, Converged, PinWasApplied
  <2>8. CASE ConvergeEnds(i)
    <3>1. /\ leg[i].pc \notin Waits /\ leg'[i].pc = IF leg[i].tags THEN "validate" ELSE "pin"
          /\ leg'[i].tags = leg[i].tags /\ leg'[i].image = leg[i].image
          /\ \A j \in Installs : j # i => leg'[j] = leg[j]
      BY <1>1, <2>8 DEF ConvergeEnds, Goto, Legs, Waits
    <3> QED
      BY <2>6, <2>8, <3>1 DEF ConvergeEnds, PinInv, Converged, PinWasApplied
  <2>9. CASE Pin(i)
    <3>1. /\ leg[i].pc = "pin" /\ leg[i].pc \notin Waits /\ leg'[i].pc = "validate"
          /\ pin' = leg[i].image /\ applied' = applied
          /\ \A j \in Installs : j # i => leg'[j] = leg[j]
      BY <1>1, <2>9 DEF Pin, Goto, Legs, Waits
    <3> QED
      BY <2>6, <3>1 DEF PinInv, Converged, PinWasApplied
  <2> QED
    BY <1>6, <2>1, <2>2, <2>3, <2>4, <2>5, <2>7, <2>8, <2>9 DEF LegStep
<1>7. CASE Reboot
  <2>1. \A j \in Installs : leg'[j].pc = "none"
    BY <1>7, NoLegFacts DEF Reboot
  <2> QED
    BY <1>7, <2>1, PinFrame DEF Reboot
<1>8. ASSUME NEW v \in Images, LaneUpdate(v) PROVE PinInv'
  BY <1>8 DEF LaneUpdate, PinInv, Converged, PinWasApplied
<1>9. CASE \/ \E k \in Keys : AddKey(k) \/ RemoveKey(k)
           \/ UNCHANGED vars
  BY <1>9, PinFrame DEF AddKey, RemoveKey, vars, server
<1> QED
  BY <1>5, <1>6, <1>7, <1>8, <1>9 DEF Next

-----------------------------------------------------------------------------
(* starter.sh keeps its promise for any number of installs, drops, reruns  *)
(* and reboots: a leg's tree stays whole and current while it runs.        *)
THEOREM TreesKept == Spec => []TreeStands
<1>1. IInv => TreeStands
  BY DEF IInv
<1> QED
  BY <1>1, InitIInv, NextIInv, PTL DEF Spec

(* Whatever fetch failed or was cut short, current names a whole tree, so  *)
(* a leg sent with --no-fetch finds one (starter.sh:58-70).                *)
THEOREM CurrentIsWhole == Spec => []CurrentWhole
<1>1. IInv => CurrentWhole
  BY DEF IInv
<1> QED
  BY <1>1, InitIInv, NextIInv, PTL DEF Spec

(* The hardening of bootstrap/roles/common never takes the last way in,    *)
(* whoever sent the leg and through whatever login, and whichever keys     *)
(* come and go before it.                                                  *)
THEOREM NeverLockedOut == Spec => []NotLockedOut
<1>1. IInv => NotLockedOut
  BY DEF IInv
<1> QED
  BY <1>1, InitIInv, NextIInv, PTL DEF Spec

(* A rerun without --image never fetches a version this server was moved   *)
(* to only in part (install-host.sh:230-235), wherever the panel's lane    *)
(* runs beside the leg: what the pin names was applied whole.              *)
THEOREM PinIsApplied == Spec => []PinWasApplied
<1>1. Init => PinInv
  BY NoLegFacts DEF Init, PinInv, Converged, PinWasApplied
<1>2. IInv /\ PinInv /\ [Next]_vars => PinInv'
  BY PinStep
<1>3. PinInv => PinWasApplied
  BY DEF PinInv
<1> QED
  BY <1>1, <1>2, <1>3, InitIInv, NextIInv, PTL DEF Spec

(* One leg at a time is past the starter's flock, and every variable keeps *)
(* its range.                                                              *)
THEOREM InstallTypes == Spec => []TypeOK
<1>1. IInv => TypeOK
  BY DEF IInv
<1> QED
  BY <1>1, InitIInv, NextIInv, PTL DEF Spec
=============================================================================
