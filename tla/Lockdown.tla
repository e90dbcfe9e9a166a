------------------------------ MODULE Lockdown ------------------------------
(***************************************************************************)
(* The panel's access runs (playbooks/lockdown.yml): join the tailnet,     *)
(* prove that SSH reaches this host over it, and only then take public     *)
(* port 22 away, or put it back; and the port reconciler, which follows    *)
(* the declared scope of port 22 on its timer and reopens the port while   *)
(* the tailnet is down.  The tailnet changes at any time, and a run may    *)
(* fail or be killed between any two tasks.                                *)
(*                                                                         *)
(* The check is helpers/tailnet_reachability.py (see Reachability).  One   *)
(* user chain stands for ufw's, in the firewall of every address family.   *)
(***************************************************************************)
EXTENDS Reachability

CONSTANTS
    Frames,      \* the chains around ufw's user chain a host can have
    UserRules,   \* the user chains a host can have before the first run
    Own,         \* this host's tailnet addresses
    Tags,        \* this host's tags
    Family,      \* 4 or 6, of every address
    Nets,        \* the states of the tailnet
    ATTEMPTS,
    MaxRuns, MaxChanges    \* bounds

Opt(o, a) == [opt |-> o, arg |-> a, not |-> FALSE]
Ssh == {Opt("p", {"tcp"}), Opt("dport", {22})}
Rule(conds) == [conds |-> conds, goto |-> FALSE, target |-> "ACCEPT"]

PublicSsh  == Rule(Ssh)
TailnetSsh == Rule(Ssh \cup {Opt("i", {"tailscale0"})})
BridgeSsh  == Rule(Ssh \cup {Opt("s", {"bridge"})})

(* ufw allow appends a rule it does not have, ufw delete takes it out.     *)
In(rules, r) == \E i \in DOMAIN rules : rules[i] = r
Allow(rules, r) == IF In(rules, r) THEN rules ELSE Append(rules, r)
Delete(rules, r) ==
    LET i == CHOOSE i \in DOMAIN rules : rules[i] = r
    IN  IF In(rules, r) THEN SubSeq(rules, 1, i - 1) \o SubSeq(rules, i + 1, Len(rules)) ELSE rules

(* The families this host has an address of, and its addresses of one.     *)
Families == {Family[a] : a \in Own}
OwnIn(f) == {a \in Own : Family[a] = f}

(* Before the first run ufw lets SSH in from anywhere, and ufw holds a     *)
(* rule once; the longest chain has room for the rules of a run.           *)
ASSUME LockdownAssumption ==
    /\ ATTEMPTS \in Nat \ {0} /\ MaxRuns \in Nat /\ MaxChanges \in Nat
    /\ \A n \in Nets : n.answers \subseteq n.online
    /\ \A a \in Own : Family[a] \in {4, 6}
    /\ \A u \in UserRules :
          /\ u \in Seq({u[i] : i \in DOMAIN u}) /\ In(u, PublicSsh)
          /\ \A i, j \in DOMAIN u : u[i] = u[j] => i = j
          /\ Len(u) + 2 <= MaxRules
    /\ \A fr \in Frames, f \in Families : IsRuleset(fr[f]) /\ "user" \in DOMAIN fr[f].rules

VARIABLES
    frame,     \* the rest of the firewall
    user,      \* ufw's rules, in order
    declared,  \* the scope port 22's fragment declares: "any" or "private"
    net,       \* the tailnet now
    changes,
    run,       \* the run in progress
    recon,     \* the reconciler in flight: what it decided of the public rule
    proved,    \* auxiliary: this run's check passed, and the tailnet has
               \* stood still since its last attempt began
    asked      \* auxiliary: what the last run asked for, once it ended ok

lockVars == <<frame, user, declared, net, changes, run, recon, proved, asked>>

PublicOpen == In(user, PublicSsh)
Firewall(f, rules) ==
    [rules |-> [frame[f].rules EXCEPT !["user"] = rules], policy |-> frame[f].policy]

NoRun == [pc |-> "idle", close |-> FALSE, open |-> FALSE, tailnet |-> FALSE, tries |-> 0,
          peers |-> {}, n |-> 0]

LockInit ==
    /\ frame \in Frames /\ user \in UserRules
    /\ declared = "any"
    /\ net \in Nets /\ changes = 0
    /\ run = NoRun /\ recon = "idle"
    /\ proved = "no" /\ asked = "nothing"

Continue(pc) == run' = [run EXCEPT !.pc = pc]
Over(ok) ==
    /\ run' = [NoRun EXCEPT !.n = run.n]
    /\ asked' = IF ok THEN IF run.close /\ run.tailnet THEN "close"
                           ELSE IF run.open \/ ~run.tailnet THEN "open" ELSE "nothing"
                ELSE "nothing"
    /\ UNCHANGED proved
firewall == <<frame, user, declared>>
aux == <<proved, asked>>

-----------------------------------------------------------------------------
(* The panel applies the chosen access.  Both decisions in one run are     *)
(* refused before anything else.                                           *)
Apply(close, open, tailnet) ==
    /\ run.pc = "idle" /\ run.n < MaxRuns
    /\ run' = [NoRun EXCEPT !.n = run.n + 1, !.close = close, !.open = open, !.tailnet = tailnet,
                            !.pc = IF close /\ open THEN "idle"
                                   ELSE IF tailnet THEN "join" ELSE "open"]
    /\ proved' = "no" /\ asked' = "nothing"
    /\ UNCHANGED <<firewall, net, changes, recon>>

(* The role tailscale: the node is Running when it ends, or it failed.     *)
Join ==
    /\ run.pc = "join" /\ net.running
    /\ Continue(IF run.close THEN "ask" ELSE "lock")
    /\ UNCHANGED <<firewall, net, changes, recon, aux>>

(* An attempt asks the control server (local_status, *_control).           *)
AskControl ==
    /\ run.pc = "ask"
    /\ run' = [run EXCEPT !.tries = @ + 1,
                          !.pc = IF net.running /\ net.seen THEN "ping"
                                 ELSE IF run.tries + 1 < ATTEMPTS THEN "ask" ELSE "refused",
                          !.peers = EligiblePeers(net.online, Tags, Family)]
    /\ proved' = "asking"
    /\ UNCHANGED <<firewall, net, changes, recon, asked>>

(* The peers are the ones the attempt's status named (ping_a_peer).        *)
Ping ==
    /\ run.pc = "ping"
    /\ Continue(IF net.running /\ run.peers \cap net.answers # {} THEN "policy"
                ELSE IF run.tries < ATTEMPTS THEN "ask" ELSE "refused")
    /\ UNCHANGED <<firewall, net, changes, recon, aux>>

(* MUTANT: a server like this one counts as a device to log in from.       *)
PolicySiblings ==
    /\ run.pc = "policy"
    /\ Continue(IF PolicyLets(net.policy, net.online, Own, Family) THEN "walk" ELSE "refused")
    /\ UNCHANGED <<firewall, net, changes, recon, aux>>

(* Once, after the tailnet answered.                                       *)
Policy ==
    /\ run.pc = "policy"
    /\ Continue(IF PolicyLets(net.policy, run.peers, Own, Family) THEN "walk" ELSE "refused")
    /\ UNCHANGED <<firewall, net, changes, recon, aux>>

(* firewall_reasons, in each family this host has an address of.           *)
WalkFirewall ==
    /\ run.pc = "walk"
    /\ LET ok == Own # {} /\ \A f \in Families : Walk(Firewall(f, user), OwnIn(f))
       IN  /\ Continue(IF ok THEN "lock" ELSE "refused")
           /\ proved' = IF ok /\ proved = "asking" THEN "yes" ELSE "no"
    /\ UNCHANGED <<firewall, net, changes, recon, asked>>

(* reachable.yml's assert: the play ends with 22 as it was.                *)
Refused == run.pc = "refused" /\ Over(FALSE) /\ UNCHANGED <<firewall, net, changes, recon>>

-----------------------------------------------------------------------------
(* ufw_lockdown.yml, task by task.                                         *)
Lock ==
    /\ run.pc = "lock"
    /\ Continue(IF run.open THEN "open" ELSE "interface")
    /\ UNCHANGED <<firewall, net, changes, recon, aux>>

AllowPublic ==
    /\ run.pc = "open"
    /\ user' = Allow(user, PublicSsh)
    /\ Continue("declare open")
    /\ UNCHANGED <<frame, declared, net, changes, recon, aux>>

Declare(scope, next) ==
    /\ declared' = scope
    /\ Continue(IF declared # scope THEN "restart" ELSE next)
    /\ UNCHANGED <<frame, user, net, changes, recon, aux>>

(* MUTANT: the port is opened and its declaration is left.                 *)
DeclareOpenSkipped ==
    /\ run.pc = "declare open"
    /\ Continue(IF run.tailnet THEN "interface" ELSE "done")
    /\ UNCHANGED <<firewall, net, changes, recon, aux>>

DeclareOpen ==
    /\ run.pc = "declare open"
    /\ Declare("any", IF run.tailnet THEN "interface" ELSE "done")

(* The reconciler is restarted: a run in flight ends, and one that reads   *)
(* the new declaration runs to its end.                                    *)
Wanted == declared = "any" \/ ~net.running
Reconciled(want) == IF want THEN Allow(user, PublicSsh) ELSE Delete(user, PublicSsh)

Restart ==
    /\ run.pc = "restart"
    /\ recon' = "idle" /\ user' = Reconciled(Wanted)
    /\ Continue(IF run.close \/ ~run.tailnet THEN "done" ELSE "interface")
    /\ UNCHANGED <<frame, declared, net, changes, aux>>

(* tailscale0 is up and has an address.                                    *)
Interface ==
    /\ run.pc = "interface" /\ net.running
    /\ Continue("allow tailnet")
    /\ UNCHANGED <<firewall, net, changes, recon, aux>>

(* MUTANT: a closing run skips the rule of the tailnet's interface.        *)
AllowTailnetSkipped ==
    /\ run.pc = "allow tailnet"
    /\ user' = IF run.close THEN user ELSE Allow(user, TailnetSsh)
    /\ Continue("allow bridges")
    /\ UNCHANGED <<frame, declared, net, changes, recon, aux>>

AllowTailnet ==
    /\ run.pc = "allow tailnet"
    /\ user' = Allow(user, TailnetSsh)
    /\ Continue("allow bridges")
    /\ UNCHANGED <<frame, declared, net, changes, recon, aux>>

AllowBridges ==
    /\ run.pc = "allow bridges"
    /\ user' = Allow(user, BridgeSsh)
    /\ Continue(IF run.close THEN "close" ELSE "done")
    /\ UNCHANGED <<frame, declared, net, changes, recon, aux>>

RemovePublic ==
    /\ run.pc = "close"
    /\ user' = Delete(user, PublicSsh)
    /\ Continue("declare private")
    /\ UNCHANGED <<frame, declared, net, changes, recon, aux>>

DeclarePrivate == run.pc = "declare private" /\ Declare("private", "done")

(* A closing run over the tailnet ends with an assert, which asks for the  *)
(* tailscale0 rule alone: "22/tcp" may be in ufw's status when             *)
(* "tailscale0" is.                                                        *)
Done ==
    /\ run.pc = "done"
    /\ Over(run.close /\ run.tailnet => In(user, TailnetSsh))
    /\ UNCHANGED <<firewall, net, changes, recon>>

(* A task fails, or the run is killed.                                     *)
Fail ==
    /\ run.pc # "idle"
    /\ Over(FALSE)
    /\ UNCHANGED <<firewall, net, changes, recon>>

-----------------------------------------------------------------------------
(* The reconciler's timer fires: it reads, and then it applies.            *)
Fire ==
    /\ recon = "idle"
    /\ recon' = IF Wanted THEN "open" ELSE "close"
    /\ UNCHANGED <<firewall, net, changes, run, aux>>

Reconcile ==
    /\ recon # "idle"
    /\ user' = Reconciled(recon = "open")
    /\ recon' = "idle"
    /\ UNCHANGED <<frame, declared, net, changes, run, aux>>

NetChange ==
    /\ changes < MaxChanges /\ changes' = changes + 1
    /\ net' \in Nets \ {net}
    /\ proved' = "no"
    /\ UNCHANGED <<firewall, run, recon, asked>>

Play ==
    \/ Join \/ AskControl \/ Ping \/ Policy \/ WalkFirewall \/ Refused
    \/ Lock \/ AllowPublic \/ DeclareOpen \/ Restart \/ Interface
    \/ AllowTailnet \/ AllowBridges \/ RemovePublic \/ DeclarePrivate \/ Done \/ Fail

LockNext ==
    \/ \E close, open, tailnet \in BOOLEAN : Apply(close, open, tailnet)
    \/ Play \/ Fire \/ Reconcile \/ NetChange

(* A play's tasks end, with an answer or a failure, and the reconciler's   *)
(* timer goes on firing.                                                   *)
LockSpec ==
    /\ LockInit /\ [][LockNext]_lockVars
    /\ WF_lockVars(Play) /\ WF_lockVars(Fire) /\ WF_lockVars(Reconcile)

-----------------------------------------------------------------------------
HasTailnetRule == In(user, TailnetSsh)

(* What the walk leaves open.  It passes over a rule it cannot decide that *)
(* returns or goes to another chain, which a kernel may follow.  Only the  *)
(* rules the packet may meet count: those of the chains it may be sent     *)
(* through, in front of the first that surely ends its chain.              *)
EndsChain(r, own) == RuleMatches(r, own) = "yes" /\ r.target \in {"ACCEPT", "DROP", "RETURN"}
Met(rules, own, i) == \A j \in 1..Len(rules) : j < i => ~EndsChain(rules[j], own)

Followed(r, own, chains, met) ==
    /\ RuleMatches(r, own) = "unknown" => r.target # "RETURN" /\ (r.target \in chains => ~r.goto)
    /\ RuleMatches(r, own) # "no" /\ r.target \in chains => r.target \in met

NothingPassedOver ==
    \A fr \in Frames, f \in Families : \E met \in SUBSET DOMAIN fr[f].rules :
        LET chains == DOMAIN fr[f].rules
        IN  /\ \A k \in 1..Len(Inbound) : Inbound[k] \in met
            /\ \A c \in met, i \in 1..MaxRules :
                  i <= Len(fr[f].rules[c]) /\ Met(fr[f].rules[c], OwnIn(f), i) =>
                      Followed(fr[f].rules[c][i], OwnIn(f), chains, met)
            /\ \A u \in UserRules : \A i \in DOMAIN u : Followed(u[i], OwnIn(f), chains, met)

(* And it ends at a rule that lets SSH in, before what the administrator   *)
(* put behind: a rule there that may keep the packet out is met once the   *)
(* public rule is gone.                                                    *)
LetsOn(r) ==
    \A fr \in Frames, f \in Families :
        \/ RuleMatches(r, OwnIn(f)) = "no"
        \/ r.target \notin (DOMAIN fr[f].rules) \cup {"DROP", "RETURN"}

NothingBehind ==
    \A u \in UserRules : \A i, j \in DOMAIN u :
        u[i] \in {PublicSsh, TailnetSsh} /\ i < j => LetsOn(u[j])

(* Types, and the check's attempts within ATTEMPTS.                         *)
LockTypeOK ==
    /\ frame \in Frames /\ declared \in {"any", "private"} /\ net \in Nets
    /\ Len(user) <= MaxRules
    /\ recon \in {"idle", "open", "close"} /\ run.tries <= ATTEMPTS
    /\ proved \in {"no", "asking", "yes"} /\ asked \in {"nothing", "open", "close"}

(* "A condition the walk cannot decide never counts as accepting the       *)
(* packet" (walk_inbound): when it reports nothing, the kernel lets SSH in *)
(* on tailscale0, whatever the rules it could not decide do.               *)
WalkSound ==
    \A f \in Families :
        Walk(Firewall(f, user), OwnIn(f)) => KernelAccepts(Firewall(f, user), OwnIn(f))

(* "You stay reachable" (ufw_lockdown.yml, of "the one task file that can  *)
(* lock everybody out"): once this run's check passed, and while the       *)
(* tailnet is as the check found it, SSH gets in over it without the       *)
(* public rule the check itself may have gone through.                     *)
ProofHolds ==
    proved = "yes" /\ ~PublicOpen =>
        /\ net.running /\ net.seen
        /\ PolicyLets(net.policy, EligiblePeers(net.online, Tags, Family), Own, Family)
        /\ \A f \in Families : KernelAccepts(Firewall(f, user), OwnIn(f))

(* Wherever a run stopped, and whatever the reconciler did since: the      *)
(* public rule is gone, or is declared to go, only where the tailnet's own *)
(* rule is in.                                                             *)
ClosedHasTailnetRule == ~PublicOpen \/ declared = "private" => HasTailnetRule

(* "The reconciler keeps the port open on every later timer fire", and     *)
(* "reopens 22 while the tailnet is down and closes it again when it is    *)
(* back" (ufw_lockdown.yml): in the end, port 22 is what the last run that *)
(* ended well asked for, through every crash of the runs before it.        *)
AnswerStands ==
    /\ <>[](asked = "open" => PublicOpen)
    /\ <>[](asked = "close" => PublicOpen <=> ~net.running)
=============================================================================
