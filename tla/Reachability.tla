---------------------------- MODULE Reachability ----------------------------
(***************************************************************************)
(* What helpers/tailnet_reachability.py asks before public port 22 closes: *)
(* whether the tailnet's packet filter and this host's own firewall let    *)
(* SSH in over tailscale0, read from the rules, without sending a packet.  *)
(*                                                                         *)
(* An option of a firewall rule is [opt, arg, not], arg the set of what it *)
(* names.  A ruleset is [rules, policy]: the rules of every chain of every *)
(* table, and the policy of the built-in ones a packet for this host goes  *)
(* through, in Inbound's order.                                            *)
(***************************************************************************)
EXTENDS Integers, Sequences

CONSTANTS
    Inbound,     \* _INBOUND: the built-in chains, in kernel order, filter last
    MaxDepth,    \* 30: how deep the walk follows jumps
    MaxRules     \* bound: the longest chain

ASSUME ReachabilityAssumption == MaxDepth \in Nat /\ MaxRules \in Nat

(* What iptables-save can print (parse_ruleset): no chain has a verdict's  *)
(* name, and the built-in chains have a policy.  A table that is not       *)
(* loaded, which the walk passes over, has empty ones that accept.         *)
IsRuleset(set) ==
    /\ (DOMAIN set.rules) \cap {"ACCEPT", "DROP", "RETURN"} = {}
    /\ \A c \in DOMAIN set.rules : Len(set.rules[c]) \in 0..MaxRules
    /\ \A k \in 1..Len(Inbound) :
          Inbound[k] \in DOMAIN set.rules /\ set.policy[Inbound[k]] \in {"ACCEPT", "DROP"}

SshPacket(own) ==
    [i |-> {"tailscale0"}, p |-> {"tcp", "all"}, d |-> own, dport |-> {22}, ctstate |-> {"NEW"}]

(* One option of a rule against the packet, where this walk can tell.      *)
Told(c, own) ==
    LET packet == SshPacket(own)
    IN  IF c.opt \in DOMAIN packet THEN IF c.arg \cap packet[c.opt] # {} THEN "yes" ELSE "no"
        ELSE IF c.opt = "dst-type" /\ c.arg = {"LOCAL"} THEN "yes"
        ELSE "unknown"

Negated(told) == CASE told = "yes" -> "no" [] told = "no" -> "yes" [] told = "unknown" -> "unknown"

Verdicts(r, own) == {IF c.not THEN Negated(Told(c, own)) ELSE Told(c, own) : c \in r.conds}

(* MUTANT: an option nobody can tell is taken to hold.                     *)
RuleMatchesHopeful(r, own) == IF "no" \in Verdicts(r, own) THEN "no" ELSE "yes"

(* rule_matches: every option holds, one does not, or nobody can tell.     *)
RuleMatches(r, own) ==
    LET told == Verdicts(r, own)
    IN  IF "no" \in told THEN "no" ELSE IF "unknown" \in told THEN "unknown" ELSE "yes"

(* Where a walk can stand: how deep it is, in which chain, at which rule.  *)
Places(set) == (0..MaxDepth + 1) \X (DOMAIN set.rules) \X (1..MaxRules + 1)

(* What walk_inbound's chain gives at a rule: its verdict, and whether     *)
(* there is a reason to tell; rest is what the rules behind it give, inner *)
(* the chain it names.  A chain walked only perhaps reports what it may    *)
(* drop and accepts nothing.  A target that is no chain lets the packet    *)
(* carry on.                                                               *)
RuleGives(r, m, chains, deep, rest, inner) ==
    CASE m = "no" -> rest
      [] m # "no" /\ r.target = "DROP" ->
           [verdict |-> IF m = "yes" THEN "DROP" ELSE rest.verdict, told |-> TRUE]
      [] m # "no" /\ r.target \in {"ACCEPT", "RETURN"} ->
           IF m = "yes" THEN [verdict |-> r.target, told |-> FALSE] ELSE rest
      [] m # "no" /\ r.target \in chains ->
           IF deep THEN [verdict |-> "DROP", told |-> TRUE]
           ELSE IF m = "yes" /\ (inner.verdict # "RETURN" \/ r.goto) THEN inner
           ELSE [verdict |-> rest.verdict, told |-> rest.told \/ inner.told]
      [] OTHER -> rest

ChainFrom(set, own, chain, at) ==
    LET d == at[1]
        c == at[2]
        i == at[3]
        r == set.rules[c][i]
    IN  IF i > Len(set.rules[c]) THEN [verdict |-> "RETURN", told |-> FALSE]
        ELSE RuleGives(r, RuleMatches(r, own), DOMAIN set.rules, d > MaxDepth,
                       chain[<<d, c, i + 1>>], chain[<<d + 1, r.target, 1>>])

Chain(set, own) ==
    LET chain[at \in Places(set)] == ChainFrom(set, own, chain, at) IN chain

(* walk_inbound: whether it has nothing to report.                         *)
Walk(set, own) ==
    \A k \in 1..Len(Inbound) :
        LET hook == Chain(set, own)[<<0, Inbound[k], 1>>]
        IN  ~hook.told /\ (hook.verdict = "RETURN" => set.policy[Inbound[k]] # "DROP")

-----------------------------------------------------------------------------
(* What the kernel does with the packet at a rule that holds of it or does *)
(* not.  A jump its stack has no room for drops the packet.                *)
RuleDoes(r, hit, chains, deep, rest, inner) ==
    CASE hit /\ r.target \in {"ACCEPT", "DROP", "RETURN"} -> r.target
      [] hit /\ r.target \in chains ->
           IF deep THEN "DROP" ELSE IF inner # "RETURN" \/ r.goto THEN inner ELSE rest
      [] OTHER -> rest

(* maybe[<<c, i>>]: whether a rule the walk cannot decide holds.           *)
Holds(set, own, maybe, c, i) ==
    LET told == Verdicts(set.rules[c][i], own)
    IN  "no" \notin told /\ ("unknown" \in told => maybe[<<c, i>>])

KernelFrom(set, own, maybe, verdict, at) ==
    LET d == at[1]
        c == at[2]
        i == at[3]
        r == set.rules[c][i]
    IN  IF i > Len(set.rules[c]) THEN "RETURN"
        ELSE RuleDoes(r, Holds(set, own, maybe, c, i), DOMAIN set.rules, d > MaxDepth,
                      verdict[<<d, c, i + 1>>], verdict[<<d + 1, r.target, 1>>])

KernelChain(set, own, maybe) ==
    LET verdict[at \in Places(set)] == KernelFrom(set, own, maybe, verdict, at) IN verdict

Kernel(set, own, maybe) ==
    \A k \in 1..Len(Inbound) :
        LET v == KernelChain(set, own, maybe)[<<0, Inbound[k], 1>>]
        IN  v = "ACCEPT" \/ (v = "RETURN" /\ set.policy[Inbound[k]] = "ACCEPT")

Undecided(set, own) ==
    {at \in (DOMAIN set.rules) \X (1..MaxRules) :
        /\ at[2] \in DOMAIN set.rules[at[1]]
        /\ "unknown" \in Verdicts(set.rules[at[1]][at[2]], own)}

(* The packet gets in whatever the rules nobody can decide turn out to do. *)
KernelAccepts(set, own) ==
    \A maybe \in [Undecided(set, own) -> BOOLEAN] : Kernel(set, own, maybe)

-----------------------------------------------------------------------------
(* _allows_ssh: one rule of the tailnet's filter, for one pair of          *)
(* addresses.  A capability grant holds no source and no port.             *)
AllowsSsh(rule, src, dst) ==
    /\ rule.protos = {} \/ "tcp" \in rule.protos
    /\ src \in rule.srcs
    /\ \E d \in rule.dsts : dst \in d.ips /\ 22 \in d.ports

(* policy_reasons: some peer, on some address of the family it shares with *)
(* this host, is let in.                                                   *)
PolicyLets(rules, peers, own, family) ==
    \E rule \in rules, p \in peers : \E src \in p.addrs, dst \in own :
        family[src] = family[dst] /\ AllowsSsh(rule, src, dst)

(* eligible_peers: online, none of this host's tags, an IPv4 address.      *)
EligiblePeers(online, tags, family) ==
    {p \in online : p.tags \cap tags = {} /\ \E a \in p.addrs : family[a] = 4}
=============================================================================
