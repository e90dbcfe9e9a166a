----------------------------- MODULE MCLockdown -----------------------------
(* A host with an address of each family, a laptop, another server under   *)
(* the same tag, and the firewalls ufw, tailscaled and an administrator    *)
(* leave.  SSH meets no rule that returns or goes to another chain on a    *)
(* condition the walk cannot decide, as in ufw's own before.rules, and     *)
(* none that drops it is behind the public rule.                           *)
EXTENDS Lockdown, TLC

MCOwn == {"a4", "a6"}
MCFamily == ("a4" :> 4) @@ ("a6" :> 6) @@ ("l4" :> 4) @@ ("l6" :> 6) @@ ("s4" :> 4)
MCInbound == <<"PREROUTING", "INPUT">>

To(target, conds) == [conds |-> conds, goto |-> FALSE, target |-> target]
OnTailnet == Opt("i", {"tailscale0"})
Not(c) == [c EXCEPT !.not = TRUE]

Framed(pre, input, ts, sub) ==
    [rules |-> ("PREROUTING" :> pre) @@ ("INPUT" :> input) @@ ("ts-input" :> ts)
                @@ ("sub" :> sub) @@ ("user" :> << >>),
     policy |-> ("PREROUTING" :> "ACCEPT") @@ ("INPUT" :> "DROP")]

Established == To("ACCEPT", {Opt("ctstate", {"ESTABLISHED"})})
User == To("user", {})
UfwAlone   == Framed(<< >>, <<Established, User>>, << >>, << >>)
BeforeRules == Framed(<< >>, <<Established, To("sub", {}), User>>,
                      <<To("RETURN", {Opt("mark", {"other chain"})})>>,
                      <<To("RETURN", {Opt("dst-type", {"LOCAL"})}),
                        To("RETURN", {Opt("dst-type", {"MULTICAST"})}),
                        To("RETURN", {Opt("dst-type", {"BROADCAST"})}),
                        To("DROP", {})>>)
Tailscaled == Framed(<<To("LOG", {OnTailnet})>>, <<To("ts-input", {}), User>>,
                     <<To("RETURN", {Opt("s", {"cgnat"}), Not(OnTailnet)}),
                       To("ACCEPT", {OnTailnet})>>, << >>)
Marked     == Framed(<<To("DROP", {Opt("mark", {"spoofed"})})>>, <<User>>, << >>, << >>)
RateLimit  == Framed(<< >>, <<To("sub", {Opt("p", {"tcp"}), Opt("recent", {"burst"})}), User>>,
                     << >>, <<To("DROP", {})>>)
Trusted    == Framed(<< >>, <<To("ACCEPT", {Opt("s", {"office"})}),
                              [To("user", {Opt("dst-type", {"LOCAL"})}) EXCEPT !.goto = TRUE]>>,
                     << >>, << >>)
NoTailnet  == Framed(<< >>, <<To("ACCEPT", {Opt("s", {"office"})}),
                              To("DROP", {Not(Opt("i", {"eth0", "lo"}))}), User>>, << >>, << >>)

Both(f) == (4 :> f) @@ (6 :> f)
MCFrames == {Both(UfwAlone), Both(BeforeRules), Both(Tailscaled), Both(Marked), Both(RateLimit), Both(Trusted),
             (4 :> Tailscaled) @@ (6 :> NoTailnet)}
MCUserRules == {<<PublicSsh>>, <<To("DROP", {Opt("p", {"udp"})}), PublicSsh, To("DROP", {Opt("dport", {25})})>>}

Laptop == [addrs |-> {"l4", "l6"}, tags |-> {}]
Sibling == [addrs |-> {"s4"}, tags |-> {"vps"}]
AllowRule(protos, srcs, dsts) ==
    [protos |-> protos, srcs |-> srcs, dsts |-> {[ips |-> dsts, ports |-> {22}]}]
OpenPolicy == {AllowRule({"icmp"}, {"l4"}, {"a4"}), AllowRule({}, {"l6"}, {"a6"})}
ShutPolicy == {AllowRule({"icmp"}, {"l4"}, {"a4"}), AllowRule({"tcp"}, {"l4"}, {"a6"}),
               AllowRule({"tcp"}, {"s4"}, {"a4"})}

Good == [running |-> TRUE, seen |-> TRUE, online |-> {Laptop, Sibling}, answers |-> {Laptop, Sibling},
         policy |-> OpenPolicy]
MCNets == {Good, [Good EXCEPT !.running = FALSE], [Good EXCEPT !.seen = FALSE],
           [Good EXCEPT !.answers = {Sibling}], [Good EXCEPT !.online = {Sibling}, !.answers = {Sibling}],
           [Good EXCEPT !.policy = ShutPolicy]}

(* The theorems' hypotheses, of these firewalls.                           *)
ASSUME MCFirewalls == NothingPassedOver /\ NothingBehind
=============================================================================
