---------------------------- MODULE SigninFlows -----------------------------
(***************************************************************************)
(* The realm's sign-in flows under versioned aliases                       *)
(* (filter_plugins/keycloak_signin_flows.py and the steps of               *)
(* keycloak/tasks/realm_bootstrap.yml that call it), the identity          *)
(* providers bound to them, and the extension's binding listener, against  *)
(* people who edit flows and providers by hand, converges that stop at any *)
(* step and releases that change the steps.                                *)
(*                                                                         *)
(* An alias is the base, the steps the release gives it and the            *)
(* generation: what the code hashes.  A flow's content is "built" (exactly *)
(* the release's steps), an edit of it, "partial" while an import builds   *)
(* it, or "absent"; the digest of a flow is its content.  Of the four      *)
(* bases, the browser flow and the post-broker-login flow are kept: the    *)
(* two tier flows are bound by the panel's dashboard-sync.                 *)
(***************************************************************************)
EXTENDS Naturals

CONSTANTS
    Releases,    \* the trees that converge
    Steps,       \* Steps[r][b]: the version of base b's steps in release r
    Providers,   \* identity providers
    MaxGen,      \* bound on the generation
    Edits,       \* the contents a hand edit leaves
    AnyTime,     \* whether a person may edit at any time, or only a flow the
                 \* record names, while no converge runs
    NOTHING,     \* no record, no provider
    UNBOUND,     \* a provider that names no post-broker-login flow
    OWN          \* a flow of someone's own

Bases == {"browser", "broker"}
Versions == UNION {{Steps[r][b] : b \in Bases} : r \in Releases}
Aliases == Bases \X Versions \X (0..MaxGen)
Whole == Edits \cup {"built"}
Contents == Whole \cup {"absent", "partial"}

ASSUME SigninAssumption ==
    /\ Steps \in [Releases -> [Bases -> Versions]]
    /\ MaxGen \in Nat /\ AnyTime \in BOOLEAN
    /\ {"absent", "partial", "built"} \cap Edits = {}
    /\ {NOTHING, UNBOUND, OWN} \cap Aliases = {}
    /\ NOTHING # UNBOUND /\ NOTHING # OWN /\ UNBOUND # OWN
    /\ NOTHING \notin [gen : 0..MaxGen, flows : UNION {[as -> Contents] : as \in SUBSET Aliases}]

VARIABLES
    flows,      \* the content of each alias's flow in Keycloak
    browser,    \* the realm's browserFlow, OWN for Keycloak's built-in one
    attr,       \* the realm attribute catenaPostBrokerLoginFlow, or NOTHING
    provider,   \* each provider's flow, UNBOUND, OWN, or NOTHING when absent
    record,     \* /var/lib/catena/keycloak-flows.json, or NOTHING
    release,    \* the tree on the host
    run,        \* the converge: its step and what it holds
    clean       \* auxiliary: nothing was done by hand since the run began

flowsVars == <<flows, browser, attr, provider, record, release, run, clean>>
realm == <<flows, browser, attr, provider>>

Idle == [pc |-> "idle", gen |-> 0, before |-> NOTHING, todo |-> {}, listed |-> << >>]

Alias(b, r, g) == <<b, Steps[r][b], g>>
Current(b) == Alias(b, release, run.gen)
Currents == {Current(b) : b \in Bases}
Exists(a) == a \in Aliases /\ flows[a] # "absent"

FlowsInit ==
    /\ flows = [a \in Aliases |-> "absent"]
    /\ browser = OWN /\ attr = NOTHING /\ record = NOTHING
    /\ provider \in [Providers -> {NOTHING, UNBOUND}]
    /\ release \in Releases
    /\ run = Idle /\ clean = TRUE

Goto(pc) == run' = [run EXCEPT !.pc = pc]
Fail == run' = Idle

(* Only what is done while a converge runs, or since it ended, counts.     *)
ByHand == clean' = (run.pc = "idle")

-----------------------------------------------------------------------------
(* The converge, up to the import.                                         *)

(* keycloak_flow_generation: the recorded one, or the next when a recorded *)
(* flow reads differently or not at all.                                   *)
FlowGeneration(rec) ==
    IF rec = NOTHING THEN 0
    ELSE IF \E a \in DOMAIN rec.flows : flows[a] # rec.flows[a] THEN rec.gen + 1 ELSE rec.gen

(* The realm and the recorded flows are read, and the flows built in       *)
(* memory; the import has all of them to make.                             *)
Start ==
    /\ run.pc = "idle"
    /\ FlowGeneration(record) <= MaxGen
    /\ run' = [pc |-> "import", gen |-> FlowGeneration(record), before |-> attr,
               todo |-> {Alias(b, release, FlowGeneration(record)) : b \in Bases},
               listed |-> << >>]
    /\ clean' = TRUE
    /\ UNCHANGED <<realm, record, release>>

(* keycloak-config-cli: a flow that matches stays, any other is emptied,   *)
(* or created, and filled.                                                 *)
ImportFlow(a) ==
    /\ run.pc = "import" /\ a \in run.todo
    /\ \/ flows[a] = "built" /\ UNCHANGED flows /\ run' = [run EXCEPT !.todo = @ \ {a}]
       \/ flows[a] \notin {"built", "partial"}
             /\ flows' = [flows EXCEPT ![a] = "partial"] /\ UNCHANGED run
       \/ flows[a] = "partial"
             /\ flows' = [flows EXCEPT ![a] = "built"] /\ run' = [run EXCEPT !.todo = @ \ {a}]
    /\ UNCHANGED <<browser, attr, provider, record, release, clean>>

(* MUTANT: the realm is bound before the flows are complete.               *)
BindBrowserFirst ==
    /\ run.pc = "import" /\ Exists(Current("browser"))
    /\ browser' = Current("browser")
    /\ IF run.todo = {} THEN Goto("attr") ELSE UNCHANGED run
    /\ UNCHANGED <<flows, attr, provider, record, release, clean>>

(* The import binds the realm's browser flow once every flow exists.       *)
BindBrowser ==
    /\ run.pc = "import" /\ run.todo = {}
    /\ \/ Exists(Current("browser")) /\ browser' = Current("browser") /\ Goto("attr")
       \/ ~Exists(Current("browser")) /\ UNCHANGED browser /\ Fail
    /\ UNCHANGED <<flows, attr, provider, record, release, clean>>

-----------------------------------------------------------------------------
(* After the import.                                                       *)

(* Written unless the realm, as read before the import, names it already.  *)
SetAttr ==
    /\ run.pc = "attr"
    /\ attr' = IF run.before = Current("broker") THEN attr ELSE Current("broker")
    /\ run' = [run EXCEPT !.pc = "list", !.before = NOTHING]
    /\ UNCHANGED <<flows, browser, provider, record, release, clean>>

ListProviders ==
    /\ run.pc = "list"
    /\ run' = [run EXCEPT !.pc = "move", !.listed = provider, !.todo = Providers]
    /\ UNCHANGED <<realm, record, release, clean>>

(* MUTANT: an earlier version of the flow is taken for the current one.    *)
MovesUnbound(f) == f = UNBOUND

(* No flow, an earlier version of it; not a flow of someone's own.         *)
Moves(f) == f = UNBOUND \/ (f \in Aliases /\ f # Current("broker"))

(* One provider of the listing; the listener leaves the converge's own     *)
(* update alone.  kcadm refuses a provider, or a flow, that is gone.       *)
MoveProvider(p) ==
    /\ run.pc = "move" /\ p \in run.todo
    /\ \/ /\ ~Moves(run.listed[p])
          /\ run' = [run EXCEPT !.todo = @ \ {p}] /\ UNCHANGED provider
       \/ /\ Moves(run.listed[p]) /\ provider[p] # NOTHING /\ Exists(Current("broker"))
          /\ provider' = [provider EXCEPT ![p] = Current("broker")]
          /\ run' = [run EXCEPT !.todo = @ \ {p}]
       \/ /\ Moves(run.listed[p]) /\ (provider[p] = NOTHING \/ ~Exists(Current("broker")))
          /\ Fail /\ UNCHANGED provider
    /\ UNCHANGED <<flows, browser, attr, record, release, clean>>

(* The converge stops while a provider names no flow.                      *)
CheckProviders ==
    /\ run.pc = "move" /\ run.todo = {}
    /\ IF \E p \in Providers : provider[p] = UNBOUND THEN Fail
       ELSE run' = [run EXCEPT !.pc = "record", !.listed = << >>]
    /\ UNCHANGED <<realm, record, release, clean>>

(* MUTANT: the record is written with the generation it had.               *)
RecordOldGeneration ==
    /\ run.pc = "record"
    /\ record' = IF \A a \in Currents : Exists(a)
                 THEN [gen |-> IF record = NOTHING THEN 0 ELSE record.gen,
                       flows |-> [a \in Currents |-> flows[a]]]
                 ELSE record
    /\ Goto("usage")
    /\ UNCHANGED <<realm, release, clean>>

(* The flows as Keycloak holds them by now, none of them missing.          *)
Record ==
    /\ run.pc = "record"
    /\ record' = IF \A a \in Currents : Exists(a)
                 THEN [gen |-> run.gen, flows |-> [a \in Currents |-> flows[a]]]
                 ELSE record
    /\ Goto("usage")
    /\ UNCHANGED <<realm, release, clean>>

Bound == {browser} \cup {provider[p] : p \in Providers}

(* keycloak_flow_stale: Catena's flows that are not current and not named. *)
FlowStale == {a \in Aliases : Exists(a)} \ (Currents \cup Bound)

ReadUsage ==
    /\ run.pc = "usage"
    /\ run' = [run EXCEPT !.pc = "delete", !.todo = FlowStale]
    /\ UNCHANGED <<realm, record, release, clean>>

(* Keycloak refuses some deletions; the flow stays for a later converge.   *)
DeleteFlow(a) ==
    /\ run.pc = "delete" /\ a \in run.todo
    /\ flows' \in {flows, [flows EXCEPT ![a] = "absent"]}
    /\ run' = [run EXCEPT !.todo = @ \ {a}]
    /\ UNCHANGED <<browser, attr, provider, record, release, clean>>

Done ==
    /\ run.pc = "delete" /\ run.todo = {}
    /\ Goto("ok")
    /\ UNCHANGED <<realm, record, release, clean>>

(* The next one starts from an ended one, on whichever tree is there.      *)
Leave ==
    /\ run.pc = "ok"
    /\ run' = Idle /\ clean' = TRUE
    /\ UNCHANGED <<realm, record, release>>

(* The converge stops here: killed, or a step of it or in between failed.  *)
Stop ==
    /\ run.pc \notin {"idle", "ok"}
    /\ Fail
    /\ UNCHANGED <<realm, record, release, clean>>

Upgrade(r) ==
    /\ run.pc = "idle"
    /\ release' = r
    /\ UNCHANGED <<realm, record, run, clean>>

-----------------------------------------------------------------------------
(* The extension.                                                          *)

(* flowOf: the flow the attribute names, if the realm holds it.            *)
FlowOf == IF Exists(attr) THEN attr ELSE NOTHING

(* bind: only a provider that names no flow, only to a flow there is.      *)
Bind(f) == IF f = UNBOUND /\ FlowOf # NOTHING THEN FlowOf ELSE f

(* An administrator creates or updates a provider, and the listener binds  *)
(* it, or fails, logs it and leaves it.                                    *)
SaveProvider(p, f) ==
    /\ provider' \in {[provider EXCEPT ![p] = f], [provider EXCEPT ![p] = Bind(f)]}
    /\ IF provider'[p] \in {OWN, attr} THEN UNCHANGED clean ELSE ByHand
    /\ UNCHANGED <<flows, browser, attr, record, release, run>>

DeleteProvider(p) ==
    /\ provider[p] # NOTHING
    /\ provider' = [provider EXCEPT ![p] = NOTHING]
    /\ UNCHANGED <<flows, browser, attr, record, release, run, clean>>

(* sweep, after a server start: every unbound provider, in one transaction *)
(* of the realm.                                                           *)
Sweep ==
    /\ provider' = [p \in Providers |-> Bind(provider[p])]
    /\ UNCHANGED <<flows, browser, attr, record, release, run, clean>>

-----------------------------------------------------------------------------
(* People at Keycloak's admin console.                                     *)

MayEdit(a) == AnyTime \/ (run.pc = "idle" /\ record # NOTHING /\ a \in DOMAIN record.flows)

EditFlow(a, content) ==
    /\ MayEdit(a) /\ Exists(a) /\ content # flows[a]
    /\ flows' = [flows EXCEPT ![a] = content]
    /\ ByHand
    /\ UNCHANGED <<browser, attr, provider, record, release, run>>

(* Keycloak refuses to delete a flow in use.                               *)
RemoveFlow(a) ==
    /\ MayEdit(a) /\ Exists(a) /\ a \notin Bound
    /\ flows' = [flows EXCEPT ![a] = "absent"]
    /\ ByHand
    /\ UNCHANGED <<browser, attr, provider, record, release, run>>

Converge ==
    \/ Start \/ BindBrowser \/ SetAttr \/ ListProviders \/ CheckProviders \/ Record
    \/ ReadUsage \/ Done \/ Leave \/ Stop
    \/ \E a \in Aliases : ImportFlow(a) \/ DeleteFlow(a)
    \/ \E p \in Providers : MoveProvider(p)

People ==
    \/ \E p \in Providers : DeleteProvider(p)
    \/ \E p \in Providers, f \in {UNBOUND, OWN} : SaveProvider(p, f)
    \/ \E a \in Aliases : RemoveFlow(a) \/ \E c \in Whole : EditFlow(a, c)

FlowsNext == Converge \/ People \/ Sweep \/ \E r \in Releases : Upgrade(r)

FlowsSpec == FlowsInit /\ [][FlowsNext]_flowsVars

-----------------------------------------------------------------------------

(* Types.                                                                  *)
FlowsTypeOK ==
    /\ flows \in [Aliases -> Contents]
    /\ browser \in Aliases \cup {OWN} /\ attr \in Aliases \cup {NOTHING}
    /\ provider \in [Providers -> Aliases \cup {NOTHING, UNBOUND, OWN}]
    /\ release \in Releases /\ clean \in BOOLEAN
    /\ record = NOTHING \/ (record.gen \in 0..MaxGen /\ DOMAIN record.flows \subseteq Aliases)
    /\ run.gen \in 0..MaxGen

(* "A converge that stops half way leaves the realm on the previous        *)
(* complete version" (keycloak_signin_flows.py): at every step, the        *)
(* realm's browser flow and each provider's are flows that exist, whole.   *)
BoundComplete ==
    \A a \in Bound \cap Aliases : flows[a] \in Whole

(* A converge that ends well, nothing done by hand while it ran, whatever  *)
(* was edited or cut short before it: the realm and the providers are on   *)
(* this release's flows, unedited, and the record says so.                 *)
OkMeansCurrent ==
    run.pc = "ok" /\ clean =>
        /\ \A a \in Currents : flows[a] = "built"
        /\ browser = Current("browser") /\ attr = Current("broker")
        /\ \A p \in Providers : provider[p] \in {NOTHING, OWN, Current("broker")}
        /\ record = [gen |-> run.gen, flows |-> [a \in Currents |-> "built"]]

(* A hand edit of a recorded flow is never written over: the next version  *)
(* is built beside it (keycloak_flow_generation).                          *)
EditsStand ==
    [][\A a \in Aliases : flows[a] \in Edits /\ flows'[a] # flows[a] =>
          flows'[a] \in Whole \cup {"absent"}]_flowsVars
=============================================================================
