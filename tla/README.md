# catena-ce in TLA+

catena-ce installs a server and keeps it converged: an installer opens two SSH
sessions, the server fetches a release image and runs Ansible from it, and the
panel (catena-admin, not in this repository) later dispatches work back to the
host. This directory models the parts of that program where an order of steps, a
crash, a second actor or a stale value decides whether it is right, checks them
with TLC on small instances, and proves the safety part of what is checked, for
instances of any size, with TLAPS.

`PROJECT.json` holds the same information for tools: components, runs, mutants,
the map from definitions to source lines, findings, hazards and theorems.

## 1. The system

| Component | State | Operations | Talks to | Correct when |
|---|---|---|---|---|
| Dispatch path switch (`ansible/helpers/dispatch_path.py`) | `authorized_keys`, two sudoers files, two sshd drop-ins, what sshd loaded, generation directories, a link | BESIDE, PROOF, SWITCH, RETIRE and their undo | sshd, sudo, the panel's key | a panel that had a path keeps one at every instant; "ok" means this tree's path and nothing else |
| On-box store (`onbox_config.py`) | `/etc/catena/config.json`, its temporary, the store lock | adopt, apply inputs, settle, mint, under the lock | converge, panel engines, settings page | never half-written; writes are serial; secrets are minted once; a zone move keeps the old token |
| Backup password (`catena-restic-key.py`) | store password and destination, pass file, the repositories, the held record | generate, rotate, init, validate | restic, restores, the converge | no repository is left that nobody can open; other servers' repositories stand |
| Emailed sign-in code (Java provider) | notes of the authentication session, a bounded mail queue | authenticate, address, resend, code; delivery | Keycloak, SMTP | guesses are bounded; a code signs in the account it was mailed to; pages do not tell accounts apart |
| Sign-in flows (`keycloak_signin_flows.py`, `realm_bootstrap.yml`, binding listener) | flows by versioned alias, realm binding, providers, a record on the host | read, import, bind, move providers, record, delete; bind on save | keycloak-config-cli, people in the console | what is bound is complete; edits are not built over; a finished converge is current |
| Install (`install.py`, `starter.sh`, `fetch_release.py`, `install-host.sh`, `session_proof.py`, role `common`) | the install's lock, the host's lock, fetched trees and `current`, logins, running version and pin | two legs and an uninstall leg | SSH, the registry, the panel's lanes | a leg's tree stands; nobody is locked out; the record names what runs |
| Installer page (`server.py`, `run.py`) | the process's Run objects, one install thread each, an inventory's `.env` and state file | open an inventory, post the form, start an install, connect; a window closed at any instant | a browser, install | the page says what is true, one install at a time, over the answers that were verified |
| Console and SSH sessions (`__main__.py`, `seed.py`, `steps.py`, `remote.py`) | `.env`, `hosts.yml`, `known_hosts`, the provider's password | init, seed, probe, log in, add the key, change an expired password | the machine at the address | an untrusted machine gets nothing; both legs go to one machine; the client keeps a way in |
| Tailnet reachability and lockdown (`tailnet_reachability.py`, `lockdown.yml`, `ufw_lockdown.yml`) | ufw's rules, the declared scope of port 22 | join, check (control, ping, policy, firewall walk), open, close | tailscaled, the port reconciler | public SSH goes only where the tailnet's works; the port settles on what was asked |
| Converge manifest (`converge_manifest.py`, `prune_withdrawn_files.yml`) | the recorded paths and digests, the files | copy, compare, remove, record | the panel's payload, people | only the converge's own files are removed |
| Panel service (`swarm_service_drift.py`, `catena_admin_service.py`) | the live service specification | compare, update, create, prune secrets | Docker | an update settles; what is mounted is not removed |
| Image layers (`fetch_release.py`) | the tree being unpacked | whiteouts, members, vetting | install | nothing outside the prefixes, whiteouts reach the layers below |
| Image pins (`image_pin.py`) | none | `max(floor, pin)` | the update lane, roles | never a downgrade, never a lost bump |
| Tier 1 stack, bootstrap drift, network nudge, tier refusal, value filters, knobs, roles | none or third-party | | | |

Hard to test here: a crash between two writes of the switch, a second tree over
an unfinished one, two writers of one document, a re-key that half happened, a
request that arrives after the session moved on, a converge that stops inside an
import while a person edits, a rerun beside the leg of a dropped connection, a
window closed in the middle of an install, an inventory opened twice, a machine
that takes the server's address between two logins, a tailnet that changes
between the proof and the firewall.
`PROJECT.json` "hazards" lists each with its line and the property that meets it.

## 2. Modules

Names follow the source. In every module a `MUTANT` definition precedes the
definition it breaks; no specification uses one.
Where one proof module extends two components, the second one's specification has
names of its own: `LockSpec` is Lockdown's, `FlowsSpec` is SigninFlows', `TwinSpec`
is EmailCodeTwins'.

**DispatchPath** (`MCDispatchPath`, `AccessProofs`). One action per write of
`_move`, `prove_beside`, `_retire` and `undo`. A file's content is the generation
that rendered it; `loaded` is what sshd read last, which a crash can leave behind
the files. `Answers(p)` is what a request over the key line of `p` needs; a proof
may fail although the path answers, never the reverse. `Crash` cuts a run between
any two writes, `SshdRestart` reloads from the files, `Damage` is a hand on a
generation's directory. `AnyTree` says whether another tree may start while a
switch is unfinished: the code lets it (section 5).

**StoreOps**, **OnboxStore**, **AtomicStore** (`MCOnboxStore`, `OnboxStoreProofs`).
StoreOps has the document and what each request does to it (`adopt`,
`apply_inputs`, `settle_tailnet_provider`, the minting). OnboxStore is the
processes: wait for the lock, read, merge, open and write the temporary, rename,
let go; killed anywhere. A write raises, or is short: `os.write`'s count is not read,
so a nearly full disk puts a part of the document in place (`SHORT`), which no writer
reads again. AtomicStore is the promise: every change of the store is one request
applied to the document it replaces, or the short write that loses it (`LOST`).
`Serial` says OnboxStore implements it, with `doc` for the abstract store. `Rekeyers` are
`catena-restic-key.py` processes, which write without the lock; `RekeyOverlaps`
says whether one may run beside another writer (section 5). `FillOnlyAdopts` and
`ZoneNamed` say what the repository's callers ask for; the run's requests, which
satisfy both, are what the proofs assume.

**ResticKey** (`MCResticKey`, `ResticKeyProofs`). `generate`, `rotate` and `init` step by step from
the copy of the store `main` loads once. A process may die at every step; the save of
the store may raise or be cut short (`CUT`, with the run going on), and so may the pass
file's write. `known` is auxiliary: the keys someone other than this server's memory
has; `lost` too: the keys a `generate` set at an adopted repository and did not store,
while they were in that process alone. `Choices` are the Restore page's. External:
restic opens a repository with its own password alone, and creates one beside files
that are none, which is why `init` lists the place first.

**EmailCode**, **EmailCodeTwins** (`MCEmailCode`, `MCEmailCodeTwins`, `KeycloakProofs`). The four
requests of the authenticator over the session's notes, the queue of one worker
and its delivery, accounts that become ineligible, and time. EmailCodeTwins runs
two sessions through the same requests with two addresses and compares the pages;
`TwinsOK` says which pairs of addresses are twins.
The guess is always wrong (a lucky one in a million is left out), and the requests
of one session are taken one at a time.

**SigninFlows** (`MCSigninFlows`, `KeycloakProofs`). The converge's path through
`realm_bootstrap.yml`: read, import flow by flow, bind, name the flow in the
attribute, list and move providers, record, delete. `SaveProvider` and `Sweep` are
the binding listener. External: keycloak-config-cli leaves a flow that matches and
rebuilds any other in place; Keycloak refuses to delete a flow that is in use.
`AnyTime` allows edits at any time and of any flow (section 5).

**Install** (`MCInstall`, `InstallProofs`). `Login` to `Drop` are the installer's machine;
`Acquire` to `Start` are `starter.sh` with `fetch_release.py`; the rest are
`install-host.sh`. A dropped connection ends the run and not its leg; the rerun is
another member of `Installs`. A tree is `PART` until `IMAGE` is renamed into it.
`LaneUpdate` is the panel's update lane, under the host lock, which it may also take
between an install's converge and its pin. `applied` is auxiliary: the versions this
server was moved to whole. Administrators may add a key to ops at any time, and take
one off before the server is hardened.

**InstallerPage** (`MCInstallerPage`, `InstallerPageProofs`). A Run object per inventory opened, the
page's current one, a request per tab, an install thread per run. `Run.save` is
its three writes (the `.env` truncated, written, the state file replaced), taken by
the request before the install, by `start_install` and by the thread's verdict;
`Close` ends the process between any two. A leg, or its cleanup on a connection that
dropped, may raise what nothing catches: the thread is then gone (`Dies`) and nobody
tells the run. The handler reads `_Handler.run` afresh
at each use, so `Verify`, `Save` and `Start` act on whatever run is the page's by
then. What the probes and legs do on the server is in ConsoleInstall and Install.
`Reopens` says whether an inventory this process installs or installed is opened
again, `Tabs` how many requests overlap, `Ghosts` which dead launchers' pids live on.

**Inventory**, **ConsoleInstall** (`MCConsoleInstall`, `ConsoleInstallProofs`). Inventory is what `seed.py`
does to a `.env`: fill, validate, emit over a file's own lines, read back
(`Reread`, not the identity: a value with a quote or a backslash is written escaped and
read without unescaping); `Atop` puts the answers over the lines of a file. ConsoleInstall is an attempt, from `seed` and the console's loop or from
the page's probes, through `login`, `install_key_with_password`, the accounts leg,
the second login and the system leg. A machine is its host key; `Move` puts another
one at the address at any step. After an expired password was changed, the append of
the key may time out, be refused, meet another machine or be interrupted. `got` is what
each machine was sent; `cut` is auxiliary: the machines an attempt was cut short on
between that change and the key.

**Reachability**, **Lockdown** (`MCLockdown`, `AccessProofs`). Reachability has `rule_matches` and
`walk_inbound` beside a kernel that decides, either way, what the walk cannot, and
`policy_reasons`. Both walks are recursive functions over the places a walk can stand at
(depth, chain, rule): `RuleGives` is what the walk makes of one rule, `RuleDoes` what the
kernel does with it. A jump deeper than `MaxDepth` is told by the walk and dropped by the
kernel.
Lockdown is `lockdown.yml`: `Join`, the check's attempts (`AskControl`, `Ping`,
`Policy`, `WalkFirewall`), then the tasks of `ufw_lockdown.yml` one by one, with
`Fail` between any two, `Fire` and `Reconcile` for the port reconciler (external) and
`NetChange` for the tailnet. `proved` is auxiliary: this run's check passed and the
tailnet has not changed since its last attempt began. `NothingPassedOver` is about the
firewall: of the rules SSH may meet (`Met`: in a chain it may be sent through, and in
front of the first rule that surely ends that chain), none returns or goes elsewhere on
a condition `rule_matches` cannot decide (`Followed`). ufw's own before.rules satisfy it,
with their undecidable RETURNs behind the one of LOCAL.

**ConvergeFiles** (`MCConvergeFiles`, `ConvergeProofs`). One converge after
another: roles copy what the release declares, or skip it (`SwitchedOff`), the tail
computes candidates, checks digests, removes, stats and records; `Stop` anywhere.
`PayloadInstall` and `SomeoneWrites` are the others on those paths. `FeaturesOff`
and `OthersOverlap` say which of the two hard cases may happen.

**ImageLayers**. `apply_layer` as two passes over a layer's members, one member a
step, over a tree of paths; `by` is auxiliary (which layer put an entry there). The
walk of `_resolves_inside` is a refusal that may happen. **ImagePin** and
**ServiceDrift** are operators: the resolution of a pin, and the comparisons and
updates of the panel's service. These three have no run: their inputs (images, stores,
specifications) are arbitrary in the theorems of `ConvergeProofs`.

## 3. Runs

| Run | Checks | States | Shows |
|---|---|---|---|
| `dispatch_path` | TypeOK, KeepsAPath, OkAnswers, OkMeansThisTreeAlone, RefusedLeavesNothing | 1,343,532 | the panel keeps a path through every crash, and verdicts mean what they say |
| `onbox_store` | NeverTorn, Serial, MintedStand, OutgoingTokenKept, LockFreed | 183,394 | the store under two lockers, kills, failed and short writes, engines and a re-key apart from them |
| `restic_key` | EveryRepoOpens, OkMeansRekeyed, OthersStand, HeldNotRekeyed | 143,522 | a repository is lost in one window only, and files that are none are left alone |
| `email_code` | GuessesBounded, SignInProves | 302,280 | limits and identity |
| `email_code_twins` | SameAnswers | 95,376 | pages do not tell accounts apart |
| `signin_flows` | BoundComplete, OkMeansCurrent, EditsStand | 2,899,648 | converges that stop, people that edit |
| `install` | TreeStands, CurrentWhole, NotLockedOut, PinWasApplied, LegEnds | 66,753 | legs, drops, reboots, a lane |
| `installer_page` | StateHonest, ReadsVerified, KillKeepsAnswers, InstallEnds | 290,855 | the page through closed windows, dead threads and two inventories |
| `installer_page_reopen` | violates KeysetShown | | finding 1 |
| `console_install` | OneMachine, ClientKeepsLogin, StrangerGetsNothing, AttemptEnds | 649,992 | who is trusted, who is sent what |
| `lockdown` | WalkSound, ProofHolds, ClosedHasTailnetRule, AnswerStands | 139,724 | closing and opening SSH beside the reconciler and a changing tailnet |
| `converge_files` | violates PruneOnlyOurs | | finding 2; with both constants FALSE it is proved |

Every component states its type invariant. It is checked for DispatchPath and proved, alone or as
a conjunct of the inductive invariant, wherever section 4 has one; the other runs spend
their time on what is above.

### Bounds

Three generations let a run meet the unfinished switch of a second tree over the
path of a first; each path carries a passthrough name another lacks. Two lockers
are enough for a lost update, two zones and two tokens for a zone move, and one
block of another writer's (`OneBlock`) for a block that must stand. Two
destinations are the old and the new one; three keys of ours are an old one, a new
one and one more. Two sends and two guesses reach every limit (`MAX_SENDS`,
`MAX_WRONG`), one lifetime and a half of ticks its expiry, and a queue of no
waiting jobs is full at once. Two releases and one generation step give four
versions of each flow; `MaxGen` bounds the generations, and an edit beyond it is
not made. Two installs are two that overlap, or one and its rerun.

The page has two inventories, two Run objects (`MaxRuns`) and two launches
(`MaxStarts`): one to be closed and one to find what it left. It has one tab. Two
machines and two changes of the one at the address (`MaxMoves`) are one that goes
away and comes back; one key of the `.env` is the server's address, and the file has
a line the template lacks. A lockdown has two runs (`MaxRuns`: close, then open, or a
killed one and its rerun), two changes of the tailnet (`MaxChanges`), two attempts of
the check (`ATTEMPTS`), a host with an address of each family and seven firewalls:
ufw alone, ufw with its before.rules, tailscaled's chain, a mark, a rate limit, a goto, and one that drops the
tailnet in one family. Chains have at most five rules (`MaxRules`), and jumps go
two deep (`MaxDepth`, 30 in the code). Deadlock is not checked for Install and
InstallerPage, where every run or window may be over, and for ResticKey, where nothing
works from a store that was cut short; everywhere else it is.

### Fairness

OnboxStore has weak fairness of each process's steps: the operating system runs
it, and each wait ends (the lock's wait has a deadline). Install's `FairSpec` has
it for each leg: every play and download ends with a result, and both lock waits
have an hour's deadline. InstallerPage has it for each request and each thread,
which run while the process does. ConsoleInstall has it for the attempt: connections
have a timeout and a keepalive, and the person at the console answers. Lockdown has
it for the play's tasks and for the reconciler's timer. Nothing is assumed of people
otherwise, of the panel, of connections or of who answers at an address.

## 4. Proofs

Eight modules hold the theorems. Each theorem is for every value of the constants
under the ASSUMEs of the module that declares them, which TLC evaluates on every run;
what it needs beyond them is its own ASSUME, named below. Every safety property of a
passing run is proved. None was inductive as it stood:
what each invariant adds is given here.

**AccessProofs**, the dispatch path. `TypeCorrect` needs no assumption.
`PanelKeepsAPath` assumes `~AnyTree`. KeepsAPath says the panel's path answers now, and
whether it still answers after a step depends on which of the two files of each pair
holds its rules. `PathInv` says so per step: whose line the panel has (`PanelLine`),
that its rules are in one of the two files (`RunningRules`), that while a tree is moved
to, the old path's rules are in the main files so that the undo cannot touch them
(`WayBack`), what BESIDE has added and that only a proof leads to the switch
(`NewPath`), that RETIRE writes the main files before it removes the -next ones
(`RetireOrder`), and that the directories are there (`HadDirs`). `WayBack` is what a
second tree breaks. `OkIsThisTreeAlone` and `RefusalLeavesNothing` hold with a second
tree too: `EndInv` says what RETIRE has put in place before each of its steps
(`Retired`) and what the undo has taken away before each of its own (`Undone`), and
neither depends on whose unfinished switch the run found. `OkIsAnswered` (`~AnyTree`)
joins the two invariants: the path is this tree's alone, and what sshd loaded is its.

**AccessProofs**, the lockdown. `ClosedKeepsTailnetRule`, for any firewall, any tailnet
and any number of runs. `BeforeClosing` says that wherever the run or the reconciler
takes the public rule away next, the tailnet's is in. `Allow` adds a rule that is not
in and `Delete` takes one occurrence. `LockdownTypes` adds that the check tries again
only where an attempt is left, and that ufw's rules fit a chain: `Room` counts the rules
of a run that are still missing as if they were in, and no step makes that count grow.

`WalkIsSound` says what `walk_inbound` computes, for every ruleset, depth and number of
rules. Two things had to be made by hand. That the two recursive functions satisfy
their own equations (`ChainEquation`, `KernelEquation`) is proved from `Recursion`: an
equation that looks only at places of a smaller rank has a solution, by induction over
the sets of numbers for which a partial solution exists, and the next rule and a chain
one deeper have smaller ranks (`PlaceFacts`). The soundness itself is an induction over
places (`PlaceInduction`) of `Good`: where the walk tells nothing, it accepts and so does
the kernel, or it returns and the kernel returns or accepts. One rule keeps that
(`RuleSound`) if it is `Followed`, and the induction stays with the rules that are met:
those behind one that does not end the chain (`MetNext`), in the chains the packet may
be sent through (`SentChains`). `NothingPassedOver` says no more than that these are
`Followed`; without it the property is false (section 5).

`ReachableOverTailnet` relates two rulesets, the one the check walked and the one the
packet meets later, without the public rule. `AlikeGood` is the same induction for a walk
of one and a kernel on the other, which meet the same rules up to a place from which the
kernel is sure to accept (`Sure`). Such a place exists at every step: whatever the runs
and the reconciler do, the administrator's rules in front of the first one that lets SSH
in stay in front (`Splits`, `Begins`, `MovesBegin`), and behind them is the public rule or
the tailnet's (LockInv) and nothing that keeps the packet out, which is `NothingBehind`,
assumed of the first list and false for a rule that drops SSH behind the public one
(section 5). `ListInv` carries what a passed walk answers for (`Covered`), `CheckInv`
what the attempt heard of the tailnet. MCLockdown evaluates both assumptions on its
firewalls.

**OnboxStoreProofs**. All assume `RekeyOverlaps = FALSE`: the panel runs
`catena-restic-key.py`, which takes no lock, beside no other writer. `StoreInvariant`:
a locker is past its read exactly while it holds the lock, a re-key that runs is alone
(`Alone`), and what a process holds in memory is its request applied to the document
still on disk (`InMemory`), in the sibling once that is filled (`Filled`), unless the
write was short. From it `StoreNeverTorn`: the store is a whole document or the part a
short write put in place, never one emptied for a write under way; and `WritersAreSerial`: the writers implement AtomicStore, a rename
being the one step that is not a stutter. The two action properties then need only
what one request does to a document (`UpdateParts`). `MintedSecretsStand` assumes
`FillOnlyAdopts`: no caller adopts with `--overwrite`, which would replace a minted
secret. `TokensAreKept` also assumes `ZoneNamed`: a request that names the domain does
not carry the per-zone tokens, the case of section 5, and names a zone, so that the
map has a place for the token (`HasZone` is the invariant).

**ResticKeyProofs**. `EveryRepoCanBeOpened` has any number of processes, dying at any
step, and saves that fail: the one key a repository can be left with that nobody holds is
one `generate` set and did not store (`lost`). The invariant says that what the store
holds, and what every run copied of it, is known (`StoredKnown`), and that a run past
its re-key is the one about to save that key (`SaveDue`). `OthersAreKept` needs that
`init`'s listing is still good at `restic init` (`Listed`), `HeldIsNotRekeyed` that what
a re-key was admitted on still holds when it is made (`HoldStands`). `OkIsRekeyed` assumes
one process, because two at once leave the store with one's password and the
repository with the other's; `Applied` says which of the three places a run has
already written.

**KeycloakProofs**, the emailed code. `GuessingIsBounded` and `SignInIsProved`, for any number of sessions, limits and lifetimes (`EmailTypes`: the
counters and the queue of mail stay within those limits). A code in the notes
is the last one sent, to the address in the notes, with guesses left (`CodeIsLast`);
a code in flight or in a mailbox was sent by its session to that account (`MailIsSent`);
and the guesses made so far are paid by the codes used up and the wrong ones of this
one (`GuessesPaid`), which is what makes the product a bound. `AnswersTellNothing`
assumes `TwinsOK`. It relates two sessions: `Alike` says that their notes show the same
(`View`) although one has an account and the other none, and the lemmas give the page of
each request (`PageOf`) and the notes it leaves (`After`) as functions of that view.

**KeycloakProofs**, the sign-in flows. `OkIsCurrent`, with edits at any time, from
`RunInv`: what the steps behind the run have built (`Built`), moved (`Moved`) and
recorded (`Noted`). `BoundIsComplete` and `EditsAreKept` assume `AnyTime = FALSE`: an
edit made during a converge is built over (section 5). `HandInv` adds that the record
holds built flows of one generation (`Recorded`) and that a flow changed by hand is in
it or of an older generation (`HandsKnown`), hence that the run's generation is above
every changed one (`RunFresh`) and no import reaches one.

**InstallProofs**. `TreesKept`, `CurrentIsWhole`, `NeverLockedOut`, `PinIsApplied` and
`InstallTypes` need no assumption. A run that has sent no leg has none on the server (`NothingSent`),
`current` names no install that is still fetching (`Unlinked`), a fetched tree is whole
before it is linked and linked before the sweep (`Staged`), only legs past the starter
run from a tree (`FromTree`), and a leg that hardens came over a session of ops whose
key is in ops' file (`OpsSession`): without the last, the hardening could lock out.
`PinIsApplied` says that what a rerun without `--image` fetches is a version the server
was moved to whole, whatever the panel's lane does between a converge and its pin;
`Converged` says a leg that is to record its image has applied it.

**InstallerPageProofs**. The three safety properties of the run assume one tab, no reused pid
(`Ghosts = {}`) and no reopening (`Reopens = FALSE`), each of which breaks one of them
(section 5). StateHonest speaks of the page's run; the invariant says it of all
(`Honest`: it says installing exactly while its install works or once its thread is
gone), that only the last run of an inventory has a thread (`LastWorks`), that a
request works on the page's run, which has none, with the answers it verified
(`Posting`), and that a state file that says this process installs is of an install of
it (`Files`).

**ConsoleInstallProofs**. `StrangersGetNothing`, `BothLegsOnOneMachine` and
`LoginIsKept`, however often the address changes hands: one host key is trusted
(`OneKey`), a session is with a trusted machine from the moment a leg may use it
(`Sessions`), and each machine an attempt was not cut short on (`cut`) has a way in at
every step, except in the one moment when only the attempt itself can open it (`WayIn`).

**ConvergeProofs**. `PruneIsOurs`, assuming no feature is switched off and nobody else
writes during a converge (`FilesOK`): every digest in the manifest (`RecordedOurs`),
every one about to be recorded once the copies are made (`Installed`), every candidate
(`Candidates`) and every file to be removed (`ToRemove`) was written there by a
converge. `Installed` is what a switched-off feature breaks. `TreeConfined` and
`WhiteoutsCover`, for every image and set of prefixes: the invariant adds whose each
entry is (`Whose`) and that the whiteouts read so far cover what is below (`Covered`);
that an entry in a whiteout's reach is reached needs `Closed`. `NeverBelowFloor`,
`BumpSurvives` and `ReleasesOnlyRaise` follow from the lemma that Python's order of the
keys is a strict total order, for pins that are references or absent. `UpdateSettles`,
`CreatedSettled`, `SettledMeansDeclared` and `PruneSparesMounted` are for every live and
declared specification; assumed of Docker: an update does what its flags say, and
`inspect` reports what was written in its own units (`Reported`).
`SettledMeansDeclared` also assumes that no secret is mounted under another target than
the declared one, which the comparison does not see.

Only model-checked: liveness (LockFreed, LegEnds, InstallEnds, AttemptEnds,
AnswerStands), which is outside the prover's reach.

## 5. Findings

1. `installer_page_reopen`: an inventory opened again after its install printed the
   passwords, or while it does, gets a new Run, and the passwords stay with the old
   one, on no page and in no file (`server.py:522`).
2. `converge_files`: a file someone else put at a path of a switched-off feature is
   recorded as the converge's own and deleted by the release that withdraws the path
   (`converge_manifest.py:111`).

Further cases where the code does otherwise than a comment or document says. The first
kind needs a constant or an instance changed, which the passing runs exclude; the others
(a run and a formula) are in the passing runs, whose property names the case as its one
exception.

| Where | What happens | How to see it |
|---|---|---|
| `dispatch_path.py:640` | a run killed between SWITCH and RETIRE, then a refused run of another tree, leaves the panel without a sudo rule | `AnyTree = TRUE`, KeepsAPath |
| `catena-restic-key.py:103` | a write of the store made between its read and its write is lost | `RekeyOverlaps = TRUE`, Serial |
| `onbox_config.py:756` | a settings write with a zone and the per-zone tokens loses the outgoing token | a request with both, OutgoingTokenKept |
| `realm_bootstrap.yml:451` | a flow edited after its digest was read is rebuilt in place while bound | `AnyTime = TRUE`, BoundComplete |
| `install-host.sh:228` | the lock is free before the version is recorded, so an install records its own over the one a lane moved the server to meanwhile | `install`, with `pin = running` once no leg is under way |
| `server.py:568` | two posts in flight both start an install, and one reads answers that were not verified for it | `Tabs = {t1, t2}`, ReadsVerified |
| `onbox_config.py:587`, `catena-restic-key.py:115` | a short `os.write` is renamed over the store, which is lost with its secrets | `onbox_store`, with `doc # SHORT` |
| `catena-restic-key.py:342` | a `generate` that ends, or does not save the store whole, after its re-key leaves the adopted repository with a key nobody has | `restic_key`, with `lost = {}` |
| `server.py:415` | what a dropped connection raises in the cleanup of a leg (`install.py:238-241`, past `276-278`) ends the thread, and the page goes on saying installing | `installer_page`, StateHonest without `Gone` |
| `remote.py:385` | an attempt cut short between the change of an expired password and the key leaves a random password and no key | `console_install`, with `cut = {}` |
| `run.py:152` | another process with a dead launcher's pid makes its install look alive | `Ghosts = {1}`, StateHonest |
| `tailnet_reachability.py:277` | a RETURN or a goto on a condition nobody can decide, before an ACCEPT, is passed over | a frame with one (`NothingPassedOver` fails), WalkSound |
| `tailnet_reachability.py:324` | the walk may pass through the public rule that is removed next | a user rule that drops 22 behind it (`NothingBehind` fails), ProofHolds |
| `prune_withdrawn_files.yml:82` | the payload installs a path between the reading of its manifest and the removal | `OthersOverlap = TRUE`, PruneOnlyOurs |

Seen while modelling and not stated as a property: the install's lock is free between
an install's two legs, so the second can run another install's tree
(`starter.sh:69`); a failure between the converge and the pin sends the next run back
to the earlier version (`install-host.sh:234`); a leg whose shell is killed leaves its
playbook running without the lock (`install-host.sh:162`); `show-keyset.yml:88` removes
the journal's key before the block that shows it reached a session; a process that ends
within a save leaves an empty `.env` (`seed.py:548`); a config key stored blank is not
filled by a seed, as the docstring says it is (`onbox_config.py:776`); a seed keeps a
value of the `.env` that its own validation would refuse (`seed.py:536`), and one with a
quote or a backslash changes on each seed (`seed.py:521-524` escapes it, `344-345` does
not unescape); the last
assert of a closing run does not ask whether public 22 is closed
(`ufw_lockdown.yml:268`); a secret whose target changed under the same name gives no
flag (`catena_admin_service.py:292`). What depends on how others order their requests is
left open: two re-keys at once, two posts of one sign-in, a provider edited by hand while
a converge moves it.

## 6. Not modelled, and the plan

Taken as atomic or as given: `restic key passwd` replaces the key or does nothing; nobody
else puts files at a backup destination between `init`'s listing and `restic init`; the
temporary password files `_write_secret_file` makes for restic are written whole; an
inventory whose install thread died is not opened again in the process that lost it
(`Reopens = FALSE`); a confirmation that a server was reinstalled is good for the rest
of its attempt.

Left for the proofs: the types of SigninFlows as a theorem of their own, and the case of two processes of ResticKey with a weaker promise than OkMeansRekeyed.

Partly modelled: the rest of `realm_bootstrap.yml` (clients, mappers, SMTP), the
download and manifests of an image and the walk of `_resolves_inside`, the outside
checks of `checks.py`, the keyset block on the server, the wait for a running task of
the panel's service.

Left out for good: roles that only configure third-party software; renderings of one
document into another without state (`tier1_stack.py`, `bootstrap_drift.py`,
`render_knobs.py`) and string conversions, which have their own unit tests; the
network nudge, a loop over Docker's lists; the tier refusal, a predicate on one
sign-in; translations and page layout; and the panel, which is not in this
repository and appears as external actions.
