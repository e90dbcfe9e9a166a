---------------------------- MODULE DispatchPath ----------------------------
(***************************************************************************)
(* The switch of the panel's dispatch path to the generation a tree ships  *)
(* (ansible/helpers/dispatch_path.py): BESIDE, PROOF, SWITCH and RETIRE,   *)
(* with the undo of each, cut short by a crash between any two writes and  *)
(* started again from any tree.                                            *)
(*                                                                         *)
(* Abstractions.                                                           *)
(*  - A generation is its name.  The rules rendered from it are known by   *)
(*    the generation that rendered them, and what a file holds is that     *)
(*    name, NONE when the file is absent, LEGACY when an install wrote it. *)
(*  - authorized_keys is the path the panel's line runs and whether a line *)
(*    of a proof key is beside it.                                         *)
(*  - Every write is a temporary and a rename, so it is one step; the      *)
(*    check a write has to pass first is part of it.  place_sshd checks    *)
(*    after it wrote, which is two steps.                                  *)
(*  - A proof succeeds only if the path answers, and may fail although it  *)
(*    does (a transport failure, a timeout).  A command or a write may     *)
(*    fail at any time.                                                    *)
(* The converge holds /run/catena.lock, so two runs never overlap.         *)
(***************************************************************************)
EXTENDS FiniteSets

CONSTANTS
    Gens,       \* the generations the trees that are run describe
    Sound,      \* those whose entry and dispatcher answer as the proof asks
    LEGACY,     \* the path an install wrote
    NONE,       \* no path, no file
    Names,      \* the passthrough names each path's rules carry
    AnyTree     \* whether any tree may run while a switch is unfinished

Paths == Gens \union {LEGACY, NONE}
Variable == UNION {Names[p] : p \in Paths}

ASSUME PathsDistinct == LEGACY \notin Gens /\ NONE \notin Gens /\ LEGACY # NONE
ASSUME SoundAreGens == Sound \subseteq Gens
ASSUME NamesOfPaths == DOMAIN Names = Paths /\ Names[NONE] = {}
ASSUME AnyTreeIsBoolean == AnyTree \in BOOLEAN

VARIABLES
    keys,           \* authorized_keys: [panel |-> path, proof |-> BOOLEAN]
    dirs,           \* GENERATIONS/<gen>: "absent", "intact" or "damaged"
    sudoers,        \* SUDOERS
    sudoersNext,    \* SUDOERS_NEXT
    acceptenv,      \* ACCEPTENV
    acceptenvNext,  \* ACCEPTENV_NEXT
    loaded,         \* the AcceptEnv names sshd read at its last reload
    link,           \* what the dispatcher's stable path is
    keydir,         \* whether a proof key's directory is left under /run
    pc,             \* the step the run takes next, "idle" between runs
    tree,           \* the generation of the tree being run
    before,         \* keys_before
    dropin,         \* what place_sshd read before it wrote
    proven,         \* the result prove_beside returns
    touched,        \* _retire's touched
    reload,         \* _move's reloaded, _retire's reload
    had,            \* auxiliary: the panel could dispatch when this run began
    verdict         \* of the last run: "none", "ok", "refused", "rejected"

onDisk == <<keys, dirs, sudoers, sudoersNext, acceptenv, acceptenvNext, link, keydir>>
locals == <<tree, before, dropin, proven, touched, reload, had>>
vars == <<onDisk, loaded, pc, locals, verdict>>

-----------------------------------------------------------------------------
\* The path a request crosses, and what a proof observes.

\* env_keep and AcceptEnv add up across the two files of each.
Kept == Names[sudoers] \union Names[sudoersNext]
Accepted == Names[acceptenv] \union Names[acceptenvNext]

\* A request whose key line runs p reaches p's dispatcher as root with every
\* passthrough variable.
Answers(p) ==
    /\ IF p = LEGACY THEN link = LEGACY ELSE p \in Sound /\ dirs[p] = "intact"
    /\ p \in {sudoers, sudoersNext}
    /\ Names[p] \subseteq Kept \intersect loaded

CanDispatch == keys.panel # NONE /\ Answers(keys.panel)

\* Mutant of ProveResults: any answer is taken for the generation's.
ProveResultsBlind(p) == BOOLEAN

\* prove returns [] or the reasons it failed; a failure may be the transport's.
ProveResults(p) == {FALSE} \union {ok \in {TRUE} : Answers(p)}

\* The rules of the running path are the ones in the main files.
Settled == sudoers = keys.panel /\ acceptenv = keys.panel

Goto(step) == pc' = step
Keep(step) == Goto(step) /\ UNCHANGED <<tree, before, dropin, proven, touched, reload, had, verdict>>

-----------------------------------------------------------------------------
Init ==
    /\ \E p \in {LEGACY, NONE} :
        /\ keys = [panel |-> p, proof |-> FALSE]
        /\ sudoers = p /\ acceptenv = p /\ link = p
        /\ loaded = Names[p]
    /\ dirs = [g \in Gens |-> "absent"]
    /\ sudoersNext = NONE /\ acceptenvNext = NONE
    /\ keydir = FALSE
    /\ pc = "idle" /\ verdict = "none"
    /\ \E g \in Gens : tree = g
    /\ before = keys /\ dropin = NONE
    /\ proven = FALSE /\ touched = FALSE /\ reload = FALSE
    /\ had = CanDispatch

\* switch and the head of _switch: what runs now decides between the move and
\* the retiring.  Without AnyTree a tree other than the running one waits until
\* the running one's rules are in the main files.
Start(t) ==
    /\ pc = "idle"
    /\ AnyTree \/ Settled \/ keys.panel \in {NONE, t}
    /\ tree' = t /\ before' = keys /\ verdict' = "none"
    /\ dropin' = NONE /\ proven' = FALSE /\ touched' = FALSE /\ reload' = FALSE
    /\ had' = CanDispatch
    /\ Goto(IF keys.panel = t THEN "retire" ELSE "install")
    /\ UNCHANGED <<onDisk, loaded>>

\* switch's early returns: a passthrough name, a panel key or a ~/.ssh it
\* refuses.  Nothing is read into the run and nothing is written.
Reject ==
    /\ pc = "idle"
    /\ verdict' = "rejected"
    /\ UNCHANGED <<onDisk, loaded, pc, locals>>

-----------------------------------------------------------------------------
\* install_generation, from _move and from _retire: what is not exactly the
\* tree's is removed, and the finished directory is renamed into its place.
InstallGeneration(step, rename, next) ==
    /\ pc = step
    /\ \/ dirs[tree] = "intact" /\ UNCHANGED dirs /\ Keep(next)
       \/ dirs[tree] # "intact" /\ dirs' = [dirs EXCEPT ![tree] = "absent"] /\ Keep(rename)
    /\ UNCHANGED <<keys, sudoers, sudoersNext, acceptenv, acceptenvNext, link, keydir, loaded>>

RenameGeneration(step, next) ==
    /\ pc = step
    /\ dirs' = [dirs EXCEPT ![tree] = "intact"]
    /\ touched' = TRUE
    /\ Goto(next)
    /\ UNCHANGED <<keys, sudoers, sudoersNext, acceptenv, acceptenvNext, link, keydir, loaded,
                   tree, before, dropin, proven, reload, had, verdict>>

-----------------------------------------------------------------------------
\* _move, BESIDE.

\* Mutant of WriteRuleNext: the new rule replaces the running one's.
WriteRuleOverRunning ==
    /\ pc = "rule_next"
    /\ sudoers' = tree /\ Keep("accept_next")
    /\ UNCHANGED <<keys, dirs, sudoersNext, acceptenv, acceptenvNext, link, keydir, loaded>>

\* The rule is written unless the file holds it already; visudo, or the write,
\* may refuse it.
WriteRuleNext ==
    /\ pc = "rule_next"
    /\ \/ sudoersNext' = tree /\ Keep("accept_next")
       \/ sudoersNext # tree /\ UNCHANGED sudoersNext /\ Keep("undo_dir")
    /\ UNCHANGED <<keys, dirs, sudoers, acceptenv, acceptenvNext, link, keydir, loaded>>

\* place_sshd: the drop-in is written, then sshd -t reads the whole config.
PlaceAcceptNext(step, next) ==
    /\ pc = step
    /\ acceptenvNext' = tree
    /\ dropin' = acceptenvNext
    /\ Goto(next)
    /\ UNCHANGED <<keys, dirs, sudoers, sudoersNext, acceptenv, link, keydir, loaded,
                   tree, before, proven, touched, reload, had, verdict>>

\* A drop-in that was there already is not checked again.
CheckAcceptNext ==
    /\ pc = "check_next"
    /\ \/ UNCHANGED acceptenvNext /\ Keep("reload_next")
       \/ dropin # tree /\ acceptenvNext' = dropin /\ Keep("undo_dir")
    /\ UNCHANGED <<keys, dirs, sudoers, sudoersNext, acceptenv, link, keydir, loaded>>

\* sshd reads its drop-ins, or the reload fails and it keeps what it had.
SshdReload == loaded' \in {Accepted, loaded}

\* Whether or not the file changed: a run cut short may never have reloaded.
ReloadNext ==
    /\ pc = "reload_next"
    /\ reload' = TRUE
    /\ \/ loaded' = Accepted /\ Goto("proof_line")
       \/ UNCHANGED loaded /\ Goto("undo_dir")
    /\ UNCHANGED <<onDisk, tree, before, dropin, proven, touched, had, verdict>>

-----------------------------------------------------------------------------
\* _move, PROOF: prove_beside, its key directory and its line, and the finally
\* clauses that take both away.

AddProofLine ==
    /\ pc = "proof_line"
    /\ keydir' = TRUE
    /\ \/ keys' = [before EXCEPT !.proof = TRUE] /\ Keep("proof")
       \/ UNCHANGED keys /\ Keep("proof_end")      \* ssh-keygen or the write failed
    /\ UNCHANGED <<dirs, sudoers, sudoersNext, acceptenv, acceptenvNext, link, loaded>>

ProveBeside ==
    /\ pc = "proof"
    /\ proven' \in ProveResults(tree)
    /\ Goto("proof_back")
    /\ UNCHANGED <<onDisk, loaded, tree, before, dropin, touched, reload, had, verdict>>

\* keys_file.put_back; when it cannot write, the proof counts as failed and its
\* line stays until it expires.
RemoveProofLine ==
    /\ pc = "proof_back"
    /\ \/ keys' = before /\ UNCHANGED proven
       \/ UNCHANGED keys /\ proven' = FALSE
    /\ Goto("proof_end")
    /\ UNCHANGED <<dirs, sudoers, sudoersNext, acceptenv, acceptenvNext, link, keydir, loaded,
                   tree, before, dropin, touched, reload, had, verdict>>

EndProof ==
    /\ pc = "proof_end"
    /\ keydir' = FALSE
    /\ Keep(IF proven THEN "switch" ELSE "undo_dir")
    /\ UNCHANGED <<keys, dirs, sudoers, sudoersNext, acceptenv, acceptenvNext, link, loaded>>

-----------------------------------------------------------------------------
\* _move, SWITCH.

SwitchKeys ==
    /\ pc = "switch"
    /\ \/ keys' = [panel |-> tree, proof |-> FALSE] /\ Keep("prove_switch")
       \/ UNCHANGED keys /\ Keep("undo_dir")
    /\ UNCHANGED <<dirs, sudoers, sudoersNext, acceptenv, acceptenvNext, link, keydir, loaded>>

ProveSwitch ==
    /\ pc = "prove_switch"
    /\ \/ TRUE \in ProveResults(tree) /\ Goto("retire") /\ touched' = FALSE /\ reload' = FALSE
       \/ Goto("switch_back") /\ UNCHANGED <<touched, reload>>
    /\ UNCHANGED <<onDisk, loaded, tree, before, dropin, proven, had, verdict>>

\* Mutant of SwitchBack: the panel's path is written back where the file's
\* content belongs.
SwitchBackPathAlone ==
    /\ pc = "switch_back"
    /\ keys' = before.panel /\ Goto("undo_dir")
    /\ UNCHANGED <<dirs, sudoers, sudoersNext, acceptenv, acceptenvNext, link, keydir, loaded,
                   locals, verdict>>

\* keys.put_back; when it raises, undo is skipped and the run ends on the new
\* generation.
SwitchBack ==
    /\ pc = "switch_back"
    /\ \/ keys' = before /\ Goto("undo_dir") /\ UNCHANGED verdict
       \/ UNCHANGED keys /\ Goto("idle") /\ verdict' = "refused"
    /\ UNCHANGED <<dirs, sudoers, sudoersNext, acceptenv, acceptenvNext, link, keydir, loaded, locals>>

-----------------------------------------------------------------------------
\* undo: the generation's directory, its rules, and a reload when sshd may have
\* read the drop-in.

UndoDir ==
    /\ pc = "undo_dir"
    /\ dirs' = [dirs EXCEPT ![tree] = "absent"]
    /\ Keep("undo_rule")
    /\ UNCHANGED <<keys, sudoers, sudoersNext, acceptenv, acceptenvNext, link, keydir, loaded>>

\* Mutant of UndoRule: the rule stays.
UndoRuleSkipped ==
    /\ pc = "undo_rule"
    /\ Keep("undo_accept")
    /\ UNCHANGED <<onDisk, loaded>>

UndoRule ==
    /\ pc = "undo_rule"
    /\ sudoersNext' = NONE
    /\ Keep("undo_accept")
    /\ UNCHANGED <<keys, dirs, sudoers, acceptenv, acceptenvNext, link, keydir, loaded>>

UndoAccept ==
    /\ pc = "undo_accept"
    /\ acceptenvNext' = NONE
    /\ reload' = (reload \/ acceptenvNext # NONE)
    /\ Goto("undo_reload")
    /\ UNCHANGED <<keys, dirs, sudoers, sudoersNext, acceptenv, link, keydir, loaded,
                   tree, before, dropin, proven, touched, had, verdict>>

UndoReload ==
    /\ pc = "undo_reload"
    /\ IF reload THEN SshdReload ELSE UNCHANGED loaded
    /\ Goto("idle") /\ verdict' = "refused"
    /\ UNCHANGED <<onDisk, locals>>

-----------------------------------------------------------------------------
\* _retire.  Refused anywhere here ends the run on the tree's generation.
Refuse == Goto("idle") /\ verdict' = "refused" /\ UNCHANGED locals

\* Mutant of RetireKeys: the file is rewritten only when the panel's line moves.
RetireKeysWhenMoved ==
    /\ pc = "retire_keys"
    /\ keys' = IF keys.panel = tree THEN keys ELSE [panel |-> tree, proof |-> FALSE]
    /\ Keep("retire_rule")
    /\ UNCHANGED <<dirs, sudoers, sudoersNext, acceptenv, acceptenvNext, link, keydir, loaded>>

RetireKeys ==
    /\ pc = "retire_keys"
    /\ \/ keys' = [panel |-> tree, proof |-> FALSE]
          /\ touched' = (touched \/ keys' # keys)
          /\ Goto("retire_rule") /\ UNCHANGED <<tree, before, dropin, proven, reload, had, verdict>>
       \/ keys # [panel |-> tree, proof |-> FALSE] /\ UNCHANGED keys /\ Refuse
    /\ UNCHANGED <<dirs, sudoers, sudoersNext, acceptenv, acceptenvNext, link, keydir, loaded>>

RetireRule ==
    /\ pc = "retire_rule"
    /\ \/ sudoers' = tree
          /\ touched' = (touched \/ sudoers # tree)
          /\ Goto("retire_accept") /\ UNCHANGED <<tree, before, dropin, proven, reload, had, verdict>>
       \/ sudoers # tree /\ UNCHANGED sudoers /\ Refuse
    /\ UNCHANGED <<keys, dirs, sudoersNext, acceptenv, acceptenvNext, link, keydir, loaded>>

RetireAccept ==
    /\ pc = "retire_accept"
    /\ acceptenv' = tree
    /\ dropin' = acceptenv
    /\ Goto("retire_check")
    /\ UNCHANGED <<keys, dirs, sudoers, sudoersNext, acceptenvNext, link, keydir, loaded,
                   tree, before, proven, touched, reload, had, verdict>>

RetireCheck ==
    /\ pc = "retire_check"
    /\ \/ /\ touched' = (touched \/ dropin # tree) /\ reload' = (dropin # tree)
          /\ Goto("retire_rule_next")
          /\ UNCHANGED <<acceptenv, tree, before, dropin, proven, had, verdict>>
       \/ dropin # tree /\ acceptenv' = dropin /\ Refuse
    /\ UNCHANGED <<keys, dirs, sudoers, sudoersNext, acceptenvNext, link, keydir, loaded>>

RetireRuleNext ==
    /\ pc = "retire_rule_next"
    /\ sudoersNext' = NONE
    /\ touched' = (touched \/ sudoersNext # NONE)
    /\ Goto("retire_accept_next")
    /\ UNCHANGED <<keys, dirs, sudoers, acceptenv, acceptenvNext, link, keydir, loaded,
                   tree, before, dropin, proven, reload, had, verdict>>

RetireAcceptNext ==
    /\ pc = "retire_accept_next"
    /\ acceptenvNext' = NONE
    /\ touched' = (touched \/ acceptenvNext # NONE)
    /\ reload' = (reload \/ acceptenvNext # NONE)
    /\ Goto("retire_reload")
    /\ UNCHANGED <<keys, dirs, sudoers, sudoersNext, acceptenv, link, keydir, loaded,
                   tree, before, dropin, proven, had, verdict>>

RetireReload ==
    /\ pc = "retire_reload"
    /\ \/ loaded' = (IF reload THEN Accepted ELSE loaded) /\ Keep("retire_prove")
       \/ reload /\ UNCHANGED loaded /\ Refuse
    /\ UNCHANGED onDisk

RetireProve ==
    /\ pc = "retire_prove"
    /\ \E ok \in ProveResults(tree) :
        Keep(IF ~touched \/ ok THEN "link" ELSE "again_rule")
    /\ UNCHANGED <<onDisk, loaded>>

\* The failed proof puts the -next files back, the state the SWITCH proved.
AgainRule ==
    /\ pc = "again_rule"
    /\ \/ sudoersNext' = tree /\ Keep("again_accept")
       \/ UNCHANGED sudoersNext /\ Refuse
    /\ UNCHANGED <<keys, dirs, sudoers, acceptenv, acceptenvNext, link, keydir, loaded>>

AgainCheck ==
    /\ pc = "again_check"
    /\ \/ loaded' = Accepted /\ UNCHANGED acceptenvNext
       \/ UNCHANGED <<loaded, acceptenvNext>>
       \/ acceptenvNext' = dropin /\ UNCHANGED loaded
    /\ Refuse
    /\ UNCHANGED <<keys, dirs, sudoers, sudoersNext, acceptenv, link, keydir>>

Link ==
    /\ pc = "link"
    /\ link' = tree
    /\ Keep("sweep")
    /\ UNCHANGED <<keys, dirs, sudoers, sudoersNext, acceptenv, acceptenvNext, keydir, loaded>>

\* Every other generation goes, one directory at a time, then a killed run's
\* proof key.
Sweep ==
    /\ pc = "sweep"
    /\ \/ /\ \E g \in Gens \ {tree} :
              dirs[g] # "absent" /\ dirs' = [dirs EXCEPT ![g] = "absent"]
          /\ UNCHANGED keydir /\ Keep("sweep")
       \/ /\ \A g \in Gens \ {tree} : dirs[g] = "absent"
          /\ keydir' = FALSE /\ UNCHANGED dirs
          /\ Goto("idle") /\ verdict' = "ok" /\ UNCHANGED locals
    /\ UNCHANGED <<keys, sudoers, sudoersNext, acceptenv, acceptenvNext, link, loaded>>

-----------------------------------------------------------------------------
\* The environment.

\* The process dies, or an exception no handler catches ends it: everything on
\* disk stays as the last step left it.
Crash ==
    /\ pc # "idle"
    /\ Goto("idle") /\ verdict' = "none"
    /\ UNCHANGED <<onDisk, loaded, locals>>

\* A reboot, or a restart of sshd by anything else on the host.
SshdRestart ==
    /\ loaded' = Accepted
    /\ UNCHANGED <<onDisk, pc, locals, verdict>>

\* Between runs a generation's directory stops being exactly its tree's.
Damage(g) ==
    /\ pc = "idle" /\ dirs[g] = "intact"
    /\ dirs' = [dirs EXCEPT ![g] = "damaged"]
    /\ had' = (had /\ g # keys.panel)
    /\ UNCHANGED <<keys, sudoers, sudoersNext, acceptenv, acceptenvNext, link, keydir,
                   loaded, pc, tree, before, dropin, proven, touched, reload, verdict>>

Move ==
    \/ InstallGeneration("install", "install_rename", "rule_next")
    \/ RenameGeneration("install_rename", "rule_next")
    \/ WriteRuleNext \/ PlaceAcceptNext("accept_next", "check_next") \/ CheckAcceptNext
    \/ ReloadNext \/ AddProofLine \/ ProveBeside \/ RemoveProofLine \/ EndProof
    \/ SwitchKeys \/ ProveSwitch \/ SwitchBack

Undo == UndoDir \/ UndoRule \/ UndoAccept \/ UndoReload

Retire ==
    \/ InstallGeneration("retire", "retire_rename", "retire_keys")
    \/ RenameGeneration("retire_rename", "retire_keys")
    \/ RetireKeys \/ RetireRule \/ RetireAccept \/ RetireCheck
    \/ RetireRuleNext \/ RetireAcceptNext \/ RetireReload \/ RetireProve
    \/ AgainRule \/ PlaceAcceptNext("again_accept", "again_check") \/ AgainCheck
    \/ Link \/ Sweep

Program == (\E t \in Gens : Start(t)) \/ Reject \/ Move \/ Undo \/ Retire
Environment == Crash \/ SshdRestart \/ \E g \in Gens : Damage(g)

Next == Program \/ Environment
Spec == Init /\ [][Next]_vars

-----------------------------------------------------------------------------
\* Properties.

Steps == {"idle", "install", "install_rename", "rule_next", "accept_next", "check_next",
          "reload_next", "proof_line", "proof", "proof_back", "proof_end", "switch",
          "prove_switch", "switch_back", "undo_dir", "undo_rule", "undo_accept", "undo_reload",
          "retire", "retire_rename", "retire_keys", "retire_rule", "retire_accept",
          "retire_check", "retire_rule_next", "retire_accept_next", "retire_reload",
          "retire_prove", "again_rule", "again_accept", "again_check", "link", "sweep"}

KeyFile == [panel : Paths, proof : BOOLEAN]

\* Every variable has its type.
TypeOK ==
    /\ keys \in KeyFile /\ before \in KeyFile
    /\ dirs \in [Gens -> {"absent", "intact", "damaged"}]
    /\ sudoers \in Paths /\ sudoersNext \in Paths
    /\ acceptenv \in Paths /\ acceptenvNext \in Paths /\ dropin \in Paths
    /\ loaded \subseteq Variable
    /\ link \in Paths
    /\ pc \in Steps /\ tree \in Gens
    /\ keydir \in BOOLEAN /\ had \in BOOLEAN /\ proven \in BOOLEAN /\ touched \in BOOLEAN /\ reload \in BOOLEAN
    /\ verdict \in {"none", "ok", "refused", "rejected"}

\* "The panel keeps a path it could dispatch through": a path that worked when a
\* run began works at every step of that run, after its refusal, after a crash
\* between any two of its steps and after a restart of sshd.  Only a directory
\* damaged from outside takes it away.
KeepsAPath == had => CanDispatch

\* An "ok" verdict means the whole path is this tree's, whatever an earlier run
\* left half done: the panel's line alone in authorized_keys, the rules in the
\* main files, no -next file, the link on it, no other generation, no proof key.
OkMeansThisTreeAlone ==
    verdict = "ok" =>
        /\ keys = [panel |-> tree, proof |-> FALSE] /\ ~keydir
        /\ sudoers = tree /\ acceptenv = tree
        /\ sudoersNext = NONE /\ acceptenvNext = NONE
        /\ link = tree
        /\ \A g \in Gens : dirs[g] = "absent" <=> g # tree

\* "ok" is said of a path that answers, unless it was damaged since: also by a
\* run that found every file in place and, nothing touched, proved nothing.
OkAnswers == verdict = "ok" /\ dirs[tree] = "intact" => CanDispatch

\* A run refused while the panel is still on another path has removed all that
\* BESIDE added, and all that a run cut short before it had added.
RefusedLeavesNothing ==
    verdict = "refused" /\ keys.panel # tree =>
        /\ keys.panel = before.panel
        /\ dirs[tree] = "absent"
        /\ sudoersNext = NONE /\ acceptenvNext = NONE

=============================================================================
