--------------------------- MODULE ConvergeFiles ----------------------------
(***************************************************************************)
(* The files converges install and take away again: each release declares  *)
(* the executable paths it ships, roles write them, and the converge's     *)
(* tail (tasks/prune_withdrawn_files.yml over converge_manifest.py) removes*)
(* what an earlier converge recorded and this one does not declare.  The   *)
(* panel's payload and people write the same directories, and a converge   *)
(* may stop between any two tasks.                                         *)
(*                                                                         *)
(* A file's digest is its content.  A manifest is a function from paths to *)
(* digests, NONE for one that could not be read; an absent or unreadable   *)
(* manifest is the empty function.                                         *)
(***************************************************************************)
EXTENDS Naturals

CONSTANTS
    Paths, Contents, NONE,
    Releases,
    Declares,    \* the paths a release declares
    Bytes,       \* what its roles write there
    FeaturesOff,   \* a declared path may belong to a feature switched off
    OthersOverlap  \* the payload and people write while a converge runs

VARIABLES
    disk,      \* each path's content, or NONE
    manifest,  \* what the last converge recorded
    payload,   \* the paths the payload's manifest lists
    run,       \* the converge in progress
    wrote      \* auxiliary: what converges wrote, and where

vars == <<disk, manifest, payload, run, wrote>>

NoRun == [pc |-> "idle", rel |-> NONE, left |-> {}, cand |-> << >>, ours |-> {}]

Init ==
    /\ disk = [p \in Paths |-> NONE]
    /\ manifest = << >> /\ payload = {}
    /\ run = NoRun /\ wrote = {}

Begin(r) ==
    /\ run.pc = "idle"
    /\ run' = [NoRun EXCEPT !.pc = "roles", !.rel = r, !.left = Declares[r]]
    /\ UNCHANGED <<disk, manifest, payload, wrote>>

(* A role copies its file.                                                 *)
CopyFile(p) ==
    /\ run.pc = "roles" /\ p \in run.left
    /\ disk' = [disk EXCEPT ![p] = Bytes[run.rel][p]]
    /\ wrote' = wrote \cup {<<p, Bytes[run.rel][p]>>}
    /\ run' = [run EXCEPT !.left = @ \ {p}]
    /\ UNCHANGED <<manifest, payload>>

(* A feature switched off declares its file and does not install it.       *)
SwitchedOff(p) ==
    /\ FeaturesOff
    /\ run.pc = "roles" /\ p \in run.left
    /\ run' = [run EXCEPT !.left = @ \ {p}]
    /\ UNCHANGED <<disk, manifest, payload, wrote>>

(* converge_withdrawn: recorded, and not declared now.                     *)
Withdrawn ==
    /\ run.pc = "roles" /\ run.left = {}
    /\ run' = [run EXCEPT !.pc = "claims",
                          !.cand = [p \in (DOMAIN manifest) \ Declares[run.rel] |-> manifest[p]]]
    /\ UNCHANGED <<disk, manifest, payload, wrote>>

(* converge_unclaimed: less what the payload's manifest lists.             *)
Unclaimed ==
    /\ run.pc = "claims"
    /\ run' = [run EXCEPT !.pc = "stat",
                          !.cand = [p \in (DOMAIN run.cand) \ payload |-> run.cand[p]]]
    /\ UNCHANGED <<disk, manifest, payload, wrote>>

(* converge_prunable: on the host, and still what was recorded.            *)
Prunable(cand) == {p \in DOMAIN cand : disk[p] # NONE /\ cand[p] # NONE /\ cand[p] = disk[p]}

Stat ==
    /\ run.pc = "stat"
    /\ run' = [run EXCEPT !.pc = "remove", !.ours = Prunable(run.cand)]
    /\ UNCHANGED <<disk, manifest, payload, wrote>>

(* A unit is stopped and disabled before its file goes.                    *)
Remove(p) ==
    /\ run.pc = "remove" /\ p \in run.ours
    /\ disk' = [disk EXCEPT ![p] = NONE]
    /\ run' = [run EXCEPT !.ours = @ \ {p}]
    /\ UNCHANGED <<manifest, payload, wrote>>

(* converge_installed: every declared path that is on the host, with the   *)
(* digest it has right now, or none where it could not be read.            *)
StatDeclared(unread) ==
    /\ run.pc = "remove" /\ run.ours = {}
    /\ run' = [run EXCEPT !.pc = "record",
                          !.cand = [p \in {q \in Declares[run.rel] : disk[q] # NONE} |->
                                       IF p \in unread THEN NONE ELSE disk[p]]]
    /\ UNCHANGED <<disk, manifest, payload, wrote>>

Record ==
    /\ run.pc = "record"
    /\ manifest' = run.cand
    /\ run' = NoRun
    /\ UNCHANGED <<disk, payload, wrote>>

(* The converge fails, or is killed.                                       *)
Stop ==
    /\ run.pc # "idle"
    /\ run' = NoRun
    /\ UNCHANGED <<disk, manifest, payload, wrote>>

(* The payload's installer: its files, its manifest, and what it withdrew. *)
PayloadInstall(entries, c) ==
    /\ OthersOverlap \/ run.pc = "idle"
    /\ payload' = entries
    /\ disk' = [p \in Paths |-> IF p \in entries THEN c
                                ELSE IF p \in payload /\ disk[p] = c THEN NONE ELSE disk[p]]
    /\ UNCHANGED <<manifest, run, wrote>>

(* A person, or a package, writes or removes a file.                       *)
SomeoneWrites(p, c) ==
    /\ OthersOverlap \/ run.pc = "idle"
    /\ disk' = [disk EXCEPT ![p] = c]
    /\ UNCHANGED <<manifest, payload, run, wrote>>

Converge ==
    \/ \E r \in Releases : Begin(r)
    \/ \E p \in Paths : CopyFile(p) \/ SwitchedOff(p) \/ Remove(p)
    \/ Withdrawn \/ Unclaimed \/ Stat \/ Record \/ Stop
    \/ \E unread \in SUBSET Paths : StatDeclared(unread)

Next ==
    \/ Converge
    \/ \E entries \in SUBSET Paths, c \in Contents : PayloadInstall(entries, c)
    \/ \E p \in Paths, c \in Contents \cup {NONE} : SomeoneWrites(p, c)

Spec == Init /\ [][Next]_vars

-----------------------------------------------------------------------------
(* The three rules (converge_manifest.py): a file the prune removes is one *)
(* this release does not declare, that the payload does not claim, and     *)
(* that holds what a converge wrote at that path.                          *)
PruneOnlyOurs ==
    [][\A p \in run.ours \ run'.ours :
          run'.pc = "remove" =>
              /\ p \notin Declares[run.rel]
              /\ p \notin payload
              /\ disk[p] = NONE \/ <<p, disk[p]>> \in wrote]_vars
=============================================================================
