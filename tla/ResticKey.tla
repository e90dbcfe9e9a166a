----------------------------- MODULE ResticKey ------------------------------
(***************************************************************************)
(* The backup repository's password: catena-restic-key.py's generate,      *)
(* rotate and init, step by step, over the destination and the password in *)
(* the store, the pass file the backups read, the repositories themselves, *)
(* and the record that the backups wait after a whole-server restore.      *)
(* Each operation loads the store once and works from that copy.           *)
(* validate changes nothing and is left out.                               *)
(***************************************************************************)
EXTENDS FiniteSets

CONSTANTS
    Dests,       \* repository addresses
    Passwords,   \* bounds how many are ever minted or typed
    Foreign,     \* passwords of other servers' repositories
    Procs,       \* catena-restic-key processes
    Choices,     \* the Restore page's choices about the adopted repository
    NOREPO, FILES, NONE,
    CUT          \* a pass file, or a store, of which only a part was written

ASSUME PasswordsAssumption ==
    /\ Passwords \cap Foreign = {}
    /\ {NOREPO, FILES, NONE, CUT} \cap (Passwords \cup Foreign) = {}
    /\ NOREPO # FILES /\ NONE # CUT /\ NONE \notin Dests

Keys == Passwords \cup Foreign

VARIABLES
    repo,      \* what each destination holds: NOREPO, FILES or a key
    dest,      \* BACKUP_RESTIC_REPO in the store
    stored,    \* backup_restic_password in the store
    passfile,  \* /etc/catena/restic.pass
    hold,      \* backup-held.json: NONE or [settings, choice]
    known,     \* auxiliary: the keys someone other than this server has
    lost,      \* auxiliary: keys a generate set at a repository and did not store
    run        \* per process: its step, its copy of the store, its new key

vars == <<repo, dest, stored, passfile, hold, known, lost, run>>

Idle == [pc |-> "idle", op |-> "none", replace |-> FALSE,
         dest |-> NONE, pw |-> NONE, new |-> NONE]

Init ==
    /\ repo \in [Dests -> {NOREPO, FILES} \cup Foreign]
    /\ dest = NONE /\ stored = NONE /\ passfile = NONE /\ hold = NONE
    /\ known = Foreign /\ lost = {}
    /\ run = [p \in Procs |-> Idle]

(* os.urandom, or a password a client has not used before.                 *)
Fresh == Passwords \ (known \cup {stored, passfile} \cup {repo[d] : d \in Dests}
                            \cup {run[p].new : p \in Procs})

Goto(p, pc) == run' = [run EXCEPT ![p].pc = pc]
Refuse(p) == run' = [run EXCEPT ![p] = Idle]

-----------------------------------------------------------------------------

(* main: the store is read here, and nowhere after.  One that does not     *)
(* parse ends it.                                                          *)
Begin(p, op, replace) ==
    /\ run[p].pc = "idle" /\ stored # CUT
    /\ op = "generate" \/ ~replace
    /\ run' = [run EXCEPT ![p] = [pc |-> op, op |-> op, replace |-> replace,
                                  dest |-> dest, pw |-> stored, new |-> NONE]]
    /\ UNCHANGED <<repo, dest, stored, passfile, hold, known, lost>>

(* The repository the restore brought back, its choice not "fresh".        *)
AdoptedKept(d) == hold # NONE /\ hold.settings = d /\ hold.choice # "fresh"

(* MUTANT: the hold is not asked about the choice.                         *)
GenerateRefusedNoChoice(r) == r.pw # NONE /\ (~r.replace \/ hold = NONE \/ r.dest = NONE)

GenerateRefused(r) ==
    /\ r.pw # NONE
    /\ \/ ~r.replace
       \/ hold = NONE
       \/ r.dest = NONE
       \/ AdoptedKept(r.dest)

Generate(p) ==
    /\ run[p].pc = "generate"
    /\ LET r == run[p]
       IN  \/ GenerateRefused(r) /\ Refuse(p)
           \/ /\ ~GenerateRefused(r)
              /\ \E new \in Fresh :
                   run' = [run EXCEPT ![p].new = new,
                       ![p].pc = CASE r.pw # NONE /\ hold.settings = r.dest -> "rekey"
                                   [] r.dest = NONE -> "save"
                                   [] OTHER -> "probe"]
    /\ UNCHANGED <<repo, dest, stored, passfile, hold, known, lost>>

(* MUTANT: what restic answers is not looked at.                           *)
ProbeUnread(p) ==
    /\ run[p].pc = "probe"
    /\ Goto(p, "save")
    /\ UNCHANGED <<repo, dest, stored, passfile, hold, known, lost>>

(* cat config with the new password: no repository is the one good answer; *)
(* a repository answers "wrong password", and the network may not answer.  *)
Probe(p) ==
    /\ run[p].pc = "probe"
    /\ \/ repo[run[p].dest] \in {NOREPO, FILES} /\ Goto(p, "save")
       \/ Refuse(p)
    /\ UNCHANGED <<repo, dest, stored, passfile, hold, known, lost>>

(* The new password of a rotation is the client's.                         *)
Rotate(p) ==
    /\ run[p].pc = "rotate"
    /\ \/ hold # NONE /\ Refuse(p) /\ UNCHANGED known
       \/ hold = NONE /\ \E new \in Fresh :
             /\ run' = [run EXCEPT ![p].new = new, ![p].pc = "rekey"]
             /\ known' = known \cup {new}
    /\ UNCHANGED <<repo, dest, stored, passfile, hold, lost>>

(* MUTANT: restic's exit code is read the wrong way round.                 *)
RekeyMisread(p) ==
    /\ run[p].pc = "rekey"
    /\ LET r == run[p]
       IN  \/ /\ r.pw # NONE /\ r.dest # NONE /\ repo[r.dest] = r.pw
              /\ repo' = [repo EXCEPT ![r.dest] = r.new]
              /\ Refuse(p)
           \/ Goto(p, "save") /\ UNCHANGED repo
    /\ UNCHANGED <<dest, stored, passfile, hold, known, lost>>

(* _set_password: restic key passwd, from the stored key to the new one.   *)
Rekey(p) ==
    /\ run[p].pc = "rekey"
    /\ LET r == run[p]
       IN  \/ /\ r.pw # NONE /\ r.dest # NONE /\ repo[r.dest] = r.pw
              /\ repo' = [repo EXCEPT ![r.dest] = r.new]
              /\ Goto(p, "save")
           \/ Refuse(p) /\ UNCHANGED repo
    /\ UNCHANGED <<dest, stored, passfile, hold, known, lost>>

(* A key this run has set and nobody else has is not stored.               *)
Loses(p) == lost' = lost \cup (({run[p].new} \cap {repo[d] : d \in Dests}) \ known)

(* The run ends here.                                                      *)
CutShort(p) ==
    /\ Refuse(p)
    /\ IF run[p].pc = "save" THEN Loses(p) ELSE UNCHANGED lost

(* _save_store writes back both sections it loaded, the destination too,   *)
(* or raises (no room, a store that does not parse) and writes nothing.    *)
(* The count os.write returns is not read: a write cut short is renamed    *)
(* over the store like a whole one, and the run goes on.  The Settings     *)
(* page reveals what the store holds, so its key is known.                 *)
Save(p) ==
    /\ run[p].pc = "save"
    /\ \/ /\ stored # CUT
          /\ \/ /\ stored' = run[p].new /\ dest' = run[p].dest
                /\ known' = known \cup {run[p].new}
                /\ UNCHANGED lost
             \/ stored' = CUT /\ Loses(p) /\ UNCHANGED <<dest, known>>
          /\ Goto(p, IF run[p].op = "rotate" \/ run[p].replace THEN "pass" ELSE "ok")
       \/ CutShort(p) /\ UNCHANGED <<dest, stored, known>>
    /\ UNCHANGED <<repo, passfile, hold>>

(* write_text truncates the pass file and fills it, or raises in between.  *)
WritePass(p) ==
    /\ run[p].pc = "pass"
    /\ \/ passfile' = run[p].new /\ Goto(p, "ok")
       \/ passfile' \in {passfile, CUT} /\ Refuse(p)
    /\ UNCHANGED <<repo, dest, stored, hold, known, lost>>

(* cmd_init: no destination, no password, a repository of any key or no    *)
(* answer each end it here.                                                *)
InitProbe(p) ==
    /\ run[p].pc = "init"
    /\ LET r == run[p]
       IN  \/ Refuse(p)
           \/ /\ r.dest # NONE /\ r.pw # NONE
              /\ \/ repo[r.dest] = r.pw /\ Goto(p, "ok")
                 \/ repo[r.dest] \in {NOREPO, FILES} /\ Goto(p, "list")
    /\ UNCHANGED <<repo, dest, stored, passfile, hold, known, lost>>

(* MUTANT: the destination is not listed.                                  *)
InitListSkipped(p) ==
    /\ run[p].pc = "list"
    /\ Goto(p, "create")
    /\ UNCHANGED <<repo, dest, stored, passfile, hold, known, lost>>

(* _location_holds_anything: a listing that fails also refuses.            *)
InitList(p) ==
    /\ run[p].pc = "list"
    /\ \/ repo[run[p].dest] = NOREPO /\ Goto(p, "create")
       \/ Refuse(p)
    /\ UNCHANGED <<repo, dest, stored, passfile, hold, known, lost>>

(* restic init refuses a location that holds a repository by now, and      *)
(* minds no other file there.                                              *)
InitCreate(p) ==
    /\ run[p].pc = "create"
    /\ \/ /\ repo[run[p].dest] \in {NOREPO, FILES}
          /\ repo' = [repo EXCEPT ![run[p].dest] = run[p].pw]
          /\ Goto(p, "ok")
       \/ Refuse(p) /\ UNCHANGED repo
    /\ UNCHANGED <<dest, stored, passfile, hold, known, lost>>

(* The answer is printed.                                                  *)
Answer(p) ==
    /\ run[p].pc = "ok"
    /\ run' = [run EXCEPT ![p] = Idle]
    /\ UNCHANGED <<repo, dest, stored, passfile, hold, known, lost>>

(* Killed at any step, the write of the pass file included.                *)
Die(p) ==
    /\ run[p].pc # "idle"
    /\ CutShort(p)
    /\ \/ UNCHANGED passfile
       \/ run[p].pc = "pass" /\ passfile' = CUT
    /\ UNCHANGED <<repo, dest, stored, hold, known>>

-----------------------------------------------------------------------------
(* The rest of the server.                                                 *)

Quiet == \A p \in Procs : run[p].pc = "idle"

(* Settings saves a destination, while an operation runs too.              *)
SaveDestination(d) ==
    /\ stored # CUT
    /\ dest' = d
    /\ UNCHANGED <<repo, stored, passfile, hold, known, lost, run>>

(* The converge writes the pass file only if absent and configured.        *)
ConvergePassFile ==
    /\ passfile = NONE /\ stored \notin {NONE, CUT} /\ dest # NONE
    /\ passfile' = stored
    /\ UNCHANGED <<repo, dest, stored, hold, known, lost, run>>

(* A whole-server restore: the store returns with the repository it was    *)
(* restored from and the key the client opened it with.                    *)
Restore(d, choice) ==
    /\ Quiet
    /\ repo[d] \in known
    /\ dest' = d /\ stored' = repo[d] /\ passfile' = repo[d]
    /\ hold' = [settings |-> d, choice |-> choice]
    /\ UNCHANGED <<repo, known, lost, run>>

(* The destination is confirmed, or a new one is in use.                   *)
Confirm ==
    /\ Quiet
    /\ hold # NONE
    /\ hold' = NONE
    /\ UNCHANGED <<repo, dest, stored, passfile, known, lost, run>>

Step(p) ==
    \/ \E op \in {"generate", "rotate", "init"}, b \in BOOLEAN : Begin(p, op, b)
    \/ Generate(p) \/ Probe(p) \/ Rotate(p) \/ Rekey(p) \/ Save(p) \/ WritePass(p)
    \/ InitProbe(p) \/ InitList(p) \/ InitCreate(p) \/ Answer(p) \/ Die(p)

Next ==
    \/ \E p \in Procs : Step(p)
    \/ \E d \in Dests : SaveDestination(d) \/ \E c \in Choices : Restore(d, c)
    \/ ConvergePassFile \/ Confirm

Spec == Init /\ [][Next]_vars

-----------------------------------------------------------------------------

PCs == {"idle", "generate", "rotate", "init", "probe", "rekey", "save", "pass",
        "list", "create", "ok"}

(* Types, and: only an operation that has a new key reaches a write of it. *)
TypeOK ==
    /\ repo \in [Dests -> {NOREPO, FILES} \cup Keys]
    /\ dest \in Dests \cup {NONE}
    /\ stored \in Keys \cup {NONE, CUT} /\ passfile \in Keys \cup {NONE, CUT}
    /\ hold \in [settings : Dests, choice : Choices] \cup {NONE}
    /\ known \subseteq Keys /\ lost \subseteq Keys
    /\ run \in [Procs -> [pc : PCs, op : {"none", "generate", "rotate", "init"},
                          replace : BOOLEAN, dest : Dests \cup {NONE},
                          pw : Keys \cup {NONE}, new : Passwords \cup {NONE}]]
    /\ \A p \in Procs : run[p].pc \in {"rekey", "save", "pass"} => run[p].new # NONE

(* No repository is left with a key that no client, no store page and no   *)
(* run about to store it holds, its backups never to be read again, but    *)
(* the one generate re-keyed and was killed, or did not save the store     *)
(* whole, before anyone else had the key (342-356).  No refusal, no failed *)
(* re-key and no death at another step loses one.                          *)
EveryRepoOpens ==
    \A d \in Dests : repo[d] \in Keys =>
        repo[d] \in known \cup lost \cup {run[p].new : p \in Procs}

(* cmd_init and cmd_generate: files that are not a repository, which       *)
(* restic would create one beside, and a repository the stored password    *)
(* does not open are never written to.                                     *)
OthersStand ==
    [][\A d \in Dests : repo'[d] # repo[d] =>
          repo[d] = NOREPO \/ \E p \in Procs : repo[d] = run[p].pw]_vars

(* What ok means.  Of a re-key: the repository, the store, unless the disk *)
(* cut it short, and the pass file hold one password (33).  Of a generate: the password it stored is  *)
(* none that "would make every backup to it fail" (139-140), the saved     *)
(* destination having no repository or one of the new key.  Of init: the   *)
(* stored password opens the repository.                                   *)
OkMeansRekeyed ==
    \A p \in Procs : run[p].pc = "ok" =>
        LET r == run[p]
        IN  /\ r.op = "rotate" \/ r.replace => stored \in {r.new, CUT} /\ passfile = r.new
            /\ r.op = "rotate" => repo[r.dest] = r.new
            /\ r.op = "generate" /\ r.dest # NONE =>
                  repo[r.dest] \in {NOREPO, FILES, r.new}
            /\ r.op = "init" => repo[r.dest] = r.pw

(* While the backups wait after a restore the repository it adopted is not *)
(* re-keyed, unless the Restore page's choice is a fresh one (18-22).      *)
HeldNotRekeyed ==
    [][\A d \in Dests : hold # NONE /\ repo[d] \in Keys /\ repo'[d] # repo[d] =>
          hold = [settings |-> d, choice |-> "fresh"]]_vars
=============================================================================
