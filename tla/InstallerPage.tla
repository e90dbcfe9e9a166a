--------------------------- MODULE InstallerPage ----------------------------
(***************************************************************************)
(* The installer's browser page (server.py) and the runs it opens          *)
(* (run.py): requests on threads of their own, the install of a run in a   *)
(* background thread, an inventory's .env and state file, and a console    *)
(* window that may be closed at any instant.                               *)
(*                                                                         *)
(* A run is one Run object of the process.  The handler reads the class's  *)
(* run afresh at every access, so a request goes on with whatever run is   *)
(* the page's by then.  What the probes and the legs do on the server is   *)
(* in ConsoleInstall and Install: here they end well or not.               *)
(***************************************************************************)
EXTENDS Naturals

CONSTANTS
    Inventories,
    Answers, BLANK,   \* what a form can hold; BLANK is every field at its default
    Tabs,             \* the browser's tabs: each waits for its own request
    MaxRuns,          \* bound: the Run objects of one process
    MaxStarts,        \* bound: the launcher's processes, numbered by their pid
    Ghosts,           \* pids of dead launchers that are another process's by now
    Reopens,          \* whether a client opens an inventory this process has
                      \* installed or is installing
    NONE, TORN

ASSUME PageAssumption ==
    /\ BLANK \in Answers /\ {NONE, TORN} \cap Answers = {} /\ NONE # TORN
    /\ MaxRuns \in Nat /\ MaxStarts \in Nat \ {0} /\ NONE \notin Nat
    /\ Ghosts \subseteq 1..MaxStarts /\ Reopens \in BOOLEAN

Runs == 1..MaxRuns

VARIABLES
    pid, up,    \* the launcher process: its pid, and whether it serves
    runs,       \* how many Run objects it made
    run,        \* the objects: inventory, answers, state, keyset, forward
    page,       \* _Handler.run
    post,       \* the POST of each tab
    job,        \* the install thread of each run
    env,        \* .env of each inventory: NONE, TORN or answers
    file,       \* its state file, or NONE
    printed     \* the inventories whose passwords this process was shown

memory == <<runs, run, page, post, job, printed>>
disk == <<env, file>>
vars == <<pid, up, memory, disk>>

Saving == {"truncate", "write", "record"}
NoRun == [inv |-> NONE, answers |-> BLANK, state |-> "answering",
          keyset |-> FALSE, forward |-> FALSE]
NoPost == [pc |-> "idle", run |-> NONE, verified |-> NONE]
NoJob == [pc |-> "none", verified |-> NONE, reads |-> {}]

Fresh ==
    /\ runs = 0 /\ run = [r \in Runs |-> NoRun] /\ page = NONE
    /\ post = [t \in Tabs |-> NoPost] /\ job = [r \in Runs |-> NoJob]
    /\ printed = {}

Init ==
    /\ pid = 1 /\ up = TRUE
    /\ Fresh
    /\ env = [i \in Inventories |-> NONE]
    /\ file = [i \in Inventories |-> NONE]

InLegs == {"login", "accounts", "system", "converge"}

(* The install of a run is under way: its thread runs, or the request that *)
(* starts it has set the state.                                            *)
Working(r) ==
    \/ job[r].pc \in InLegs
    \/ \E t \in Tabs : post[t].run = r /\ post[t].pc \in {"start truncate", "start write", "start record"}

(* Its thread died of an exception nothing caught.                         *)
Gone(r) == job[r].pc = "gone"

-----------------------------------------------------------------------------
(* Run.save, in its three writes to disk: write_env's truncation and its   *)
(* text, then the state file, replaced whole.                              *)
Truncate(r) == env' = [env EXCEPT ![run[r].inv] = TORN] /\ UNCHANGED file
WriteEnv(r) == env' = [env EXCEPT ![run[r].inv] = run[r].answers] /\ UNCHANGED file

Record(r) ==
    /\ file' = [file EXCEPT ![run[r].inv] = [state |-> run[r].state, pid |-> pid]]
    /\ UNCHANGED env

(* MUTANT: the state file is taken at its word.                            *)
LoadedStateTrusted(i) == IF file[i] = NONE THEN "answering" ELSE file[i].state

(* load: the state of the state file, but an install whose launcher is     *)
(* gone has failed.  A torn .env has no answers.                           *)
LoadedState(i) ==
    IF file[i] = NONE THEN "answering"
    ELSE IF file[i].state = "installing" /\ file[i].pid \notin {pid} \cup Ghosts
         THEN "failed" ELSE file[i].state

Loaded(i) ==
    [NoRun EXCEPT !.inv = i, !.state = LoadedState(i),
                  !.answers = IF env[i] \in {NONE, TORN} THEN BLANK ELSE env[i]]

(* _open: the run is loaded anew and becomes the page's; a new inventory   *)
(* is written to disk first.                                               *)
Open(t, i) ==
    /\ up /\ post[t].pc = "idle" /\ runs < MaxRuns
    /\ Reopens \/ \A r \in 1..runs : run[r].inv = i =>
                     ~Working(r) /\ job[r].pc = "none" /\ ~run[r].keyset
    /\ runs' = runs + 1
    /\ run' = [run EXCEPT ![runs'] = Loaded(i)]
    /\ page' = runs'
    /\ env' = [env EXCEPT ![i] = IF @ = NONE THEN BLANK ELSE @]
    /\ file' = [file EXCEPT ![i] = IF @ = NONE THEN [state |-> "answering", pid |-> pid] ELSE @]
    /\ UNCHANGED <<pid, up, post, job, printed>>

-----------------------------------------------------------------------------
(* POST / and start_install.                                               *)

Step(t, pc) == post' = [post EXCEPT ![t].pc = pc]

(* The form's answers go to the run, unless its install is running.  The   *)
(* model takes a person's click to be slower than the three writes with    *)
(* which the last install's thread records its verdict.                    *)
Answer(t, a) ==
    /\ up /\ post[t].pc = "idle" /\ page # NONE
    /\ job[page].pc \notin Saving
    /\ run[page].state # "installing"
    /\ run' = [run EXCEPT ![page].answers = a]
    /\ Step(t, "verify")
    /\ UNCHANGED <<pid, up, runs, page, job, disk, printed>>

(* The required fields and the probes, over the run's answers: verified    *)
(* holds the answers that passed, NONE when a check blocks.                *)
Verify(t) ==
    /\ post[t].pc = "verify"
    /\ \E ok \in BOOLEAN :
         /\ ok => run[page].answers # BLANK
         /\ post' = [post EXCEPT ![t].pc = "truncate", ![t].verified =
                                   IF ok THEN run[page].answers ELSE NONE]
    /\ UNCHANGED <<pid, up, runs, run, page, job, disk, printed>>

(* save(), whatever the checks found: the run that is the page's now.      *)
SavePost(t) ==
    \/ /\ post[t].pc = "truncate"
       /\ post' = [post EXCEPT ![t].run = page, ![t].pc = "write"]
       /\ Truncate(page)
    \/ /\ post[t].pc = "write" /\ Step(t, "record") /\ WriteEnv(post[t].run)
    \/ /\ post[t].pc = "record"
       /\ Record(post[t].run)
       /\ post' = [post EXCEPT ![t] = IF @.verified = NONE THEN NoPost
                                      ELSE [@ EXCEPT !.pc = "start"]]

(* MUTANT: the state file is written without the new state.                *)
StartUnsaved(t) ==
    /\ post[t].pc = "start"
    /\ run' = [run EXCEPT ![page].state = "installing"]
    /\ job' = [job EXCEPT ![page] = [NoJob EXCEPT !.pc = "login", !.verified = post[t].verified]]
    /\ post' = [post EXCEPT ![t] = NoPost]
    /\ UNCHANGED <<pid, up, runs, page, disk, printed>>

(* MUTANT: the thread starts, and then the run is saved.                   *)
StartThreadFirst(t) ==
    /\ post[t].pc = "start"
    /\ run' = [run EXCEPT ![page].state = "installing"]
    /\ post' = [post EXCEPT ![t].run = page, ![t].pc = "start truncate"]
    /\ job' = [job EXCEPT ![page] = [NoJob EXCEPT !.pc = "login", !.verified = post[t].verified]]
    /\ UNCHANGED <<pid, up, runs, page, disk, printed>>

(* start_install on the page's run: the state, a second save, the thread.  *)
Start(t) ==
    /\ post[t].pc = "start"
    /\ run' = [run EXCEPT ![page].state = "installing"]
    /\ post' = [post EXCEPT ![t].run = page, ![t].pc = "start truncate"]
    /\ UNCHANGED <<pid, up, runs, page, job, disk, printed>>

SaveStart(t) ==
    \/ /\ post[t].pc = "start truncate" /\ Step(t, "start write")
       /\ Truncate(post[t].run) /\ UNCHANGED job
    \/ /\ post[t].pc = "start write" /\ Step(t, "start record")
       /\ WriteEnv(post[t].run) /\ UNCHANGED job
    \/ /\ post[t].pc = "start record"
       /\ Record(post[t].run)
       /\ post' = [post EXCEPT ![t] = NoPost]
       /\ job' = [job EXCEPT ![post[t].run] =
                    [NoJob EXCEPT !.pc = "login", !.verified = post[t].verified]]

Save(t) ==
    /\ \/ SavePost(t) /\ UNCHANGED job
       \/ SaveStart(t)
    /\ UNCHANGED <<pid, up, runs, run, page, printed>>

-----------------------------------------------------------------------------
(* The install thread: install.run over the run's .env, then the verdict.  *)

(* MUTANT: the thread ends and the run is not told.                        *)
VerdictUntold(r, thread, rc) ==
    /\ job' = [job EXCEPT ![r] = [thread EXCEPT !.pc = "none"]]
    /\ UNCHANGED run

(* body after install.run: the state, then a save, then the forward.       *)
Verdict(r, thread, rc) ==
    /\ run' = [run EXCEPT ![r].state = IF rc = 0 THEN "done" ELSE "failed"]
    /\ job' = [job EXCEPT ![r] = [thread EXCEPT !.pc = "truncate"]]

(* The thread dies of what neither install.run nor body catches, an        *)
(* SSHException of paramiko's above all: a login, an upload or a leg's     *)
(* `finally` on a connection that dropped.  The run is not told.           *)
Dies(r, thread) == job' = [job EXCEPT ![r] = [thread EXCEPT !.pc = "gone"]] /\ UNCHANGED run

(* Server.of and login read the .env, and so does each leg, with the file's *)
(* bytes sent up; a login, an upload or a first leg that fails with an     *)
(* error of theirs or a status is the verdict.                             *)
Leg(r) ==
    /\ job[r].pc \in {"login", "accounts", "system"}
    /\ LET read == [job[r] EXCEPT !.reads = @ \cup {env[run[r].inv]}]
           next == CASE job[r].pc = "login" -> "accounts"
                     [] job[r].pc = "accounts" -> "system"
                     [] job[r].pc = "system" -> "converge"
       IN  \/ job' = [job EXCEPT ![r] = [read EXCEPT !.pc = next]] /\ UNCHANGED run
           \/ Verdict(r, read, 1)
           \/ Dies(r, read)
    /\ UNCHANGED <<pid, up, runs, page, post, disk, printed>>

(* The system leg prints the passwords block: Output hands it to the run   *)
(* and keeps it from the console.                                          *)
Keyset(r) ==
    /\ job[r].pc = "converge" /\ run[r].inv \notin printed
    /\ run' = [run EXCEPT ![r].keyset = TRUE]
    /\ printed' = printed \cup {run[r].inv}
    /\ UNCHANGED <<pid, up, runs, page, post, job, disk>>

(* The system leg's status, and after 0 or 3 the outside checks.           *)
Checked(r) ==
    /\ job[r].pc = "converge"
    /\ (\E rc \in {0, 1, 3} : Verdict(r, job[r], rc)) \/ Dies(r, job[r])
    /\ UNCHANGED <<pid, up, runs, page, post, disk, printed>>

(* open_forward: the panel account's session, unless the run holds one.    *)
OpenForward(r) == \E open \in BOOLEAN : run' = [run EXCEPT ![r].forward = @ \/ open]

SaveVerdict(r) ==
    /\ \/ /\ job[r].pc = "truncate" /\ Truncate(r) /\ job' = [job EXCEPT ![r].pc = "write"]
          /\ UNCHANGED run
       \/ /\ job[r].pc = "write" /\ WriteEnv(r) /\ job' = [job EXCEPT ![r].pc = "record"]
          /\ UNCHANGED run
       \/ /\ job[r].pc = "record" /\ Record(r) /\ job' = [job EXCEPT ![r].pc = "none"]
          /\ IF run[r].state = "done" THEN OpenForward(r) ELSE UNCHANGED run
    /\ UNCHANGED <<pid, up, runs, page, post, printed>>

(* POST /connect: the same, asked for by the page.                         *)
Connect(t) ==
    /\ up /\ post[t].pc = "idle" /\ page # NONE
    /\ ~run[page].forward /\ OpenForward(page)
    /\ UNCHANGED <<pid, up, runs, page, post, job, disk, printed>>

-----------------------------------------------------------------------------
(* The console window is closed, and opened again on no inventory (the     *)
(* first tab is the picker) or on one (--inventory, as Open).              *)
Close ==
    /\ up /\ up' = FALSE
    /\ runs' = 0 /\ run' = [r \in Runs |-> NoRun] /\ page' = NONE
    /\ post' = [t \in Tabs |-> NoPost] /\ job' = [r \in Runs |-> NoJob]
    /\ printed' = {}
    /\ UNCHANGED <<pid, disk>>

Launch ==
    /\ ~up /\ pid < MaxStarts
    /\ up' = TRUE /\ pid' = pid + 1
    /\ UNCHANGED <<memory, disk>>

Request(t) == Verify(t) \/ Save(t) \/ Start(t)
Thread(r) == Leg(r) \/ Keyset(r) \/ Checked(r) \/ SaveVerdict(r)

Next ==
    \/ \E t \in Tabs : \/ Request(t) \/ Connect(t)
                       \/ \E i \in Inventories : Open(t, i)
                       \/ \E a \in Answers : Answer(t, a)
    \/ \E r \in Runs : Thread(r)
    \/ Close \/ Launch

(* Threads run: a request goes on to its end, and so does an install.      *)
Fairness ==
    /\ \A t \in Tabs : WF_vars(Request(t))
    /\ \A r \in Runs : WF_vars(Thread(r))

Spec == Init /\ [][Next]_vars /\ Fairness

-----------------------------------------------------------------------------
(* Types.                                                                  *)
TypeOK ==
    /\ pid \in 1..MaxStarts /\ up \in BOOLEAN /\ runs \in 0..MaxRuns
    /\ run \in [Runs -> [inv : Inventories \cup {NONE}, answers : Answers,
                         state : {"answering", "installing", "done", "failed"},
                         keyset : BOOLEAN, forward : BOOLEAN]]
    /\ page \in Runs \cup {NONE}
    /\ post \in [Tabs -> [pc : {"idle", "verify", "start", "start truncate", "start write",
                                "start record"} \cup Saving,
                          run : Runs \cup {NONE}, verified : Answers \cup {NONE}]]
    /\ job \in [Runs -> [pc : {"none", "gone"} \cup InLegs \cup Saving,
                         verified : Answers \cup {NONE}, reads : SUBSET (Answers \cup {NONE, TORN})]]
    /\ env \in [Inventories -> Answers \cup {NONE, TORN}]
    /\ file \in [Inventories -> [state : {"answering", "installing", "done", "failed"},
                                 pid : 1..MaxStarts] \cup {NONE}]
    /\ printed \subseteq Inventories

(* "What a resumed run needs to know is whether an install is running"     *)
(* (run.py): the page says installing exactly while the run's install is   *)
(* under way, across closed windows and reopened inventories, or once its  *)
(* thread has died, which nothing tells the run.                           *)
StateHonest == page # NONE =>
    (run[page].state = "installing" <=> Working(page) \/ Gone(page))

(* "Save the form, verify every section, and start the install when none   *)
(* of them blocks" (do_POST): every .env an install reads, from its login  *)
(* to its last leg, holds the answers that were verified for it.           *)
ReadsVerified == \A r \in Runs : job[r].reads \subseteq {job[r].verified}

(* "Closing the console stops the install with it; reopening its inventory *)
(* keeps every answer and offers the install again, as after a failed      *)
(* one" (README): what the disk holds while an install runs, once its      *)
(* thread has died too, and until the window is opened again, is the       *)
(* answers and a state that loads as failed.                               *)
KillKeepsAnswers == \A r \in Runs :
    job[r].pc \in InLegs \cup {"gone"} =>
        /\ env[run[r].inv] = job[r].verified
        /\ file[run[r].inv] = [state |-> "installing", pid |-> pid]

(* "They go to the run's keyset, which the page shows in its own section,  *)
(* and not to the console window" (start_install): passwords this process  *)
(* was shown once are on the page of their inventory while it lives.       *)
KeysetShown == page # NONE /\ run[page].inv \in printed => run[page].keyset

(* An install that is under way comes to its verdict, and a page that      *)
(* waits for one gets it: it takes answers again, unless the thread died.  *)
InstallEnds == \A r \in Runs :
    run[r].state = "installing" ~> run[r].state # "installing" \/ Gone(r)
=============================================================================
