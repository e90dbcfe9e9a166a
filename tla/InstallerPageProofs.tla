------------------------ MODULE InstallerPageProofs -------------------------
(***************************************************************************)
(* The safety properties of InstallerPage for every number of inventories, *)
(* answers, Run objects and launches.  As in the run that checks them, one *)
(* tab posts, no dead launcher's pid is another process's, and an          *)
(* inventory this process installs is not opened again: with more tabs,    *)
(* ghosts or reopening they are not the code's (InstallerPageReopen).      *)
(***************************************************************************)
EXTENDS InstallerPage, TLAPS

OneTab == \A t, u \in Tabs : t = u

Legs == InLegs \cup {"gone"}
Busy(r) == Working(r) \/ Gone(r)
Starting == {"start truncate", "start write", "start record"}

(* The page's run is the one opened last, and only an opened run works.    *)
Opened ==
    /\ page = IF runs = 0 THEN NONE ELSE runs
    /\ \A r \in Runs : IF r <= runs THEN run[r].inv \in Inventories
                       ELSE run[r].state = "answering" /\ job[r].pc = "none"

(* A closed launcher has no run and no request.                            *)
Down == ~up => runs = 0 /\ \A t \in Tabs : post[t].pc = "idle"

(* A request works on the page's run, which has no install thread by then, *)
(* and carries that run's answers once they were verified.                 *)
Posting == \A t \in Tabs :
    /\ post[t].pc # "idle" => page # NONE /\ job[page].pc = "none"
    /\ post[t].pc \in {"write", "record"} \cup Starting => post[t].run = page
    /\ post[t].pc \in Saving => post[t].verified \in {NONE, run[page].answers}
    /\ post[t].pc \in {"start"} \cup Starting => post[t].verified = run[page].answers
    /\ post[t].pc = "start record" => env[run[page].inv] = run[page].answers

(* StateHonest, of every run.                                              *)
Honest == \A r \in Runs : run[r].state = "installing" <=> Busy(r)

(* Of the runs of an inventory only the last has an install thread.        *)
LastWorks == \A r, s \in Runs :
    r < s /\ s <= runs /\ run[r].inv = run[s].inv => job[r].pc = "none"

(* A state file that says this process installs is of an install of it.    *)
Files == \A i \in Inventories : file[i] # NONE =>
    /\ file[i].pid <= pid
    /\ up /\ file[i].state = "installing" /\ file[i].pid = pid =>
          \E r \in Runs : run[r].inv = i /\ job[r].pc # "none"

IInv == /\ TypeOK /\ Opened /\ Down /\ Posting /\ Honest /\ LastWorks /\ Files
        /\ KillKeepsAnswers /\ ReadsVerified

RunSet == [inv : Inventories \cup {NONE}, answers : Answers,
           state : {"answering", "installing", "done", "failed"},
           keyset : BOOLEAN, forward : BOOLEAN]
PostSet == [pc : {"idle", "verify", "start", "start truncate", "start write", "start record"} \cup Saving,
            run : Runs \cup {NONE}, verified : Answers \cup {NONE}]
JobSet == [pc : {"none", "gone"} \cup InLegs \cup Saving,
           verified : Answers \cup {NONE}, reads : SUBSET (Answers \cup {NONE, TORN})]
FileSet == [state : {"answering", "installing", "done", "failed"}, pid : 1..MaxStarts]

-----------------------------------------------------------------------------
(* The types, as functions into named sets of records.                     *)
LEMMA Types ==
  TypeOK <=> /\ pid \in 1..MaxStarts /\ up \in BOOLEAN /\ runs \in 0..MaxRuns
             /\ run \in [Runs -> RunSet] /\ page \in Runs \cup {NONE}
             /\ post \in [Tabs -> PostSet] /\ job \in [Runs -> JobSet]
             /\ env \in [Inventories -> Answers \cup {NONE, TORN}]
             /\ file \in [Inventories -> FileSet \cup {NONE}]
             /\ printed \subseteq Inventories
  BY DEF TypeOK, RunSet, PostSet, JobSet, FileSet

(* Facts of numbers.                                                       *)
LEMMA Numbers ==
  ASSUME TypeOK
  PROVE  pid \in Nat /\ pid <= pid /\ runs \in Nat /\ runs <= runs /\ Runs \subseteq Nat
<1>1. pid \in 1..MaxStarts /\ runs \in 0..MaxRuns
  BY Types
<1> QED
  BY <1>1, PageAssumption DEF Runs

(* What a request under way may count on: the page's run is the last one,  *)
(* it has no install thread, and neither has another run of its inventory. *)
LEMMA PostFacts ==
  ASSUME IInv, NEW t \in Tabs, post[t].pc # "idle"
  PROVE  /\ up /\ page \in Runs /\ page = runs /\ run[page].inv \in Inventories
         /\ \A r \in Runs : run[r].inv = run[page].inv => job[r].pc = "none"
<1>1. page # NONE /\ job[page].pc = "none" /\ up /\ runs # 0 /\ page = runs
  BY DEF IInv, Posting, Down, Opened
<1>2. runs \in 0..MaxRuns /\ MaxRuns \in Nat
  BY Types, PageAssumption DEF IInv
<1>3. page \in Runs
  BY <1>1, <1>2 DEF Runs
<1>4. ASSUME NEW r \in Runs, run[r].inv = run[page].inv PROVE job[r].pc = "none"
  <2>1. r \in Nat /\ page \in Nat
    BY <1>2, <1>3 DEF Runs
  <2>2. CASE r < page
    BY <1>1, <1>3, <1>4, <2>1, <2>2 DEF IInv, LastWorks
  <2>3. CASE r = page
    BY <1>1, <2>3
  <2>4. CASE r > page
    BY <1>1, <2>1, <2>4 DEF IInv, Opened
  <2> QED
    BY <2>1, <2>2, <2>3, <2>4
<1> QED
  BY <1>1, <1>2, <1>3, <1>4 DEF IInv, Opened, Runs

(* What an install thread may count on: no other run of its inventory has  *)
(* one, and the page takes no request on that inventory.                   *)
LEMMA ThreadFacts ==
  ASSUME IInv, NEW r \in Runs, job[r].pc # "none"
  PROVE  /\ up /\ r <= runs /\ run[r].inv \in Inventories /\ page \in Runs
         /\ \A s \in Runs : s # r /\ run[s].inv = run[r].inv => job[s].pc = "none"
         /\ \A t \in Tabs : post[t].pc # "idle" => run[page].inv # run[r].inv
<1>1. runs \in 0..MaxRuns /\ MaxRuns \in Nat /\ r \in Nat /\ r >= 1
  BY Types, PageAssumption DEF IInv, Runs
<1>2. r <= runs
  BY DEF IInv, Opened
<1>3. up /\ page = runs /\ page \in Runs
  BY <1>1, <1>2 DEF IInv, Down, Opened, Runs
<1>4. ASSUME NEW s \in Runs, s # r, run[s].inv = run[r].inv PROVE job[s].pc = "none"
  <2>1. s \in Nat
    BY <1>1 DEF Runs
  <2>2. CASE s < r
    BY <1>2, <1>4, <2>2 DEF IInv, LastWorks
  <2>3. CASE r < s /\ s <= runs
    BY <1>4, <2>3 DEF IInv, LastWorks
  <2>4. CASE ~(s <= runs)
    BY <2>4 DEF IInv, Opened
  <2> QED
    BY <1>1, <1>4, <2>1, <2>2, <2>3, <2>4
<1>5. ASSUME NEW t \in Tabs, post[t].pc # "idle" PROVE run[page].inv # run[r].inv
  BY <1>5, PostFacts
<1> QED
  BY <1>2, <1>3, <1>4, <1>5 DEF IInv, Opened

(* A state file rewritten with a state that is not "installing".           *)
LEMMA FilesStep ==
  ASSUME TypeOK, Files, NEW i \in Inventories, NEW st, UNCHANGED <<pid, up, run, job>>,
         \A j \in Inventories : j # i => file'[j] = file[j],
         \/ file'[i] = file[i]
         \/ file'[i] = [state |-> st, pid |-> pid] /\ st # "installing"
  PROVE  Files'
<1>1. pid <= pid
  BY Numbers
<1>2. file'[i] = [state |-> st, pid |-> pid] => file'[i].state = st /\ file'[i].pid = pid
  OBVIOUS
<1> QED
  BY <1>1, <1>2 DEF Files

(* A request's step that leaves runs and threads alone, and writes no more *)
(* than the files of the page's inventory.                                 *)
LEMMA PostStep ==
  ASSUME OneTab, IInv, NEW t \in Tabs, post[t].pc # "idle", NEW new \in PostSet,
         post' = [post EXCEPT ![t] = new],
         UNCHANGED <<pid, up, runs, run, page, job, printed>>,
         env' \in [Inventories -> Answers \cup {NONE, TORN}],
         file' \in [Inventories -> FileSet \cup {NONE}],
         \A i \in Inventories : i # run[page].inv => env'[i] = env[i] /\ file'[i] = file[i],
         \/ file'[run[page].inv] = file[run[page].inv]
         \/ /\ file'[run[page].inv] = [state |-> run[page].state, pid |-> pid]
            /\ run[page].state # "installing",
         new.pc \in Starting <=> post[t].pc \in Starting,
         new.pc \in {"write", "record"} \cup Starting => new.run = page,
         new.pc \in Saving => new.verified \in {NONE, run[page].answers},
         new.pc \in {"start"} \cup Starting => new.verified = run[page].answers,
         new.pc = "start record" => env'[run[page].inv] = run[page].answers
  PROVE  IInv'
<1>1. /\ up /\ page \in Runs /\ page = runs /\ run[page].inv \in Inventories
      /\ \A r \in Runs : run[r].inv = run[page].inv => job[r].pc = "none"
  BY PostFacts
<1>2. post'[t] = new /\ (\A u \in Tabs : u = t) /\ post' \in [Tabs -> PostSet]
  BY Types DEF IInv, OneTab
<1>3. TypeOK'
  BY <1>2, Types DEF IInv, TypeOK, RunSet, PostSet, JobSet, FileSet
<1>4. Opened' /\ Down' /\ LastWorks' /\ ReadsVerified'
  BY <1>1, <1>2 DEF IInv, Opened, Down, LastWorks, ReadsVerified
<1>5. Posting'
  <2>1. page # NONE /\ job[page].pc = "none"
    BY DEF IInv, Posting
  <2>2. UNCHANGED <<page, run, job>>
    OBVIOUS
  <2> QED
    BY <1>2, <2>1, <2>2 DEF Posting
<1>6. Honest'
  <2>1. post[t].pc \in Starting => post[t].run = page
    BY DEF IInv, Posting
  <2>2. \A r \in Runs : Busy(r)' <=> Busy(r)
    BY <1>2, <2>1 DEF Busy, Working, Gone, InLegs, Starting
  <2> QED
    BY <2>2 DEF IInv, Honest
<1>7. Files'
  BY <1>1, FilesStep DEF IInv
<1>8. KillKeepsAnswers'
  <2> SUFFICES ASSUME NEW r \in Runs, job[r].pc \in Legs
               PROVE  env'[run[r].inv] = job[r].verified
                      /\ file'[run[r].inv] = [state |-> "installing", pid |-> pid]
    BY DEF KillKeepsAnswers, Legs, InLegs
  <2>1. run[r].inv # run[page].inv /\ run[r].inv \in Inventories
    BY <1>1, ThreadFacts DEF Legs, InLegs
  <2> QED
    BY <2>1 DEF IInv, KillKeepsAnswers, Legs, InLegs
<1> QED
  BY <1>3, <1>4, <1>5, <1>6, <1>7, <1>8 DEF IInv

(* A thread's step, that may tell its run the verdict and write the files  *)
(* of its inventory.                                                       *)
LEMMA ThreadStep ==
  ASSUME OneTab, IInv, NEW r \in Runs, job[r].pc # "none", NEW to \in JobSet, NEW told \in RunSet,
         job' = [job EXCEPT ![r] = to], run' = [run EXCEPT ![r] = told],
         UNCHANGED <<pid, up, runs, page, post>>, printed' \subseteq Inventories,
         told.inv = run[r].inv, told.answers = run[r].answers,
         told.state = "installing" <=> to.pc \in Legs,
         to.reads \subseteq {to.verified}, to.verified = job[r].verified,
         to.pc \in Legs => job[r].pc \in Legs /\ UNCHANGED <<env, file>>,
         env' \in [Inventories -> Answers \cup {NONE, TORN}],
         file' \in [Inventories -> FileSet \cup {NONE}],
         \A i \in Inventories : i # run[r].inv => env'[i] = env[i] /\ file'[i] = file[i],
         \/ UNCHANGED file /\ to.pc # "none"
         \/ /\ file'[run[r].inv] = [state |-> told.state, pid |-> pid]
            /\ told.state # "installing"
  PROVE  IInv'
<1>1. /\ up /\ r <= runs /\ run[r].inv \in Inventories /\ page \in Runs
      /\ \A s \in Runs : s # r /\ run[s].inv = run[r].inv => job[s].pc = "none"
      /\ \A t \in Tabs : post[t].pc # "idle" => run[page].inv # run[r].inv
  BY ThreadFacts
<1>2. /\ job' \in [Runs -> JobSet] /\ run' \in [Runs -> RunSet] /\ job'[r] = to /\ run'[r] = told
      /\ \A s \in Runs : s # r => job'[s] = job[s] /\ run'[s] = run[s]
      /\ \A s \in Runs : run'[s].inv = run[s].inv /\ run'[s].answers = run[s].answers
  BY Types DEF IInv
<1>3. TypeOK'
  BY <1>2, Types DEF IInv, TypeOK, RunSet, PostSet, JobSet, FileSet
<1>4. Opened' /\ Down' /\ LastWorks'
  BY <1>1, <1>2 DEF IInv, Opened, Down, LastWorks
<1>5. ReadsVerified'
  BY <1>2 DEF IInv, ReadsVerified
<1>6. Posting'
  <2> SUFFICES ASSUME NEW t \in Tabs, post[t].pc # "idle"
               PROVE  /\ page # r /\ job'[page] = job[page] /\ run'[page] = run[page]
                      /\ env'[run[page].inv] = env[run[page].inv]
    BY <1>1 DEF IInv, Posting, Starting, Saving
  <2>1. run[page].inv \in Inventories /\ page # r
    BY <1>1, PostFacts
  <2> QED
    BY <1>1, <1>2, <2>1
<1>7. Honest'
  <2>1. \A t \in Tabs : post[t].pc \in Starting => post[t].run # r
    BY <1>1 DEF IInv, Posting, Starting
  <2>2. \A s \in Runs : s # r => (run'[s].state = "installing" <=> Busy(s)')
    BY <1>2 DEF IInv, Honest, Busy, Working, Gone, InLegs
  <2>3. Busy(r)' <=> to.pc \in Legs
    BY <1>2, <2>1 DEF Busy, Working, Gone, InLegs, Legs, Starting
  <2> QED
    BY <1>2, <2>2, <2>3 DEF Honest
<1>8. Files'
  <2> SUFFICES ASSUME NEW i \in Inventories, file'[i] # NONE
               PROVE  /\ file'[i].pid <= pid
                      /\ file'[i].state = "installing" /\ file'[i].pid = pid =>
                            \E s \in Runs : run'[s].inv = i /\ job'[s].pc # "none"
    BY DEF Files
  <2>1. CASE file'[i] = file[i] /\ (i = run[r].inv => to.pc # "none")
    BY <1>1, <1>2, <2>1 DEF IInv, Files
  <2>2. CASE i = run[r].inv /\ file'[i] = [state |-> told.state, pid |-> pid] /\ told.state # "installing"
    BY <2>2, Types DEF IInv
  <2> QED
    BY <2>1, <2>2
<1>9. KillKeepsAnswers'
  <2> SUFFICES ASSUME NEW s \in Runs, job'[s].pc \in Legs
               PROVE  env'[run[s].inv] = job'[s].verified
                      /\ file'[run[s].inv] = [state |-> "installing", pid |-> pid]
    BY <1>2 DEF KillKeepsAnswers, Legs, InLegs
  <2>1. CASE s = r
    BY <1>2, <2>1 DEF IInv, KillKeepsAnswers, Legs, InLegs
  <2>2. CASE s # r
    <3>1. job'[s] = job[s] /\ job[s].pc \in Legs /\ run[s].inv # run[r].inv
      BY <1>1, <1>2, <2>2 DEF Legs, InLegs
    <3>2. run[s].inv \in Inventories
      BY <3>1, ThreadFacts DEF Legs, InLegs
    <3> QED
      BY <3>1, <3>2 DEF IInv, KillKeepsAnswers, Legs, InLegs
  <2> QED
    BY <2>1, <2>2
<1> QED
  BY <1>3, <1>4, <1>5, <1>6, <1>7, <1>8, <1>9 DEF IInv

(* The requests under way.                                                 *)
LEMMA RequestStep ==
  ASSUME OneTab, IInv, NEW t \in Tabs, Request(t)
  PROVE  IInv'
<1> DEFINE q == post[t]
           i == run[page].inv
<1>1. q \in PostSet /\ post \in [Tabs -> PostSet] /\ run \in [Runs -> RunSet]
      /\ env \in [Inventories -> Answers \cup {NONE, TORN}]
      /\ file \in [Inventories -> FileSet \cup {NONE}] /\ pid \in 1..MaxStarts
      /\ job \in [Runs -> JobSet]
  BY Types DEF IInv
<1>2. q.pc # "idle"
  BY DEF Request, Verify, Save, SavePost, SaveStart, Start
<1>3. /\ up /\ page \in Runs /\ page = runs /\ i \in Inventories
      /\ \A r \in Runs : run[r].inv = i => job[r].pc = "none"
  BY <1>2, PostFacts
<1>4. page # NONE /\ job[page].pc = "none" /\ run[page] \in RunSet
      /\ (q.pc \in {"write", "record"} \cup Starting => q.run = page)
      /\ (q.pc \in Saving => q.verified \in {NONE, run[page].answers})
      /\ (q.pc \in {"start"} \cup Starting => q.verified = run[page].answers)
      /\ (q.pc = "start record" => env[i] = run[page].answers)
  BY <1>1, <1>2, <1>3 DEF IInv, Posting
<1>5. q.pc \notin Starting => run[page].state # "installing"
  BY <1>3, <1>4 DEF IInv, Honest, Busy, Working, Gone, InLegs, OneTab, Starting
<1>6. run[page].answers \in Answers /\ run[page].state \in {"answering", "installing", "done", "failed"}
  BY <1>4 DEF RunSet
<1>7. CASE Verify(t)
  <2>1. PICK v \in {NONE, run[page].answers} :
           post' = [post EXCEPT ![t].pc = "truncate", ![t].verified = v]
    BY <1>7 DEF Verify
  <2> DEFINE new == [q EXCEPT !.pc = "truncate", !.verified = v]
  <2>2. /\ new \in PostSet /\ new.pc = "truncate" /\ new.verified = v
        /\ post' = [post EXCEPT ![t] = new]
    BY <1>1, <1>6, <2>1 DEF PostSet, Saving
  <2>3. UNCHANGED <<pid, up, runs, run, page, job, printed, env, file>> /\ q.pc = "verify"
    BY <1>7 DEF Verify, disk
  <2> HIDE DEF new
  <2> QED
    BY <1>1, <1>2, <2>2, <2>3, PostStep DEF Starting, Saving
<1>8. CASE Save(t)
  <2>1. UNCHANGED <<pid, up, runs, run, page, printed>>
    BY <1>8 DEF Save
  <2>2. CASE q.pc = "truncate"
    <3> DEFINE new == [q EXCEPT !.run = page, !.pc = "write"]
    <3>1. post' = [post EXCEPT ![t].run = page, ![t].pc = "write"] /\ Truncate(page) /\ UNCHANGED job
      BY <1>8, <2>2 DEF Save, SavePost, SaveStart
    <3>2. /\ new \in PostSet /\ new.pc = "write" /\ new.verified = q.verified /\ new.run = page
          /\ post' = [post EXCEPT ![t] = new]
      BY <1>1, <1>3, <3>1 DEF PostSet, Saving
    <3> HIDE DEF new
    <3>3. env' = [env EXCEPT ![i] = TORN] /\ UNCHANGED file
      BY <3>1 DEF Truncate
    <3> QED
      BY <1>1, <1>2, <1>3, <1>4, <2>1, <2>2, <3>1, <3>2, <3>3, PostStep DEF Starting, Saving
  <2>3. CASE q.pc = "write"
    <3> DEFINE new == [q EXCEPT !.pc = "record"]
    <3>1. Step(t, "record") /\ WriteEnv(q.run) /\ UNCHANGED job
      BY <1>8, <2>3 DEF Save, SavePost, SaveStart
    <3>2. /\ new \in PostSet /\ new.pc = "record" /\ new.verified = q.verified /\ new.run = page
          /\ post' = [post EXCEPT ![t] = new]
      BY <1>1, <1>4, <2>3, <3>1 DEF PostSet, Saving, Step
    <3> HIDE DEF new
    <3>3. env' = [env EXCEPT ![i] = run[page].answers] /\ UNCHANGED file
      BY <1>4, <2>3, <3>1 DEF WriteEnv
    <3> QED
      BY <1>1, <1>2, <1>3, <1>4, <1>6, <2>1, <2>3, <3>1, <3>2, <3>3, PostStep DEF Starting, Saving
  <2>4. CASE q.pc = "record"
    <3> DEFINE new == IF q.verified = NONE THEN NoPost ELSE [q EXCEPT !.pc = "start"]
    <3>1. post' = [post EXCEPT ![t] = new] /\ Record(q.run) /\ UNCHANGED job
      BY <1>1, <1>8, <2>4 DEF Save, SavePost, SaveStart
    <3>2. /\ new \in PostSet /\ new.pc \in {"idle", "start"}
          /\ new.pc = "start" => new.verified = run[page].answers
      BY <1>1, <1>4, <2>4 DEF PostSet, Saving, NoPost
    <3> HIDE DEF new
    <3>3. file' = [file EXCEPT ![i] = [state |-> run[page].state, pid |-> pid]] /\ UNCHANGED env
      BY <1>4, <2>4, <3>1 DEF Record
    <3>4. [state |-> run[page].state, pid |-> pid] \in FileSet /\ run[page].state # "installing"
      BY <1>1, <1>5, <1>6, <2>4 DEF FileSet, Starting
    <3> QED
      BY <1>1, <1>2, <1>3, <2>1, <2>4, <3>1, <3>2, <3>3, <3>4, PostStep DEF Starting, Saving
  <2>5. CASE q.pc = "start truncate"
    <3> DEFINE new == [q EXCEPT !.pc = "start write"]
    <3>1. Step(t, "start write") /\ Truncate(q.run) /\ UNCHANGED job
      BY <1>8, <2>5 DEF Save, SavePost, SaveStart
    <3>2. /\ new \in PostSet /\ new.pc = "start write" /\ new.verified = q.verified /\ new.run = q.run
          /\ post' = [post EXCEPT ![t] = new]
      BY <1>1, <2>5, <3>1 DEF PostSet, Saving, Step
    <3> HIDE DEF new
    <3>3. env' = [env EXCEPT ![i] = TORN] /\ UNCHANGED file
      BY <1>4, <2>5, <3>1 DEF Truncate, Starting
    <3> QED
      BY <1>1, <1>2, <1>3, <1>4, <2>1, <2>5, <3>1, <3>2, <3>3, PostStep DEF Starting, Saving
  <2>6. CASE q.pc = "start write"
    <3> DEFINE new == [q EXCEPT !.pc = "start record"]
    <3>1. Step(t, "start record") /\ WriteEnv(q.run) /\ UNCHANGED job
      BY <1>8, <2>6 DEF Save, SavePost, SaveStart
    <3>2. /\ new \in PostSet /\ new.pc = "start record" /\ new.verified = q.verified /\ new.run = q.run
          /\ post' = [post EXCEPT ![t] = new]
      BY <1>1, <2>6, <3>1 DEF PostSet, Saving, Step
    <3> HIDE DEF new
    <3>3. env' = [env EXCEPT ![i] = run[page].answers] /\ UNCHANGED file
      BY <1>4, <2>6, <3>1 DEF WriteEnv, Starting
    <3> QED
      BY <1>1, <1>2, <1>3, <1>4, <1>6, <2>1, <2>6, <3>1, <3>2, <3>3, PostStep DEF Starting, Saving
  <2>7. CASE q.pc = "start record"
    <3> DEFINE begun == [NoJob EXCEPT !.pc = "login", !.verified = q.verified]
    <3>1. /\ post' = [post EXCEPT ![t] = NoPost] /\ Record(q.run)
          /\ job' = [job EXCEPT ![q.run] = begun]
      BY <1>8, <2>7 DEF Save, SavePost, SaveStart
    <3>2. q.run = page /\ q.verified = run[page].answers /\ env[i] = run[page].answers
      BY <1>4, <2>7 DEF Starting
    <3>3. begun \in JobSet /\ begun.pc = "login" /\ begun.verified = q.verified /\ begun.reads = {}
      BY <1>1 DEF NoJob, JobSet, PostSet, InLegs
    <3>4. NoPost \in PostSet /\ NoPost.pc = "idle"
      BY DEF NoPost, PostSet
    <3> HIDE DEF begun
    <3>5. run[page].state = "installing"
      BY <1>3, <2>7, <3>2 DEF IInv, Honest, Busy, Working, Gone, InLegs
    <3>6. file' = [file EXCEPT ![i] = [state |-> "installing", pid |-> pid]] /\ UNCHANGED env
      BY <3>1, <3>2, <3>5 DEF Record
    <3>7. /\ post' \in [Tabs -> PostSet] /\ \A u \in Tabs : post'[u].pc = "idle"
      BY <1>1, <3>1, <3>4 DEF OneTab
    <3>8. /\ job' \in [Runs -> JobSet] /\ job'[page] = begun
          /\ \A r \in Runs : r # page => job'[r] = job[r]
      BY <1>1, <1>3, <3>1, <3>2, <3>3
    <3>9. /\ file' \in [Inventories -> FileSet \cup {NONE}]
          /\ file'[i] = [state |-> "installing", pid |-> pid]
          /\ \A j \in Inventories : j # i => file'[j] = file[j]
      BY <1>1, <1>3, <3>6 DEF FileSet
    <3>10. TypeOK'
      BY <2>1, <3>6, <3>7, <3>8, <3>9, Types DEF IInv, TypeOK, RunSet, PostSet, JobSet, FileSet
    <3>11. Opened' /\ Down' /\ Posting'
      <4>1. page <= runs
        BY <1>3, Numbers DEF IInv
      <4>2. Opened'
        BY <1>3, <2>1, <3>8, <4>1 DEF IInv, Opened
      <4>3. Down' /\ Posting'
        BY <1>3, <2>1, <3>7 DEF Down, Posting, Saving, Starting
      <4> QED
        BY <4>2, <4>3
    <3>12. LastWorks'
      <4>1. page \in Nat
        BY <1>3 DEF Runs
      <4> QED
        BY <1>3, <2>1, <3>8, <4>1 DEF IInv, LastWorks, Runs
    <3>13. Honest'
      <4>1. \A r \in Runs : Busy(r)' <=> job'[r].pc \in Legs
        BY <3>7 DEF Busy, Working, Gone, InLegs, Legs
      <4>2. \A r \in Runs : r # page => (Busy(r) <=> job[r].pc \in Legs)
        BY <2>7, <3>2 DEF Busy, Working, Gone, InLegs, Legs, OneTab
      <4> QED
        BY <1>3, <2>1, <3>3, <3>5, <3>8, <4>1, <4>2 DEF IInv, Honest, Legs, InLegs
    <3>14. Files'
      <4>1. pid \in Nat
        BY <1>1, PageAssumption
      <4> QED
        BY <1>3, <2>1, <3>3, <3>8, <3>9, <4>1 DEF IInv, Files
    <3>15. KillKeepsAnswers'
      <4> SUFFICES ASSUME NEW r \in Runs, job'[r].pc \in Legs
                   PROVE  env[run[r].inv] = job'[r].verified
                          /\ file'[run[r].inv] = [state |-> "installing", pid |-> pid]
        BY <2>1, <3>6 DEF KillKeepsAnswers, Legs, InLegs
      <4>1. CASE r = page
        BY <3>2, <3>3, <3>8, <3>9, <4>1
      <4>2. CASE r # page
        <5>1. job[r].pc \in Legs /\ job'[r] = job[r] /\ run[r].inv # i
          BY <1>3, <3>8, <4>2 DEF Legs, InLegs
        <5>2. run[r].inv \in Inventories
          BY <5>1, ThreadFacts DEF Legs, InLegs
        <5> QED
          BY <3>9, <5>1, <5>2 DEF IInv, KillKeepsAnswers, Legs, InLegs
      <4> QED
        BY <4>1, <4>2
    <3>16. ReadsVerified'
      BY <3>3, <3>8 DEF IInv, ReadsVerified
    <3> QED
      BY <3>10, <3>11, <3>12, <3>13, <3>14, <3>15, <3>16 DEF IInv
  <2> QED
    BY <1>8, <2>2, <2>3, <2>4, <2>5, <2>6, <2>7 DEF Save, SavePost, SaveStart
<1>9. CASE Start(t)
  <2> DEFINE new == [q EXCEPT !.run = page, !.pc = "start truncate"]
             told == [run[page] EXCEPT !.state = "installing"]
  <2>1. /\ q.pc = "start" /\ run' = [run EXCEPT ![page].state = "installing"]
        /\ post' = [post EXCEPT ![t].run = page, ![t].pc = "start truncate"]
        /\ UNCHANGED <<pid, up, runs, page, job, env, file, printed>>
    BY <1>9 DEF Start, disk
  <2>2. /\ new \in PostSet /\ new.pc = "start truncate" /\ new.run = page /\ new.verified = q.verified
        /\ post' = [post EXCEPT ![t] = new]
    BY <1>1, <1>3, <2>1 DEF PostSet
  <2>3. /\ told \in RunSet /\ told.state = "installing" /\ told.inv = i
        /\ told.answers = run[page].answers /\ run' = [run EXCEPT ![page] = told]
    BY <1>1, <1>3, <1>4, <2>1 DEF RunSet
  <2> HIDE DEF new, told
  <2>4. /\ post' \in [Tabs -> PostSet] /\ post'[t] = new /\ \A u \in Tabs : u = t
        /\ run' \in [Runs -> RunSet] /\ run'[page] = told
        /\ \A r \in Runs : r # page => run'[r] = run[r]
        /\ \A r \in Runs : run'[r].inv = run[r].inv
    BY <1>1, <1>3, <2>2, <2>3 DEF OneTab
  <2>5. TypeOK'
    BY <2>1, <2>4, Types DEF IInv, TypeOK, RunSet, PostSet, JobSet, FileSet
  <2>6. Opened' /\ Down' /\ LastWorks' /\ ReadsVerified'
    <3>1. page <= runs
      BY <1>3, Numbers DEF IInv
    <3>2. Opened'
      BY <1>3, <2>1, <2>4, <3>1 DEF IInv, Opened
    <3>3. Down' /\ LastWorks' /\ ReadsVerified'
      BY <1>3, <2>1, <2>4 DEF IInv, Down, LastWorks, ReadsVerified
    <3> QED
      BY <3>2, <3>3
  <2>7. Posting'
    <3>1. new.pc = "start truncate" /\ new.run = page /\ new.verified = run'[page].answers
      BY <1>4, <2>1, <2>2, <2>3, <2>4
    <3>2. page' = page /\ job' = job /\ page # NONE /\ job[page].pc = "none"
      BY <1>4, <2>1
    <3>3. \A u \in Tabs : post'[u] = new
      BY <2>4
    <3> QED
      BY <3>1, <3>2, <3>3 DEF Posting, Saving, Starting
  <2>8. Honest'
    <3>1. \A r \in Runs : r # page => (Busy(r)' <=> Busy(r))
      BY <2>1, <2>2, <2>4 DEF Busy, Working, Gone, InLegs
    <3>2. \A r \in Runs : r = page => Busy(r)'
      BY <2>1, <2>2, <2>4 DEF Busy, Working, Gone, InLegs
    <3> QED
      BY <1>3, <2>3, <2>4, <3>1, <3>2 DEF IInv, Honest
  <2>9. Files'
    <3>1. UNCHANGED <<pid, up, job, file>> /\ \A r \in Runs : run'[r].inv = run[r].inv
      BY <2>1, <2>4
    <3> QED
      BY <3>1 DEF IInv, Files
  <2>10. KillKeepsAnswers'
    BY <2>1, <2>4 DEF IInv, KillKeepsAnswers
  <2> QED
    BY <2>5, <2>6, <2>7, <2>8, <2>9, <2>10 DEF IInv
<1> QED
  BY <1>7, <1>8, <1>9 DEF Request

(* The install threads.                                                    *)
LEMMA JobStep ==
  ASSUME OneTab, IInv, NEW r \in Runs, Thread(r)
  PROVE  IInv'
<1> DEFINE j == job[r]
           i == run[r].inv
<1>1. /\ j \in JobSet /\ job \in [Runs -> JobSet] /\ run[r] \in RunSet /\ run \in [Runs -> RunSet]
      /\ env \in [Inventories -> Answers \cup {NONE, TORN}]
      /\ file \in [Inventories -> FileSet \cup {NONE}] /\ pid \in 1..MaxStarts
      /\ printed \subseteq Inventories
  BY Types DEF IInv
<1>2. j.pc # "none"
  BY DEF Thread, Leg, Keyset, Checked, SaveVerdict
<1>3. up /\ i \in Inventories
  BY <1>2, ThreadFacts
<1>4. j.reads \subseteq {j.verified} /\ (j.pc \in Legs => env[i] = j.verified)
  BY DEF IInv, ReadsVerified, KillKeepsAnswers, Legs, InLegs
<1>5. run[r].state = "installing" <=> j.pc \in Legs
  <2>1. \A t \in Tabs : post[t].pc \in Starting => post[t].run # r
    BY <1>2, PostFacts DEF IInv, Posting, Starting
  <2> QED
    BY <2>1 DEF IInv, Honest, Busy, Working, Gone, InLegs, Legs, Starting
<1>6. ASSUME NEW to \in JobSet, NEW rc \in {0, 1, 3}, Verdict(r, to, rc), j.pc \in Legs,
             to.verified = j.verified, to.reads \subseteq {j.verified},
             UNCHANGED <<pid, up, runs, page, post, disk, printed>>
      PROVE  IInv'
  <2> DEFINE st == IF rc = 0 THEN "done" ELSE "failed"
             told == [run[r] EXCEPT !.state = st]
             over == [to EXCEPT !.pc = "truncate"]
  <2>1. st \in {"done", "failed"}
    OBVIOUS
  <2>2. run' = [run EXCEPT ![r].state = st] /\ job' = [job EXCEPT ![r] = over]
    BY <1>6 DEF Verdict
  <2> HIDE DEF st
  <2>3. /\ told \in RunSet /\ told.state = st /\ told.inv = i /\ told.answers = run[r].answers
        /\ run' = [run EXCEPT ![r] = told]
    BY <1>1, <2>1, <2>2 DEF RunSet
  <2>4. /\ over \in JobSet /\ over.pc = "truncate" /\ over.verified = j.verified
        /\ over.reads \subseteq {over.verified}
    BY <1>6 DEF JobSet, Saving
  <2> HIDE DEF told, over
  <2> QED
    BY <1>1, <1>2, <1>6, <2>1, <2>2, <2>3, <2>4, ThreadStep DEF disk, Legs, InLegs
<1>6a. ASSUME NEW was \in JobSet, Dies(r, was), j.pc \in Legs,
              was.verified = j.verified, was.reads \subseteq {j.verified},
              UNCHANGED <<pid, up, runs, page, post, disk, printed>>
       PROVE  IInv'
  <2> DEFINE to == [was EXCEPT !.pc = "gone"]
  <2>1. job' = [job EXCEPT ![r] = to] /\ run' = [run EXCEPT ![r] = run[r]]
    BY <1>1, <1>6a DEF Dies
  <2>2. to \in JobSet /\ to.pc = "gone" /\ to.verified = j.verified /\ to.reads \subseteq {to.verified}
    BY <1>6a DEF JobSet
  <2> HIDE DEF to
  <2> QED
    BY <1>1, <1>2, <1>5, <1>6a, <2>1, <2>2, ThreadStep DEF disk, Legs
<1>7. CASE Leg(r)
  <2> DEFINE read == [j EXCEPT !.reads = @ \cup {env[i]}]
             next == CASE j.pc = "login" -> "accounts"
                       [] j.pc = "accounts" -> "system"
                       [] j.pc = "system" -> "converge"
             to == [read EXCEPT !.pc = next]
  <2>1. /\ j.pc \in {"login", "accounts", "system"}
        /\ UNCHANGED <<pid, up, runs, page, post, disk, printed>>
        /\ \/ job' = [job EXCEPT ![r] = to] /\ UNCHANGED run
           \/ Verdict(r, read, 1)
           \/ Dies(r, read)
    BY <1>7 DEF Leg
  <2>2. j.pc \in Legs /\ next \in Legs
    BY <2>1 DEF Legs, InLegs
  <2>3. read \in JobSet /\ read.verified = j.verified /\ read.reads \subseteq {j.verified}
    BY <1>1, <1>3, <1>4, <2>2 DEF JobSet
  <2> HIDE DEF read, next
  <2>4. /\ to \in JobSet /\ to.pc = next /\ to.verified = read.verified /\ to.reads = read.reads
    BY <2>2, <2>3 DEF JobSet, Legs, InLegs
  <2> HIDE DEF to
  <2>5. CASE job' = [job EXCEPT ![r] = to] /\ UNCHANGED run
    <3>1. run' = [run EXCEPT ![r] = run[r]]
      BY <1>1, <2>5
    <3> QED
      BY <1>1, <1>2, <1>5, <2>1, <2>2, <2>3, <2>4, <2>5, <3>1, ThreadStep DEF disk, Legs, InLegs
  <2>6. CASE Verdict(r, read, 1)
    BY <1>6, <2>1, <2>2, <2>3, <2>6
  <2>7. CASE Dies(r, read)
    BY <1>6a, <2>1, <2>2, <2>3, <2>7
  <2> QED
    BY <2>1, <2>5, <2>6, <2>7
<1>8. CASE Keyset(r)
  <2> DEFINE told == [run[r] EXCEPT !.keyset = TRUE]
  <2>1. /\ j.pc = "converge" /\ run' = [run EXCEPT ![r].keyset = TRUE] /\ printed' = printed \cup {i}
        /\ UNCHANGED <<pid, up, runs, page, post, job, disk>>
    BY <1>8 DEF Keyset
  <2>2. /\ told \in RunSet /\ told.state = run[r].state /\ told.inv = i
        /\ told.answers = run[r].answers /\ run' = [run EXCEPT ![r] = told]
    BY <1>1, <2>1 DEF RunSet
  <2>3. job' = [job EXCEPT ![r] = j] /\ printed' \subseteq Inventories
    BY <1>1, <1>3, <2>1
  <2>4. told.state = "installing" /\ j.pc \in Legs
        /\ UNCHANGED <<pid, up, runs, page, post, env, file>>
    BY <1>5, <2>1, <2>2 DEF Legs, InLegs, disk
  <2> HIDE DEF told
  <2>5. PICK to \in JobSet : to = j
    BY <1>1
  <2>6. /\ to.pc \in Legs /\ to.reads \subseteq {to.verified} /\ to.verified = job[r].verified
        /\ job[r].pc # "none" /\ job' = [job EXCEPT ![r] = to]
    BY <1>2, <1>4, <2>3, <2>4, <2>5
  <2> QED
    BY <1>1, <2>2, <2>3, <2>4, <2>6, ThreadStep DEF Legs, InLegs
<1>9. CASE Checked(r)
  BY <1>1, <1>4, <1>6, <1>6a, <1>9 DEF Checked, Legs, InLegs
<1>10. CASE SaveVerdict(r)
  <2>1. UNCHANGED <<pid, up, runs, page, post, printed>> /\ j.pc \in Saving
        /\ run[r].state # "installing"
    BY <1>5, <1>10 DEF SaveVerdict, Saving, Legs, InLegs
  <2>2. /\ run[r].answers \in Answers
        /\ [state |-> run[r].state, pid |-> pid] \in FileSet
    BY <1>1 DEF RunSet, FileSet
  <2>3. ASSUME NEW pc \in {"none"} \cup Saving, job' = [job EXCEPT ![r].pc = pc]
        PROVE  LET to == [j EXCEPT !.pc = pc]
               IN  /\ to \in JobSet /\ to.pc = pc /\ to.verified = j.verified /\ to.reads = j.reads
                   /\ job' = [job EXCEPT ![r] = to]
    BY <1>1, <2>3 DEF JobSet
  <2>4. CASE j.pc \in {"truncate", "write"}
    <3>1. PICK pc \in {"write", "record"} : job' = [job EXCEPT ![r].pc = pc]
      BY <1>10, <2>4 DEF SaveVerdict
    <3> DEFINE to == [j EXCEPT !.pc = pc]
    <3>2. /\ to \in JobSet /\ to.pc = pc /\ to.verified = j.verified /\ to.reads = j.reads
          /\ job' = [job EXCEPT ![r] = to]
      BY <2>3, <3>1 DEF Saving
    <3>3. PICK v \in Answers \cup {TORN} : env' = [env EXCEPT ![i] = v] /\ UNCHANGED <<file, run>>
      BY <1>10, <2>2, <2>4 DEF SaveVerdict, Truncate, WriteEnv
    <3>4. run' = [run EXCEPT ![r] = run[r]]
      BY <1>1, <3>3
    <3>5. /\ env' \in [Inventories -> Answers \cup {NONE, TORN}]
          /\ \A k \in Inventories : k # i => env'[k] = env[k]
      BY <1>1, <1>3, <3>3
    <3> HIDE DEF to
    <3> QED
      BY <1>1, <1>2, <1>4, <2>1, <3>2, <3>3, <3>4, <3>5, ThreadStep DEF Legs, InLegs
  <2>5. CASE j.pc = "record"
    <3>1. job' = [job EXCEPT ![r].pc = "none"] /\ Record(r)
      BY <1>10, <2>5 DEF SaveVerdict
    <3> DEFINE to == [j EXCEPT !.pc = "none"]
    <3>2. /\ to \in JobSet /\ to.pc = "none" /\ to.verified = j.verified /\ to.reads = j.reads
          /\ job' = [job EXCEPT ![r] = to]
      BY <2>3, <3>1
    <3>3. PICK b \in BOOLEAN : run' = [run EXCEPT ![r].forward = b]
      <4>1. CASE UNCHANGED run
        <5>1. run' = [run EXCEPT ![r].forward = run[r].forward] /\ run[r].forward \in BOOLEAN
          BY <1>1, <4>1 DEF RunSet
        <5> QED
          BY <5>1
      <4>2. CASE OpenForward(r)
        <5>1. PICK open \in BOOLEAN : run' = [run EXCEPT ![r].forward = run[r].forward \/ open]
          BY <4>2 DEF OpenForward
        <5>2. (run[r].forward \/ open) \in BOOLEAN
          OBVIOUS
        <5> QED
          BY <5>1, <5>2
      <4> QED
        BY <1>10, <2>5, <4>1, <4>2 DEF SaveVerdict
    <3> DEFINE told == [run[r] EXCEPT !.forward = b]
    <3>4. /\ told \in RunSet /\ told.state = run[r].state /\ told.inv = i
          /\ told.answers = run[r].answers /\ run' = [run EXCEPT ![r] = told]
      BY <1>1, <3>3 DEF RunSet
    <3> HIDE DEF to, told
    <3>5. file' = [file EXCEPT ![i] = [state |-> told.state, pid |-> pid]] /\ UNCHANGED env
      BY <3>1, <3>4 DEF Record
    <3>6. /\ file' \in [Inventories -> FileSet \cup {NONE}]
          /\ file'[i] = [state |-> told.state, pid |-> pid]
          /\ \A k \in Inventories : k # i => file'[k] = file[k]
      BY <1>1, <1>3, <2>2, <3>4, <3>5
    <3> QED
      BY <1>1, <1>2, <1>4, <2>1, <3>2, <3>4, <3>5, <3>6, ThreadStep DEF Legs, InLegs
  <2> QED
    BY <2>1, <2>4, <2>5 DEF Saving
<1> QED
  BY <1>7, <1>8, <1>9, <1>10 DEF Thread

-----------------------------------------------------------------------------
(* A run another request or a connection changed in its answers or its     *)
(* forward, and the request that did.                                      *)
LEMMA PageStep ==
  ASSUME OneTab, IInv, NEW t \in Tabs, post[t].pc = "idle", up, page # NONE,
         NEW told \in RunSet, run' = [run EXCEPT ![page] = told],
         told.inv = run[page].inv, told.state = run[page].state,
         NEW new \in PostSet, post' = [post EXCEPT ![t] = new],
         new.pc \in {"idle", "verify"}, new.pc = "verify" => job[page].pc = "none",
         UNCHANGED <<pid, up, runs, page, job, env, file, printed>>
  PROVE  IInv'
<1>1. page \in Runs /\ page = runs /\ page <= runs
  <2>1. page = runs /\ page \in Runs
    BY Types DEF IInv, Opened
  <2> QED
    BY <2>1, Numbers DEF IInv
<1>2. /\ post' \in [Tabs -> PostSet] /\ post'[t] = new /\ \A u \in Tabs : u = t
      /\ run' \in [Runs -> RunSet]
      /\ \A r \in Runs : run'[r].inv = run[r].inv /\ run'[r].state = run[r].state
  BY <1>1, Types DEF IInv, OneTab
<1>3. TypeOK'
  BY <1>2, Types DEF IInv, TypeOK, RunSet, PostSet, JobSet, FileSet
<1>4. Opened'
  BY <1>2 DEF IInv, Opened
<1>5. Down' /\ LastWorks' /\ ReadsVerified'
  BY <1>2 DEF IInv, Down, LastWorks, ReadsVerified
<1>6. Posting'
  <2>1. \A u \in Tabs : post'[u] = new
    BY <1>2
  <2>2. page' = page /\ job' = job
    OBVIOUS
  <2> QED
    BY <2>1, <2>2 DEF Posting, Saving, Starting
<1>7. Honest'
  <2>1. \A r \in Runs : Busy(r)' <=> Busy(r)
    BY <1>2 DEF Busy, Working, Gone, InLegs
  <2> QED
    BY <1>2, <2>1 DEF IInv, Honest
<1>8. Files'
  <2>1. UNCHANGED <<pid, up, job, file>> /\ \A r \in Runs : run'[r].inv = run[r].inv
    BY <1>2
  <2> QED
    BY <2>1 DEF IInv, Files
<1>9. KillKeepsAnswers'
  BY <1>2 DEF IInv, KillKeepsAnswers
<1> QED
  BY <1>3, <1>4, <1>5, <1>6, <1>7, <1>8, <1>9 DEF IInv

(* What an inventory is loaded as: not as being installed, where its       *)
(* launcher is gone or has no thread of it.                                *)
LEMMA LoadedFacts ==
  ASSUME Ghosts = {}, IInv, up, NEW i \in Inventories,
         \A r \in Runs : run[r].inv = i => job[r].pc = "none"
  PROVE  /\ Loaded(i) \in RunSet /\ Loaded(i).inv = i /\ Loaded(i).state # "installing"
<1>1. /\ env[i] \in Answers \cup {NONE, TORN} /\ file[i] \in FileSet \cup {NONE}
  BY Types DEF IInv
<1>2. LoadedState(i) \in {"answering", "done", "failed"}
  BY <1>1 DEF LoadedState, FileSet, IInv, Files
<1>3. (IF env[i] \in {NONE, TORN} THEN BLANK ELSE env[i]) \in Answers
  BY <1>1, PageAssumption
<1> QED
  BY <1>2, <1>3 DEF Loaded, NoRun, RunSet

(* An inventory is opened.                                                 *)
LEMMA OpenStep ==
  ASSUME OneTab, Ghosts = {}, Reopens = FALSE, IInv, NEW t \in Tabs, NEW i \in Inventories, Open(t, i)
  PROVE  IInv'
<1> DEFINE n == runs + 1
<1>1. /\ up /\ post[t].pc = "idle" /\ runs < MaxRuns
      /\ \A r \in 1..runs : run[r].inv = i => job[r].pc = "none"
      /\ runs' = n /\ run' = [run EXCEPT ![n] = Loaded(i)] /\ page' = n
      /\ env' = [env EXCEPT ![i] = IF @ = NONE THEN BLANK ELSE @]
      /\ file' = [file EXCEPT ![i] = IF @ = NONE THEN [state |-> "answering", pid |-> pid] ELSE @]
      /\ UNCHANGED <<pid, up, post, job, printed>>
  BY DEF Open
<1>2. runs \in Nat /\ n \in Runs /\ n # 0 /\ Runs \subseteq Nat /\ \A r \in Runs : r <= runs => r \in 1..runs
  BY <1>1, Types, PageAssumption DEF IInv, Runs
<1>3. \A r \in Runs : run[r].inv = i => job[r].pc = "none"
  BY <1>1, <1>2 DEF IInv, Opened
<1>4. Loaded(i) \in RunSet /\ Loaded(i).inv = i /\ Loaded(i).state # "installing"
  BY <1>1, <1>3, LoadedFacts
<1>5. /\ run' \in [Runs -> RunSet] /\ run'[n] = Loaded(i) /\ \A r \in Runs : r # n => run'[r] = run[r]
      /\ job \in [Runs -> JobSet]
  BY <1>1, <1>2, <1>4, Types DEF IInv
<1>6. /\ env' \in [Inventories -> Answers \cup {NONE, TORN}]
      /\ file' \in [Inventories -> FileSet \cup {NONE}]
      /\ \A k \in Inventories : k # i => env'[k] = env[k] /\ file'[k] = file[k]
      /\ file'[i] = file[i] \/ file'[i] = [state |-> "answering", pid |-> pid]
  <2>1. [state |-> "answering", pid |-> pid] \in FileSet
    BY Types DEF IInv, FileSet
  <2>2. /\ env \in [Inventories -> Answers \cup {NONE, TORN}] /\ BLANK \in Answers
        /\ file \in [Inventories -> FileSet \cup {NONE}]
    BY Types, PageAssumption DEF IInv
  <2> QED
    BY <1>1, <2>1, <2>2
<1>7. job[n].pc = "none" /\ \A u \in Tabs : post[u].pc = "idle"
  BY <1>1, <1>2 DEF IInv, Opened, OneTab
<1>8. TypeOK'
  <2>1. runs' \in 0..MaxRuns /\ page' \in Runs \cup {NONE}
    BY <1>1, <1>2, Types, PageAssumption DEF IInv, Runs
  <2> QED
    BY <1>1, <1>5, <1>6, <2>1, Types DEF IInv, TypeOK, RunSet, PostSet, JobSet, FileSet
<1>9. Opened'
  BY <1>1, <1>2, <1>4, <1>5 DEF IInv, Opened
<1>10. Down' /\ Posting' /\ ReadsVerified'
  BY <1>1, <1>7 DEF IInv, Down, Posting, ReadsVerified, Saving, Starting
<1>11. LastWorks'
  <2> SUFFICES ASSUME NEW r \in Runs, NEW s \in Runs, r < s, s <= n, run'[r].inv = run'[s].inv
               PROVE  job[r].pc = "none"
    BY <1>1 DEF LastWorks
  <2>1. r # n /\ run'[r] = run[r]
    BY <1>2, <1>5
  <2>2. CASE s = n
    BY <1>3, <1>4, <1>5, <2>1, <2>2
  <2>3. CASE s # n
    BY <1>2, <1>5, <2>1, <2>3 DEF IInv, LastWorks
  <2> QED
    BY <2>2, <2>3
<1>12. Honest'
  <2>1. \A r \in Runs : Busy(r)' <=> Busy(r)
    BY <1>1 DEF Busy, Working, Gone, InLegs
  <2>2. ~Busy(n)
    BY <1>7 DEF Busy, Working, Gone, InLegs
  <2> QED
    BY <1>4, <1>5, <2>1, <2>2 DEF IInv, Honest
<1>13. Files'
  <2> SUFFICES ASSUME NEW k \in Inventories, file'[k] # NONE
               PROVE  /\ file'[k].pid <= pid
                      /\ file'[k].state = "installing" /\ file'[k].pid = pid =>
                            \E s \in Runs : run'[s].inv = k /\ job[s].pc # "none"
    BY <1>1 DEF Files
  <2>1. CASE file'[k] = file[k]
    <3>1. /\ file[k].pid <= pid
          /\ file[k].state = "installing" /\ file[k].pid = pid =>
                \E s \in Runs : run[s].inv = k /\ job[s].pc # "none"
      BY <1>1, <2>1 DEF IInv, Files
    <3>2. \A s \in Runs : job[s].pc # "none" => run'[s] = run[s]
      BY <1>5, <1>7
    <3> QED
      BY <2>1, <3>1, <3>2
  <2>2. CASE file'[k] = [state |-> "answering", pid |-> pid]
    <3>1. pid <= pid
      BY Numbers DEF IInv
    <3> QED
      BY <2>2, <3>1
  <2> QED
    BY <1>6, <2>1, <2>2
<1>14. KillKeepsAnswers'
  <2> SUFFICES ASSUME NEW r \in Runs, job[r].pc \in Legs
               PROVE  env'[run'[r].inv] = job[r].verified
                      /\ file'[run'[r].inv] = [state |-> "installing", pid |-> pid]
    BY <1>1 DEF KillKeepsAnswers, Legs, InLegs
  <2>1. run'[r] = run[r] /\ run[r].inv # i /\ run[r].inv \in Inventories
    BY <1>3, <1>5, <1>7, ThreadFacts DEF Legs, InLegs
  <2> QED
    BY <1>6, <2>1 DEF IInv, KillKeepsAnswers, Legs, InLegs
<1> QED
  BY <1>8, <1>9, <1>10, <1>11, <1>12, <1>13, <1>14 DEF IInv

(* Nothing of a run, a request or a thread is in memory.                   *)
Vacant ==
  /\ runs = 0 /\ run = [r \in Runs |-> NoRun] /\ page = NONE /\ post = [t \in Tabs |-> NoPost]
  /\ job = [r \in Runs |-> NoJob] /\ printed = {}

(* What the invariant says of memory.                                      *)
MemoryFits ==
  /\ run \in [Runs -> RunSet] /\ post \in [Tabs -> PostSet] /\ job \in [Runs -> JobSet]
  /\ runs \in 0..MaxRuns /\ printed \subseteq Inventories
  /\ Opened /\ Down /\ Posting /\ Honest /\ LastWorks /\ KillKeepsAnswers /\ ReadsVerified

(* A process that just started has nothing in memory that does not fit.    *)
LEMMA Empty == Vacant => MemoryFits
<1> SUFFICES ASSUME Vacant PROVE MemoryFits
  OBVIOUS
<1>1. NoRun \in RunSet /\ NoRun.state = "answering"
  BY PageAssumption DEF NoRun, RunSet
<1>2. NoPost \in PostSet /\ NoPost.pc = "idle"
  BY DEF NoPost, PostSet
<1>3. NoJob \in JobSet /\ NoJob.pc = "none" /\ NoJob.reads = {}
  BY DEF NoJob, JobSet
<1>4. /\ run \in [Runs -> RunSet] /\ post \in [Tabs -> PostSet] /\ job \in [Runs -> JobSet]
      /\ \A r \in Runs : run[r] = NoRun /\ job[r] = NoJob
      /\ \A t \in Tabs : post[t] = NoPost
  BY <1>1, <1>2, <1>3 DEF Vacant
<1>5. runs \in 0..MaxRuns /\ printed \subseteq Inventories /\ \A r \in Runs : ~(r <= runs)
  BY PageAssumption DEF Runs, Vacant
<1>6. Opened /\ LastWorks
  BY <1>1, <1>3, <1>4, <1>5 DEF Opened, LastWorks, Vacant
<1>7. Down /\ Posting
  BY <1>2, <1>4 DEF Down, Posting, Saving, Starting, Vacant
<1>8. Honest /\ KillKeepsAnswers /\ ReadsVerified
  BY <1>1, <1>2, <1>3, <1>4 DEF Honest, Busy, Working, Gone, InLegs, KillKeepsAnswers, ReadsVerified, Vacant
<1> QED
  BY <1>4, <1>5, <1>6, <1>7, <1>8 DEF MemoryFits

(* The console starts with nothing open.                                   *)
LEMMA InitIInv == Init => IInv
<1> SUFFICES ASSUME Init PROVE IInv
  OBVIOUS
<1>1. pid \in 1..MaxStarts
  BY PageAssumption DEF Init
<1>2. MemoryFits
  BY Empty DEF Init, Fresh, Vacant
<1>3. TypeOK /\ Files
  BY <1>1, <1>2, Types DEF Init, Fresh, Files, MemoryFits
<1> QED
  BY <1>2, <1>3 DEF IInv, MemoryFits

(* Every step of the console, its threads and its user keeps the invariant.*)
LEMMA NextIInv ==
  ASSUME OneTab, Ghosts = {}, Reopens = FALSE, IInv, [Next]_vars
  PROVE  IInv'
<1>1. ASSUME NEW t \in Tabs, NEW a \in Answers, Answer(t, a) PROVE IInv'
  <2> DEFINE told == [run[page] EXCEPT !.answers = a]
             new == [post[t] EXCEPT !.pc = "verify"]
  <2>1. /\ up /\ post[t].pc = "idle" /\ page # NONE /\ job[page].pc \notin Saving
        /\ run[page].state # "installing" /\ run' = [run EXCEPT ![page].answers = a]
        /\ post' = [post EXCEPT ![t].pc = "verify"]
        /\ UNCHANGED <<pid, up, runs, page, job, env, file, printed>>
    BY <1>1 DEF Answer, Step, disk
  <2>2. page \in Runs /\ run \in [Runs -> RunSet] /\ post \in [Tabs -> PostSet] /\ job \in [Runs -> JobSet]
    BY <2>1, Types DEF IInv
  <2>3. job[page].pc = "none"
    BY <2>1, <2>2 DEF IInv, Honest, Busy, Working, Gone, InLegs, JobSet, Saving
  <2>4. /\ told \in RunSet /\ told.inv = run[page].inv /\ told.state = run[page].state
        /\ run' = [run EXCEPT ![page] = told]
    BY <2>1, <2>2 DEF RunSet
  <2>5. new \in PostSet /\ new.pc = "verify" /\ post' = [post EXCEPT ![t] = new]
    BY <2>1, <2>2 DEF PostSet
  <2> HIDE DEF told, new
  <2> QED
    BY <2>1, <2>3, <2>4, <2>5, PageStep
<1>2. ASSUME NEW t \in Tabs, Connect(t) PROVE IInv'
  <2>1. PICK open \in BOOLEAN : run' = [run EXCEPT ![page].forward = run[page].forward \/ open]
    BY <1>2 DEF Connect, OpenForward
  <2>2. PICK b \in BOOLEAN : run' = [run EXCEPT ![page].forward = b]
    BY <2>1
  <2> DEFINE told == [run[page] EXCEPT !.forward = b]
  <2>3. /\ up /\ post[t].pc = "idle" /\ page # NONE
        /\ UNCHANGED <<pid, up, runs, page, post, job, env, file, printed>>
    BY <1>2 DEF Connect, disk
  <2>4. page \in Runs /\ run \in [Runs -> RunSet] /\ post \in [Tabs -> PostSet]
    BY <2>3, Types DEF IInv
  <2>5. /\ told \in RunSet /\ told.inv = run[page].inv /\ told.state = run[page].state
        /\ run' = [run EXCEPT ![page] = told]
    BY <2>2, <2>4 DEF RunSet
  <2>6. PICK new \in PostSet : new = post[t]
    BY <2>4
  <2>7. new.pc = "idle" /\ post' = [post EXCEPT ![t] = new]
    BY <2>3, <2>4, <2>6
  <2> HIDE DEF told
  <2> QED
    BY <2>3, <2>5, <2>7, PageStep
<1>3. CASE Close
  <2>1. /\ up' = FALSE /\ UNCHANGED <<pid, env, file>>
        /\ runs' = 0 /\ run' = [r \in Runs |-> NoRun] /\ page' = NONE
        /\ post' = [t \in Tabs |-> NoPost] /\ job' = [r \in Runs |-> NoJob] /\ printed' = {}
    BY <1>3 DEF Close, disk
  <2>2. Vacant'
    BY <2>1 DEF Vacant
  <2>3. MemoryFits'
    BY <2>2, Empty, PTL
  <2>4. TypeOK'
    BY <2>1, <2>3, Types DEF IInv, TypeOK, MemoryFits, RunSet, PostSet, JobSet, FileSet
  <2>5. Files'
    BY <2>1 DEF IInv, Files
  <2> QED
    BY <2>3, <2>4, <2>5 DEF IInv, MemoryFits
<1>4. CASE Launch
  <2>1. ~up /\ pid < MaxStarts /\ up' = TRUE /\ pid' = pid + 1
        /\ UNCHANGED <<runs, run, page, post, job, printed, env, file>>
    BY <1>4 DEF Launch, memory, disk
  <2>2. pid \in Nat /\ pid' \in 1..MaxStarts
    BY <2>1, Types, PageAssumption DEF IInv
  <2>3. TypeOK'
    BY <2>1, <2>2, Types DEF IInv, TypeOK
  <2>4. \A r \in Runs : job[r].pc = "none"
    BY <2>1, ThreadFacts
  <2>5. Files'
    <3> SUFFICES ASSUME NEW i \in Inventories, file[i] # NONE
                 PROVE  file[i].pid <= pid' /\ file[i].pid # pid'
      BY <2>1 DEF Files
    <3>1. file[i].pid <= pid /\ file[i].pid \in 1..MaxStarts
      BY Types DEF IInv, Files, FileSet
    <3> QED
      BY <2>1, <2>2, <3>1
  <2>6. Opened' /\ Down' /\ LastWorks' /\ ReadsVerified'
    BY <2>1 DEF IInv, Opened, Down, LastWorks, ReadsVerified
  <2>7. Posting' /\ KillKeepsAnswers'
    BY <2>1, <2>4 DEF IInv, Posting, KillKeepsAnswers, InLegs
  <2>8. Honest'
    BY <2>1 DEF IInv, Honest, Busy, Working, Gone, InLegs
  <2> QED
    BY <2>3, <2>5, <2>6, <2>7, <2>8 DEF IInv
<1>5. CASE UNCHANGED vars
  <2>1. UNCHANGED <<pid, up, runs, run, page, post, job, printed, env, file>>
    BY <1>5 DEF vars, memory, disk
  <2>2. TypeOK' /\ Opened' /\ Down' /\ Posting'
    BY <2>1 DEF IInv, TypeOK, Opened, Down, Posting
  <2>3. Honest'
    BY <2>1 DEF IInv, Honest, Busy, Working, Gone
  <2>6. LastWorks' /\ Files'
    BY <2>1 DEF IInv, LastWorks, Files
  <2>4. KillKeepsAnswers' /\ ReadsVerified'
    BY <2>1 DEF IInv, KillKeepsAnswers, ReadsVerified
  <2> QED
    BY <2>2, <2>3, <2>4, <2>6 DEF IInv
<1> QED
  BY <1>1, <1>2, <1>3, <1>4, <1>5, RequestStep, JobStep, OpenStep DEF Next

-----------------------------------------------------------------------------
(* The page says "installing" exactly while its run's install is under     *)
(* way (run.py), whatever was opened, posted, closed and launched again.   *)
THEOREM PageIsHonest ==
  ASSUME OneTab, Ghosts = {}, Reopens = FALSE
  PROVE  Spec => []StateHonest
<1>1. IInv => StateHonest
  BY Types DEF IInv, Honest, StateHonest, Busy
<1>2. IInv /\ [Next]_vars => IInv'
  BY NextIInv
<1> QED
  BY <1>1, <1>2, InitIInv, PTL DEF Spec

(* Every .env an install reads holds the answers that were verified for    *)
(* it, from the login to the last leg (do_POST).                           *)
THEOREM InstallReadsVerified ==
  ASSUME OneTab, Ghosts = {}, Reopens = FALSE
  PROVE  Spec => []ReadsVerified
<1>1. IInv => ReadsVerified
  BY DEF IInv
<1>2. IInv /\ [Next]_vars => IInv'
  BY NextIInv
<1> QED
  BY <1>1, <1>2, InitIInv, PTL DEF Spec

(* A console closed in the middle of an install leaves the answers and a   *)
(* state file that loads as failed (README).                               *)
THEOREM AnswersSurviveAKill ==
  ASSUME OneTab, Ghosts = {}, Reopens = FALSE
  PROVE  Spec => []KillKeepsAnswers
<1>1. IInv => KillKeepsAnswers
  BY DEF IInv
<1>2. IInv /\ [Next]_vars => IInv'
  BY NextIInv
<1> QED
  BY <1>1, <1>2, InitIInv, PTL DEF Spec
=============================================================================
