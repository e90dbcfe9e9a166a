--------------------------- MODULE ResticKeyProofs --------------------------
(***************************************************************************)
(* The safety properties of ResticKey, for every set of destinations,      *)
(* passwords and processes.                                                *)
(***************************************************************************)
EXTENDS ResticKey, TLAPS

(* Where each operation's steps are.                                       *)
Steps == \A p \in Procs :
    /\ run[p].pc \in {"generate", "probe"} => run[p].op = "generate"
    /\ run[p].pc \in {"rekey", "save", "pass"} => run[p].op \in {"generate", "rotate"}
    /\ run[p].pc = "rotate" => run[p].op = "rotate"
    /\ run[p].pc \in {"init", "list", "create"} => run[p].op = "init"
    /\ run[p].pc \in {"probe", "list", "create"} => run[p].dest # NONE
    /\ run[p].pc = "probe" => run[p].new # NONE
    /\ run[p].replace => run[p].op = "generate"
    /\ run[p].pc \in {"list", "create"} => run[p].pw # NONE

(* The stored key, and every copy a run has of it, is one the client can   *)
(* have read; a rotation's new key is the client's own.                    *)
StoredKnown ==
    /\ stored \in known \cup {NONE, CUT}
    /\ \A p \in Procs :
         /\ run[p].pw \in known \cup {NONE}
         /\ run[p].op = "rotate" /\ run[p].pc \in {"rekey", "save"} => run[p].new \in known

(* A key only one run has is a key that run is about to save.              *)
SaveDue ==
    \A d \in Dests : repo[d] \in Keys =>
        \/ repo[d] \in known \cup lost
        \/ \E p \in Procs : run[p].pc = "save" /\ run[p].new = repo[d]

(* What the re-key was admitted on still holds: no restore and no          *)
(* confirmation comes while an operation runs.                             *)
HoldStands ==
    \A p \in Procs : run[p].pc = "rekey" =>
        IF run[p].op = "rotate" THEN hold = NONE
        ELSE hold = [settings |-> run[p].dest, choice |-> "fresh"]

IInv == TypeOK /\ Steps /\ StoredKnown /\ HoldStands /\ SaveDue

(* How far the one operation that runs has come with its new key.          *)
Applied ==
    \A p \in Procs :
        /\ run[p].op = "rotate" /\ run[p].pc \in {"save", "pass", "ok"} =>
              run[p].dest \in Dests /\ repo[run[p].dest] = run[p].new
        /\ run[p].pc \in {"pass", "ok"} /\ (run[p].op = "rotate" \/ run[p].replace) =>
              stored \in {run[p].new, CUT} /\ run[p].new # NONE
        /\ run[p].pc = "ok" /\ (run[p].op = "rotate" \/ run[p].replace) => passfile = run[p].new
        /\ run[p].pc = "save" => run[p].new # NONE
        /\ run[p].op = "generate" /\ run[p].pc \in {"save", "pass", "ok"} /\ run[p].dest # NONE =>
              repo[run[p].dest] \in {NOREPO, FILES, run[p].new}
        /\ run[p].op = "init" /\ run[p].pc = "create" => run[p].dest \in Dests
        /\ run[p].op = "init" /\ run[p].pc = "ok" =>
              run[p].dest \in Dests /\ repo[run[p].dest] = run[p].pw

Runs == [pc : PCs, op : {"none", "generate", "rotate", "init"}, replace : BOOLEAN,
         dest : Dests \cup {NONE}, pw : Keys \cup {NONE}, new : Passwords \cup {NONE}]

Store == <<repo, dest, stored, hold, known>>

-----------------------------------------------------------------------------
(* An idle process holds nothing.                                          *)
LEMMA IdleFacts ==
  Idle \in Runs /\ Idle.pc = "idle" /\ Idle.op = "none" /\ Idle.replace = FALSE
  /\ Idle.pw = NONE /\ Idle.new = NONE
  BY DEF Idle, Runs, PCs

(* A run that ends takes no key with it that CutShort does not mark.       *)
LEMMA EndStep ==
  ASSUME IInv, NEW p \in Procs, Refuse(p), UNCHANGED Store,
         passfile' \in {passfile, CUT},
         UNCHANGED lost \/ CutShort(p), run[p].pc = "save" => CutShort(p)
  PROVE  IInv'
<1>1. run \in [Procs -> Runs] /\ run' \in [Procs -> Runs] /\ run'[p] = Idle
      /\ \A q \in Procs : q # p => run'[q] = run[q]
  BY IdleFacts DEF IInv, TypeOK, Runs, Refuse
<1>2. lost \subseteq lost' /\ lost' \subseteq Keys
  BY <1>1 DEF IInv, TypeOK, CutShort, Loses, Runs, Keys
<1>3. TypeOK' /\ Steps'
  BY <1>1, <1>2, IdleFacts DEF IInv, TypeOK, Steps, Runs, Store
<1>4. StoredKnown' /\ HoldStands'
  BY <1>1, IdleFacts DEF IInv, StoredKnown, HoldStands, Store
<1>5. SaveDue'
  <2> SUFFICES ASSUME NEW d \in Dests, repo'[d] \in Keys
               PROVE  \/ repo'[d] \in known' \cup lost'
                      \/ \E q \in Procs : run'[q].pc = "save" /\ run'[q].new = repo'[d]
    BY DEF SaveDue
  <2>1. CASE run[p].pc = "save" /\ run[p].new = repo[d]
    BY <2>1 DEF CutShort, Loses, Store
  <2>2. CASE ~(run[p].pc = "save" /\ run[p].new = repo[d])
    BY <1>1, <1>2, <2>2 DEF IInv, SaveDue, Store
  <2> QED
    BY <2>1, <2>2
<1> QED
  BY <1>3, <1>4, <1>5 DEF IInv

(* A step that moves a run's pc alone, past no save.                       *)
LEMMA GotoStep ==
  ASSUME IInv, NEW p \in Procs, NEW pc \in PCs, Goto(p, pc), UNCHANGED <<Store, passfile, lost>>,
         run[p].pc # "save", pc \in {"save", "list", "create", "ok"},
         pc = "save" => run[p].op = "generate" /\ run[p].new # NONE,
         pc \in {"list", "create"} =>
             run[p].op = "init" /\ run[p].dest # NONE /\ run[p].pw # NONE
  PROVE  IInv'
<1> DEFINE r == run[p]
           new == [r EXCEPT !.pc = pc]
<1>1. run \in [Procs -> Runs] /\ r \in Runs
  BY DEF IInv, TypeOK, Runs
<1>2. /\ new \in Runs /\ new.pc = pc /\ new.op = r.op /\ new.replace = r.replace
      /\ new.dest = r.dest /\ new.pw = r.pw /\ new.new = r.new
      /\ run' = [run EXCEPT ![p] = new]
  BY <1>1 DEF Runs, Goto
<1> HIDE DEF new
<1>3. run' \in [Procs -> Runs] /\ run'[p] = new /\ \A q \in Procs : q # p => run'[q] = run[q]
  BY <1>1, <1>2
<1>4. TypeOK' /\ Steps'
  BY <1>1, <1>2, <1>3 DEF IInv, TypeOK, Steps, Runs, Store
<1>5. StoredKnown' /\ HoldStands'
  BY <1>2, <1>3 DEF IInv, StoredKnown, HoldStands, Store
<1>6. SaveDue'
  BY <1>2, <1>3 DEF IInv, SaveDue, Store
<1> QED
  BY <1>4, <1>5, <1>6 DEF IInv

(* Every step of a process.                                                *)
LEMMA StepKeeps ==
  ASSUME IInv, NEW p \in Procs, Step(p)
  PROVE  IInv'
<1> DEFINE r == run[p]
           n == run'[p]
           Others == \A q \in Procs : q # p => run'[q] = run[q]
<1>1. run \in [Procs -> Runs] /\ r \in Runs
  BY DEF IInv, TypeOK, Runs
<1>2. ASSUME NEW op \in {"generate", "rotate", "init"}, NEW b \in BOOLEAN, Begin(p, op, b)
      PROVE  IInv'
  <2>1. /\ n = [pc |-> op, op |-> op, replace |-> b, dest |-> dest, pw |-> stored, new |-> NONE]
        /\ r.pc = "idle" /\ stored # CUT /\ (b => op = "generate") /\ UNCHANGED <<Store, passfile, lost>> /\ Others
        /\ run' = [run EXCEPT ![p] = n]
    BY <1>1, <1>2 DEF Begin, Store
  <2>2. n \in Runs /\ n.pc = op /\ n.op = op /\ n.replace = b /\ n.pw = stored /\ n.new = NONE
    BY <2>1 DEF Runs, PCs, IInv, TypeOK
  <2>3. run' \in [Procs -> Runs]
    BY <1>1, <2>1, <2>2
  <2>4. TypeOK' /\ Steps'
    BY <2>1, <2>2, <2>3 DEF IInv, TypeOK, Steps, Runs, Store
  <2>5. StoredKnown' /\ HoldStands' /\ SaveDue'
    BY <2>1, <2>2 DEF IInv, StoredKnown, HoldStands, SaveDue, Store
  <2> QED
    BY <2>4, <2>5 DEF IInv
<1>3. CASE Generate(p)
  <2>1. CASE Refuse(p)
    BY <1>3, <2>1, EndStep DEF Generate, Store
  <2>2. CASE ~Refuse(p)
    <3>1. PICK new \in Fresh : run' = [run EXCEPT ![p].new = new,
                       ![p].pc = CASE r.pw # NONE /\ hold.settings = r.dest -> "rekey"
                                   [] r.dest = NONE -> "save"
                                   [] OTHER -> "probe"]
      BY <1>3, <2>2 DEF Generate
    <3>2. ~GenerateRefused(r) /\ r.pc = "generate" /\ UNCHANGED <<Store, passfile, lost>>
      BY <1>3, <2>2 DEF Generate, Store
    <3>3. new \in Passwords /\ new # NONE
      BY PasswordsAssumption DEF Fresh
    <3>4. /\ n \in Runs /\ n.op = r.op /\ n.replace = r.replace /\ n.dest = r.dest
          /\ n.pw = r.pw /\ n.new = new /\ n.pc \in {"rekey", "save", "probe"}
          /\ n.pc = "rekey" => r.pw # NONE /\ hold.settings = r.dest
          /\ n.pc = "probe" => r.dest # NONE
          /\ run' = [run EXCEPT ![p] = n]
      <4> DEFINE to == CASE r.pw # NONE /\ hold.settings = r.dest -> "rekey"
                         [] r.dest = NONE -> "save"
                         [] OTHER -> "probe"
      <4>1. /\ to \in {"rekey", "save", "probe"}
            /\ to = "rekey" => r.pw # NONE /\ hold.settings = r.dest
            /\ to = "probe" => r.dest # NONE
        OBVIOUS
      <4>2. run' = [run EXCEPT ![p].new = new, ![p].pc = to]
        BY <3>1
      <4> HIDE DEF to
      <4> QED
        BY <1>1, <3>3, <4>1, <4>2 DEF Runs, PCs
    <3>5. run' \in [Procs -> Runs] /\ Others
      BY <1>1, <3>4
    <3>6. n.pc = "rekey" => hold = [settings |-> r.dest, choice |-> "fresh"]
      BY <3>2, <3>4 DEF GenerateRefused, AdoptedKept, IInv, TypeOK
    <3>7. TypeOK' /\ Steps'
      BY <3>2, <3>3, <3>4, <3>5 DEF IInv, TypeOK, Steps, Runs, Store
    <3>8. StoredKnown' /\ HoldStands'
      BY <3>2, <3>4, <3>5, <3>6 DEF IInv, Steps, StoredKnown, HoldStands, Store
    <3>9. SaveDue'
      BY <3>2, <3>4, <3>5 DEF IInv, SaveDue, Store
    <3> QED
      BY <3>7, <3>8, <3>9 DEF IInv
  <2> QED
    BY <2>1, <2>2
<1>4. CASE Probe(p)
  <2>1. r.pc = "probe" /\ r.op = "generate" /\ r.new # NONE /\ UNCHANGED <<Store, passfile, lost>>
    BY <1>4 DEF Probe, IInv, Steps, Store
  <2> QED
    BY <1>4, <2>1, EndStep, GotoStep DEF Probe, PCs
<1>5. CASE Rotate(p)
  <2>1. CASE Refuse(p) /\ UNCHANGED known
    BY <1>5, <2>1, EndStep DEF Rotate, Store
  <2>2. CASE ~(Refuse(p) /\ UNCHANGED known)
    <3>1. PICK new \in Fresh : /\ run' = [run EXCEPT ![p].new = new, ![p].pc = "rekey"]
                               /\ known' = known \cup {new}
      BY <1>5, <2>2 DEF Rotate
    <3>2. hold = NONE /\ r.pc = "rotate" /\ r.op = "rotate"
          /\ UNCHANGED <<repo, dest, stored, passfile, hold, lost>>
      BY <1>5, <2>2 DEF Rotate, IInv, Steps
    <3>3. new \in Passwords /\ new # NONE
      BY PasswordsAssumption DEF Fresh
    <3>4. /\ n \in Runs /\ n.op = r.op /\ n.replace = r.replace /\ n.dest = r.dest
          /\ n.pw = r.pw /\ n.new = new /\ n.pc = "rekey" /\ run' = [run EXCEPT ![p] = n]
      BY <1>1, <3>1, <3>3 DEF Runs, PCs
    <3>5. run' \in [Procs -> Runs] /\ Others
      BY <1>1, <3>4
    <3>6. TypeOK' /\ Steps'
      BY <3>1, <3>2, <3>3, <3>4, <3>5 DEF IInv, TypeOK, Steps, Runs, Keys
    <3>7. StoredKnown' /\ HoldStands'
      BY <3>1, <3>2, <3>4, <3>5 DEF IInv, StoredKnown, HoldStands
    <3>8. SaveDue'
      BY <3>1, <3>2, <3>4, <3>5 DEF IInv, SaveDue
    <3> QED
      BY <3>6, <3>7, <3>8 DEF IInv
  <2> QED
    BY <2>1, <2>2
<1>6. CASE Rekey(p)
  <2>1. CASE Refuse(p) /\ UNCHANGED repo
    BY <1>6, <2>1, EndStep DEF Rekey, Store
  <2>2. CASE ~(Refuse(p) /\ UNCHANGED repo)
    <3>1. /\ r.pc = "rekey" /\ r.dest \in Dests
          /\ repo' = [repo EXCEPT ![r.dest] = r.new] /\ Goto(p, "save")
          /\ UNCHANGED <<dest, stored, passfile, hold, known, lost>>
      BY <1>1, <1>6, <2>2 DEF Rekey, Runs
    <3>2. r.new \in Passwords /\ r.new # NONE /\ r.op \in {"generate", "rotate"}
      BY <1>1, <3>1 DEF IInv, TypeOK, Steps, Runs
    <3>3. /\ n \in Runs /\ n.op = r.op /\ n.replace = r.replace /\ n.dest = r.dest
          /\ n.pw = r.pw /\ n.new = r.new /\ n.pc = "save" /\ run' = [run EXCEPT ![p] = n]
      BY <1>1, <3>1 DEF Runs, PCs, Goto
    <3>4. run' \in [Procs -> Runs] /\ Others
      BY <1>1, <3>3
    <3>5. TypeOK' /\ Steps'
      BY <3>1, <3>2, <3>3, <3>4 DEF IInv, TypeOK, Steps, Runs, Keys
    <3>6. StoredKnown' /\ HoldStands'
      BY <3>1, <3>3, <3>4 DEF IInv, StoredKnown, HoldStands
    <3>7. SaveDue'
      BY <3>1, <3>3, <3>4 DEF IInv, TypeOK, SaveDue
    <3> QED
      BY <3>5, <3>6, <3>7 DEF IInv
  <2> QED
    BY <2>1, <2>2
<1>7. CASE Save(p) /\ ~CutShort(p)
  <2>1. /\ r.pc = "save" /\ UNCHANGED <<repo, passfile, hold>>
        /\ \/ stored' = r.new /\ dest' = r.dest /\ known' = known \cup {r.new} /\ UNCHANGED lost
           \/ stored' = CUT /\ Loses(p) /\ UNCHANGED <<dest, known>>
    BY <1>7 DEF Save
  <2>2. r.new \in Passwords /\ r.new # NONE /\ r.op \in {"generate", "rotate"}
    BY <1>1, <2>1 DEF IInv, TypeOK, Steps, Runs
  <2>3. /\ n \in Runs /\ n.op = r.op /\ n.replace = r.replace /\ n.dest = r.dest
        /\ n.pw = r.pw /\ n.new = r.new /\ n.pc \in {"pass", "ok"} /\ run' = [run EXCEPT ![p] = n]
    BY <1>1, <1>7 DEF Runs, PCs, Save, Goto
  <2>4. run' \in [Procs -> Runs] /\ Others
    BY <1>1, <2>3
  <2>5. TypeOK' /\ Steps'
    BY <1>1, <2>1, <2>2, <2>3, <2>4 DEF IInv, TypeOK, Steps, Runs, Keys, Loses
  <2>6. StoredKnown' /\ HoldStands'
    BY <2>1, <2>3, <2>4 DEF IInv, StoredKnown, HoldStands
  <2>7. SaveDue'
    BY <2>1, <2>3, <2>4 DEF IInv, TypeOK, SaveDue, Loses
  <2> QED
    BY <2>5, <2>6, <2>7 DEF IInv
<1>13. CASE Save(p) /\ CutShort(p)
  <2>1. UNCHANGED <<Store, passfile>> /\ Refuse(p)
    <3>1. CASE Goto(p, IF r.op = "rotate" \/ r.replace THEN "pass" ELSE "ok")
      <4>1. run'[p].pc \in {"pass", "ok"}
        BY <1>1, <3>1 DEF Goto, Runs
      <4>2. run'[p].pc = "idle"
        BY <1>1, <1>13, IdleFacts DEF CutShort, Refuse
      <4> QED
        BY <4>1, <4>2
    <3> QED
      BY <1>13, <3>1 DEF Save, CutShort, Store
  <2> QED
    BY <1>13, <2>1, EndStep
<1>8. CASE WritePass(p) /\ ~Refuse(p)
  <2>1. /\ r.pc = "pass" /\ passfile' = r.new /\ UNCHANGED <<repo, dest, stored, hold, known, lost>>
    BY <1>8 DEF WritePass
  <2>2. r.new \in Passwords
    BY <1>1, <2>1 DEF IInv, TypeOK, Runs
  <2>3. /\ n \in Runs /\ n.op = r.op /\ n.replace = r.replace /\ n.dest = r.dest
        /\ n.pw = r.pw /\ n.new = r.new /\ n.pc = "ok" /\ run' = [run EXCEPT ![p] = n]
    BY <1>1, <1>8 DEF Runs, PCs, WritePass, Goto
  <2>4. run' \in [Procs -> Runs] /\ Others
    BY <1>1, <2>3
  <2>5. TypeOK' /\ Steps'
    BY <2>1, <2>2, <2>3, <2>4 DEF IInv, TypeOK, Steps, Runs, Keys
  <2>6. StoredKnown' /\ HoldStands' /\ SaveDue'
    BY <2>1, <2>3, <2>4 DEF IInv, StoredKnown, HoldStands, SaveDue
  <2> QED
    BY <2>5, <2>6 DEF IInv
<1>14. CASE WritePass(p) /\ Refuse(p)
  <2>1. passfile' \in {passfile, CUT}
    <3>1. CASE Goto(p, "ok")
      <4>1. run'[p].pc = "ok"
        BY <1>1, <3>1 DEF Goto, Runs
      <4>2. run'[p].pc = "idle"
        BY <1>1, <1>14, IdleFacts DEF Refuse
      <4> QED
        BY <4>1, <4>2
    <3> QED
      BY <1>14, <3>1 DEF WritePass
  <2> QED
    BY <1>14, <2>1, EndStep DEF WritePass, Store
<1>9. CASE InitProbe(p) \/ InitList(p)
  <2>1. r.pc \in {"init", "list"} /\ UNCHANGED <<Store, passfile, lost>>
    BY <1>9 DEF InitProbe, InitList, Store
  <2>2. CASE Refuse(p)
    BY <2>1, <2>2, EndStep
  <2>3. CASE Goto(p, "ok") /\ ~Refuse(p)
    BY <2>1, <2>3, GotoStep DEF PCs
  <2>4. CASE Goto(p, "list") /\ r.dest # NONE /\ r.pw # NONE
    BY <2>1, <2>4, GotoStep DEF PCs, IInv, Steps
  <2>5. CASE InitList(p) /\ Goto(p, "create")
    BY <2>1, <2>5, GotoStep DEF PCs, InitList, IInv, Steps
  <2> QED
    BY <1>9, <2>2, <2>3, <2>4, <2>5 DEF InitProbe, InitList
<1>10. CASE InitCreate(p)
  <2>1. CASE Refuse(p) /\ UNCHANGED repo
    BY <1>10, <2>1, EndStep DEF InitCreate, Store
  <2>2. CASE ~(Refuse(p) /\ UNCHANGED repo)
    <3>1. /\ r.pc = "create" /\ repo' = [repo EXCEPT ![r.dest] = r.pw] /\ Goto(p, "ok")
          /\ UNCHANGED <<dest, stored, passfile, hold, known, lost>>
      BY <1>10, <2>2 DEF InitCreate
    <3>2. r.pw \in known /\ r.dest \in Dests
      BY <1>1, <3>1 DEF IInv, Steps, StoredKnown, Runs
    <3>3. /\ n \in Runs /\ n.op = r.op /\ n.replace = r.replace /\ n.dest = r.dest
          /\ n.pw = r.pw /\ n.new = r.new /\ n.pc = "ok" /\ run' = [run EXCEPT ![p] = n]
      BY <1>1, <3>1 DEF Runs, PCs, Goto
    <3>4. run' \in [Procs -> Runs] /\ Others
      BY <1>1, <3>3
    <3>5. TypeOK' /\ Steps'
      BY <3>1, <3>2, <3>3, <3>4 DEF IInv, TypeOK, Steps, Runs, Keys
    <3>6. StoredKnown' /\ HoldStands'
      BY <3>1, <3>3, <3>4 DEF IInv, StoredKnown, HoldStands
    <3>7. SaveDue'
      BY <3>1, <3>2, <3>3, <3>4 DEF IInv, TypeOK, SaveDue
    <3> QED
      BY <3>5, <3>6, <3>7 DEF IInv
  <2> QED
    BY <2>1, <2>2
<1>11. CASE Answer(p)
  BY <1>11, EndStep DEF Answer, Refuse, Store
<1>12. CASE Die(p)
  BY <1>12, EndStep DEF Die, CutShort, Store
<1> QED
  BY <1>2, <1>3, <1>4, <1>5, <1>6, <1>7, <1>8, <1>9, <1>10, <1>11, <1>12, <1>13, <1>14
     DEF Step

(* The invariant holds before the first change of the password.            *)
LEMMA InitIInv == Init => IInv
<1> SUFFICES ASSUME Init PROVE IInv
  OBVIOUS
<1>1. run \in [Procs -> Runs] /\ \A p \in Procs : run[p] = Idle
  BY IdleFacts DEF Init
<1>2. TypeOK
  BY <1>1, IdleFacts DEF Init, TypeOK, Runs, Keys
<1> QED
  BY <1>1, <1>2, IdleFacts, PasswordsAssumption DEF Init, IInv, Steps, StoredKnown, SaveDue,
     HoldStands, Keys

(* Every step of every process keeps the invariant.                        *)
LEMMA NextIInv ==
  ASSUME IInv, [Next]_vars
  PROVE  IInv'
<1>1. ASSUME NEW d \in Dests, SaveDestination(d) PROVE IInv'
  BY <1>1 DEF SaveDestination, IInv, TypeOK, Steps, StoredKnown, SaveDue, HoldStands
<1>2. ASSUME NEW d \in Dests, NEW c \in Choices, Restore(d, c) PROVE IInv'
  <2>1. /\ \A p \in Procs : run[p].pc = "idle"
        /\ repo[d] \in known /\ dest' = d /\ stored' = repo[d] /\ passfile' = repo[d]
        /\ hold' = [settings |-> d, choice |-> c] /\ UNCHANGED <<repo, known, lost, run>>
    BY <1>2 DEF Restore, Quiet
  <2> QED
    BY <2>1 DEF IInv, TypeOK, Steps, StoredKnown, SaveDue, HoldStands
<1>3. CASE ConvergePassFile
  BY <1>3 DEF ConvergePassFile, IInv, TypeOK, Steps, StoredKnown, SaveDue, HoldStands
<1>4. CASE Confirm
  BY <1>4 DEF Confirm, Quiet, IInv, TypeOK, Steps, StoredKnown, SaveDue, HoldStands
<1>5. CASE UNCHANGED vars
  BY <1>5 DEF vars, IInv, TypeOK, Steps, StoredKnown, SaveDue, HoldStands
<1> QED
  BY <1>1, <1>2, <1>3, <1>4, <1>5, StepKeeps DEF Next

-----------------------------------------------------------------------------
(* The repositories a step writes to, and what it replaces there.          *)
LEMMA Changes ==
  ASSUME IInv, [Next]_vars, NEW d \in Dests, repo'[d] # repo[d]
  PROVE  \E p \in Procs :
           /\ d = run[p].dest /\ repo'[d] # FILES
           /\ \/ run[p].pc = "rekey" /\ repo[d] = run[p].pw
              \/ run[p].pc = "create" /\ repo[d] \in {NOREPO, FILES}
<1>1. repo \in [Dests -> {NOREPO, FILES} \cup Keys] /\ repo' # repo
  BY DEF IInv, TypeOK
<1>2. PICK p \in Procs : Rekey(p) \/ InitCreate(p)
  BY <1>1 DEF Next, Step, Begin, Generate, Probe, Rotate, Save, WritePass, InitProbe, InitList, Answer,
     Die, SaveDestination, Restore, ConvergePassFile, Confirm, vars
<1>3. run[p] \in Runs
  BY DEF IInv, TypeOK, Runs
<1>4. CASE Rekey(p)
  BY <1>1, <1>3, <1>4, PasswordsAssumption DEF Rekey, IInv, TypeOK, Runs
<1>5. CASE InitCreate(p)
  BY <1>1, <1>3, <1>5, PasswordsAssumption DEF InitCreate, IInv, Steps, Runs, Keys
<1> QED
  BY <1>2, <1>4, <1>5

(* Between the listing of a destination and restic init there are no files *)
(* there that are not a repository: nothing here puts any.                 *)
Listed == \A p \in Procs : run[p].pc = "create" => repo[run[p].dest] # FILES

(* The listing is still good at restic init.                               *)
LEMMA ListedStep ==
  ASSUME IInv, Listed, [Next]_vars
  PROVE  Listed'
<1> SUFFICES ASSUME NEW p \in Procs, run'[p].pc = "create"
             PROVE  repo'[run'[p].dest] # FILES
  BY DEF Listed
<1>1. run \in [Procs -> Runs]
  BY DEF IInv, TypeOK, Runs
<1>2. \A d \in Dests : repo'[d] = FILES => repo[d] = FILES
  BY Changes
<1>3. CASE run'[p] = run[p]
  BY <1>1, <1>2, <1>3 DEF Listed, IInv, Steps, Runs
<1>4. CASE run'[p] # run[p]
  <2>1. Step(p)
    <3>1. ASSUME NEW q \in Procs, Step(q), q # p PROVE FALSE
      BY <1>1, <1>4, <3>1 DEF Step, Begin, Generate, Probe, Rotate, Rekey, Save, CutShort,
         WritePass, InitProbe, InitList, InitCreate, Answer, Die, Goto, Refuse
    <3> QED
      BY <1>4, <3>1 DEF Next, SaveDestination, Restore, ConvergePassFile, Confirm, vars
  <2>2. InitList(p) /\ Goto(p, "create") /\ repo[run[p].dest] = NOREPO
    <3>1. ASSUME NEW pc, Goto(p, pc) PROVE pc = "create"
      BY <1>1, <3>1 DEF Goto, Runs
    <3>2. ~Refuse(p)
      BY <1>1, IdleFacts DEF Refuse
    <3>3. \A op \in {"generate", "rotate", "init"}, b \in BOOLEAN : ~Begin(p, op, b)
      BY <1>1 DEF Begin
    <3>4. ~Generate(p)
      <4> SUFFICES ASSUME Generate(p) PROVE FALSE
        OBVIOUS
      <4> DEFINE to == CASE run[p].pw # NONE /\ hold.settings = run[p].dest -> "rekey"
                         [] run[p].dest = NONE -> "save"
                         [] OTHER -> "probe"
      <4>1. to # "create"
        OBVIOUS
      <4>2. PICK new \in Fresh : run' = [run EXCEPT ![p].new = new, ![p].pc = to]
        BY <3>2 DEF Generate
      <4> HIDE DEF to
      <4>3. run'[p].pc = to
        BY <1>1, <4>2 DEF Runs
      <4> QED
        BY <4>1, <4>3
    <3>5. ~Rotate(p)
      BY <1>1, <3>2 DEF Rotate, Runs
    <3>6. ~(Answer(p) \/ Die(p) \/ Rekey(p) \/ Save(p) \/ WritePass(p) \/ InitProbe(p) \/ InitCreate(p) \/ Probe(p))
      BY <3>1, <3>2 DEF Answer, Die, Rekey, Save, CutShort, WritePass, InitProbe, InitCreate, Probe, Refuse
    <3> QED
      BY <2>1, <3>1, <3>2, <3>3, <3>4, <3>5, <3>6 DEF Step, InitList
  <2>3. run'[p].dest = run[p].dest /\ run[p].dest \in Dests
    BY <1>1, <2>2 DEF Goto, InitList, IInv, Steps, Runs
  <2> QED
    BY <1>2, <2>2, <2>3, PasswordsAssumption
<1> QED
  BY <1>3, <1>4

(* The key of a repository is always with the client, in the store's page  *)
(* or with the run about to store it, for any number of processes, however *)
(* they overlap, fail and die, but where a generate ended between its      *)
(* re-key and its save.                                                    *)
THEOREM EveryRepoCanBeOpened == Spec => []EveryRepoOpens
<1>1. IInv => EveryRepoOpens
  BY DEF IInv, SaveDue, EveryRepoOpens
<1>2. IInv /\ [Next]_vars => IInv'
  BY NextIInv
<1> QED
  BY <1>1, <1>2, InitIInv, PTL DEF Spec

(* cmd_init and cmd_generate never write over files that are not a         *)
(* repository, nor over a repository of another key than the stored one.   *)
(* restic itself would create a repository beside other files: that none   *)
(* are there is the code's own listing (282-290), which is still good when *)
(* restic init runs (Listed).                                              *)
THEOREM OthersAreKept == Spec => OthersStand
<1>1. IInv /\ Listed /\ [Next]_vars =>
        [\A d \in Dests : repo'[d] # repo[d] =>
            repo[d] = NOREPO \/ \E p \in Procs : repo[d] = run[p].pw]_vars
  BY Changes DEF Listed
<1>2. IInv /\ Listed /\ [Next]_vars => IInv' /\ Listed'
  BY NextIInv, ListedStep
<1>3. Init => Listed
  BY IdleFacts DEF Init, Listed
<1> QED
  BY <1>1, <1>2, <1>3, InitIInv, PTL DEF Spec, OthersStand

(* A repository the restore brought back is re-keyed while the backups     *)
(* wait only by the choice that says so (catena-restic-key.py:18-22): the  *)
(* hold a process asked about is the hold at its re-key.                   *)
THEOREM HeldIsNotRekeyed == Spec => HeldNotRekeyed
<1>1. IInv /\ [Next]_vars =>
        [\A d \in Dests : hold # NONE /\ repo[d] \in Keys /\ repo'[d] # repo[d] =>
            hold = [settings |-> d, choice |-> "fresh"]]_vars
  <2> SUFFICES ASSUME IInv, [Next]_vars, NEW d \in Dests,
                      hold # NONE, repo[d] \in Keys, repo'[d] # repo[d]
               PROVE  hold = [settings |-> d, choice |-> "fresh"]
    OBVIOUS
  <2>1. PICK p \in Procs : run[p].pc = "rekey" /\ d = run[p].dest
    BY Changes, PasswordsAssumption DEF Keys
  <2> QED
    BY <2>1 DEF IInv, Steps, HoldStands
<1>2. IInv /\ [Next]_vars => IInv'
  BY NextIInv
<1> QED
  BY <1>1, <1>2, InitIInv, PTL DEF Spec, HeldNotRekeyed

-----------------------------------------------------------------------------
(* Every step, where one operation runs at a time.                         *)
LEMMA AppliedStep ==
  ASSUME \A p, q \in Procs : p = q, IInv, Applied, [Next]_vars
  PROVE  Applied'
<1>1. run \in [Procs -> Runs] /\ repo \in [Dests -> {NOREPO, FILES} \cup Keys]
  BY DEF IInv, TypeOK, Runs
<1>2. ASSUME NEW p \in Procs, Step(p) PROVE Applied'
  <2> DEFINE r == run[p]
             n == run'[p]
  <2>1. r \in Runs
    BY <1>1
  <2>2. ASSUME Refuse(p) PROVE Applied'
    BY <1>1, <2>2, IdleFacts DEF Refuse, Applied
  <2>3. ASSUME NEW pc \in PCs, Goto(p, pc)
        PROVE  n.pc = pc /\ n.op = r.op /\ n.replace = r.replace /\ n.dest = r.dest /\ n.new = r.new
               /\ n.pw = r.pw
    BY <1>1, <2>1, <2>3 DEF Goto, Runs
  <2>4. CASE \E op \in {"generate", "rotate", "init"}, b \in BOOLEAN : Begin(p, op, b)
    <3>1. n.pc \in {"generate", "rotate", "init"}
      BY <1>1, <2>4 DEF Begin
    <3> QED
      BY <3>1 DEF Applied
  <2>5. CASE Generate(p)
    <3>1. CASE ~Refuse(p)
      <4>1. PICK new \in Fresh : run' = [run EXCEPT ![p].new = new,
                       ![p].pc = CASE r.pw # NONE /\ hold.settings = r.dest -> "rekey"
                                   [] r.dest = NONE -> "save"
                                   [] OTHER -> "probe"]
        BY <2>5, <3>1 DEF Generate
      <4>2. /\ n.op = "generate" /\ n.pc \in {"rekey", "save", "probe"} /\ n.new = new
            /\ n.pc = "save" => n.dest = NONE
        <5> DEFINE to == CASE r.pw # NONE /\ hold.settings = r.dest -> "rekey"
                           [] r.dest = NONE -> "save"
                           [] OTHER -> "probe"
        <5>1. to \in {"rekey", "save", "probe"} /\ (to = "save" => r.dest = NONE)
          OBVIOUS
        <5>2. run' = [run EXCEPT ![p].new = new, ![p].pc = to]
          BY <4>1
        <5> HIDE DEF to
        <5> QED
          BY <1>1, <2>1, <2>5, <5>1, <5>2 DEF Generate, Runs, IInv, Steps
      <4>3. new # NONE
        BY PasswordsAssumption DEF Fresh
      <4> QED
        BY <4>2, <4>3 DEF Applied
    <3> QED
      BY <2>2, <3>1
  <2>6. CASE Probe(p)
    <3>1. CASE Goto(p, "save")
      <4>1. n.pc = "save" /\ n.op = "generate" /\ n.new # NONE
            /\ repo'[n.dest] \in {NOREPO, FILES}
        <5>1. ~Refuse(p)
          BY <1>1, <2>3, <3>1, IdleFacts DEF Refuse, PCs
        <5> QED
          BY <2>3, <2>6, <3>1, <5>1 DEF PCs, Probe, IInv, Steps
      <4> QED
        BY <4>1 DEF Applied
    <3> QED
      BY <2>2, <2>6, <3>1 DEF Probe
  <2>7. CASE Rotate(p)
    <3>1. CASE ~Refuse(p)
      <4>1. n.pc = "rekey"
        BY <1>1, <2>1, <2>7, <3>1 DEF Rotate, Runs
      <4> QED
        BY <4>1 DEF Applied
    <3> QED
      BY <2>2, <3>1
  <2>8. CASE Rekey(p)
    <3>1. CASE ~Refuse(p)
      <4>1. /\ r.pc = "rekey" /\ r.dest \in Dests /\ r.new # NONE
            /\ repo' = [repo EXCEPT ![r.dest] = r.new] /\ Goto(p, "save")
        BY <2>1, <2>8, <3>1 DEF Rekey, IInv, TypeOK, Runs
      <4> QED
        BY <1>1, <2>3, <4>1 DEF PCs, Applied
    <3> QED
      BY <2>2, <3>1
  <2>9. CASE Save(p) /\ ~Refuse(p)
    <3>1. /\ r.pc = "save" /\ stored' \in {r.new, CUT} /\ UNCHANGED <<repo, passfile>>
          /\ Goto(p, IF r.op = "rotate" \/ r.replace THEN "pass" ELSE "ok")
      BY <2>9 DEF Save, CutShort
    <3>2. n.pc = "pass" \/ (n.pc = "ok" /\ ~(r.op = "rotate" \/ r.replace))
      BY <2>3, <3>1 DEF PCs
    <3>3. r.op # "init"
      BY <3>1 DEF IInv, Steps
    <3> QED
      BY <2>3, <3>1, <3>2, <3>3 DEF PCs, Applied
  <2>10. CASE WritePass(p) /\ ~Refuse(p)
    <3>1. r.op # "init"
      BY <2>10 DEF WritePass, IInv, Steps
    <3> QED
      BY <2>3, <2>10, <3>1 DEF WritePass, PCs, Applied
  <2>11. CASE InitProbe(p) \/ InitList(p)
    <3>1. CASE ~Refuse(p)
      <4>1. r.op = "init" /\ r.replace = FALSE /\ UNCHANGED repo
        BY <2>1, <2>11 DEF InitProbe, InitList, IInv, Steps, Runs
      <4>2. r.dest \in Dests /\ \E pc \in {"ok", "list", "create"} : Goto(p, pc)
        BY <2>1, <2>11, <3>1 DEF InitProbe, InitList, IInv, Steps, Runs
      <4>3. n.pc = "ok" => repo[r.dest] = r.pw
        BY <2>3, <2>11, <3>1 DEF InitProbe, InitList, PCs
      <4> QED
        BY <2>3, <4>1, <4>2, <4>3 DEF PCs, Applied
    <3> QED
      BY <2>2, <3>1
  <2>12. CASE InitCreate(p)
    <3>1. CASE ~Refuse(p)
      <4>1. /\ r.op = "init" /\ r.replace = FALSE /\ r.dest \in Dests
            /\ repo' = [repo EXCEPT ![r.dest] = r.pw] /\ Goto(p, "ok")
        BY <2>1, <2>12, <3>1 DEF InitCreate, IInv, Steps, Runs
      <4> QED
        BY <1>1, <2>3, <4>1 DEF PCs, Applied
    <3> QED
      BY <2>2, <3>1
  <2> QED
    BY <1>2, <2>2, <2>4, <2>5, <2>6, <2>7, <2>8, <2>9, <2>10, <2>11, <2>12
       DEF Step, Answer, Die, CutShort, Refuse
<1>3. CASE \/ \E d \in Dests : SaveDestination(d)
           \/ Confirm
           \/ UNCHANGED vars
  BY <1>3 DEF SaveDestination, Confirm, vars, Applied
<1>4. ASSUME NEW d \in Dests, NEW c \in Choices, Restore(d, c) PROVE Applied'
  BY <1>4 DEF Restore, Quiet, Applied
<1>5. CASE ConvergePassFile
  BY <1>5 DEF ConvergePassFile, Applied
<1> QED
  BY <1>2, <1>3, <1>4, <1>5 DEF Next

(* What ok means (catena-restic-key.py:33, 174-184, 271-301): after a      *)
(* re-key one password in the repository, the store and the pass file,     *)
(* after a generate no repository of another key at the destination, after *)
(* init one the stored password opens.  No other process of it runs        *)
(* meanwhile; a converge, a save of the destination, a failed write and a  *)
(* death at any step may come between its own.                             *)
THEOREM OkIsRekeyed ==
  ASSUME \A p, q \in Procs : p = q
  PROVE  Spec => []OkMeansRekeyed
<1>1. Init => Applied
  BY IdleFacts DEF Init, Applied
<1>2. IInv /\ Applied /\ [Next]_vars => IInv' /\ Applied'
  BY NextIInv, AppliedStep
<1>3. Applied => OkMeansRekeyed
  BY DEF Applied, OkMeansRekeyed
<1> QED
  BY <1>1, <1>2, <1>3, InitIInv, PTL DEF Spec
=============================================================================
