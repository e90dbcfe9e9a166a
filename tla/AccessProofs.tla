---------------------------- MODULE AccessProofs ----------------------------
(***************************************************************************)
(* The ways into a host.  The dispatch path switch, for any generations,   *)
(* any names and any number of runs, crashes and failed commands; then the *)
(* lockdown of public port 22, for any firewall, any tailnet and any       *)
(* number of runs.                                                         *)
(***************************************************************************)
EXTENDS DispatchPath, Lockdown, SequenceTheorems, WellFoundedInduction, TLAPS

-----------------------------------------------------------------------------
\* The inductive invariant of KeepsAPath.

Beside == {"install", "install_rename", "rule_next", "accept_next", "check_next",
           "reload_next", "proof_line", "proof", "proof_back", "proof_end", "switch"}
Undoing == {"undo_dir", "undo_rule", "undo_accept", "undo_reload"}
Switched == {"prove_switch", "switch_back"}
Moving == Beside \union Undoing \union Switched
Retiring == Steps \ (Moving \union {"idle"})

\* From each of these steps on, until the undo, a part of the tree's path is there.
WithDir == (Beside \ {"install", "install_rename"}) \union Switched
WithRule == WithDir \ {"rule_next"}
WithDropin == WithRule \ {"accept_next"}
WithNames == {"proof_line", "proof", "proof_back", "proof_end", "switch"} \union Switched

\* Whose line the panel's key has at each step.
PanelLine ==
    /\ pc \in Beside \union Undoing => keys.panel = before.panel
    /\ pc \in Moving => before.panel # tree
    /\ pc \in Switched \union Retiring => keys.panel = tree

\* A path sshd and the link do not keep from answering.
Ready(p) ==
    p # NONE => /\ p \in Sound \union {LEGACY}
                /\ Names[p] \subseteq loaded
                /\ p = LEGACY => link = LEGACY

\* The running path's rules are in one of the two files each.
RunningRules ==
    /\ Ready(keys.panel)
    /\ keys.panel # NONE => /\ keys.panel \in {sudoers, sudoersNext}
                            /\ keys.panel \in {acceptenv, acceptenvNext}

\* While a tree is moved to, the path it may have to go back to is settled.
WayBack ==
    pc \in Moving =>
        /\ Ready(before.panel)
        /\ before.panel # NONE => sudoers = before.panel /\ acceptenv = before.panel

\* What BESIDE added, and that only a proof leads to the switch.
NewPath ==
    /\ pc \in WithDir => dirs[tree] = "intact"
    /\ pc \in WithRule => sudoersNext = tree
    /\ pc \in WithDropin => acceptenvNext = tree
    /\ pc \in WithNames => Names[tree] \subseteq loaded
    /\ pc \in Beside /\ proven => tree \in Sound
    /\ pc = "switch" => proven

\* RETIRE's order: the main files hold the rules before the -next files go.
RetireOrder ==
    /\ pc \in Retiring \ {"retire", "retire_rename", "retire_keys", "retire_rule"} => sudoers = tree
    /\ pc \in Retiring \ {"retire", "retire_rename", "retire_keys", "retire_rule", "retire_accept"}
         => acceptenv = tree
    /\ pc = "retire_check" => tree \in {dropin, acceptenvNext}

\* The directory of the path the panel had, and of the one it is moved to.
HadDirs ==
    had => /\ keys.panel # NONE
           /\ keys.panel \in Gens => dirs[keys.panel] = "intact"
           /\ pc \in Switched => /\ before.panel # NONE
                                 /\ before.panel \in Gens => dirs[before.panel] = "intact"

PathInv == PanelLine /\ RunningRules /\ WayBack /\ NewPath /\ RetireOrder /\ HadDirs
IInv == TypeOK /\ PathInv

-----------------------------------------------------------------------------
\* The constants' facts every step uses.
LEMMA PathFacts ==
    /\ Gens \subseteq Paths /\ LEGACY \in Paths /\ NONE \in Paths
    /\ \A p \in Paths : Names[p] \subseteq Variable
    /\ Accepted \subseteq Variable \/ ~TypeOK
  BY DEF Paths, Variable, Accepted, TypeOK

\* What the run writes to authorized_keys is a file of that form.
LEMMA KeyFiles ==
  ASSUME TypeOK
  PROVE  /\ [panel |-> tree, proof |-> FALSE] \in KeyFile
         /\ [before EXCEPT !.proof = TRUE] \in KeyFile
  BY DEF TypeOK, KeyFile, Paths

\* Every step keeps the types.
LEMMA TypeStep == TypeOK /\ [Next]_vars => TypeOK'
<1> SUFFICES ASSUME TypeOK, [Next]_vars PROVE TypeOK'
  OBVIOUS
<1> USE PathFacts, KeyFiles DEF TypeOK, Steps, Keep, Goto, Refuse, SshdReload, ProveResults,
      vars, onDisk, locals
<1>1. ASSUME NEW t \in Gens, Start(t) PROVE TypeOK'
  <2>1. had' \in BOOLEAN
    BY <1>1 DEF Start, CanDispatch
  <2> QED
    BY <1>1, <2>1 DEF Start
<1>2. ASSUME NEW g \in Gens, Damage(g) PROVE TypeOK'
  BY <1>2 DEF Damage
<1>3. CASE InstallGeneration("install", "install_rename", "rule_next")
  BY <1>3 DEF InstallGeneration
<1>4. CASE RenameGeneration("install_rename", "rule_next")
  BY <1>4 DEF RenameGeneration
<1>5. CASE PlaceAcceptNext("accept_next", "check_next")
  BY <1>5 DEF PlaceAcceptNext
<1>6. CASE InstallGeneration("retire", "retire_rename", "retire_keys")
  BY <1>6 DEF InstallGeneration
<1>7. CASE RenameGeneration("retire_rename", "retire_keys")
  BY <1>7 DEF RenameGeneration
<1>8. CASE PlaceAcceptNext("again_accept", "again_check")
  BY <1>8 DEF PlaceAcceptNext
<1>9. CASE Reject
  BY <1>9 DEF Reject
<1>10. CASE WriteRuleNext
  BY <1>10 DEF WriteRuleNext
<1>11. CASE CheckAcceptNext
  BY <1>11 DEF CheckAcceptNext
<1>12. CASE ReloadNext
  BY <1>12 DEF ReloadNext
<1>13. CASE AddProofLine
  BY <1>13 DEF AddProofLine
<1>14. CASE ProveBeside
  BY <1>14 DEF ProveBeside
<1>15. CASE RemoveProofLine
  BY <1>15 DEF RemoveProofLine
<1>16. CASE EndProof
  BY <1>16 DEF EndProof
<1>17. CASE SwitchKeys
  BY <1>17 DEF SwitchKeys
<1>18. CASE ProveSwitch
  <2>1. pc' \in Steps /\ touched' \in BOOLEAN /\ reload' \in BOOLEAN
    BY <1>18 DEF ProveSwitch
  <2>2. UNCHANGED <<onDisk, loaded, tree, before, dropin, proven, had, verdict>>
    BY <1>18 DEF ProveSwitch
  <2> QED
    BY <2>1, <2>2
<1>19. CASE SwitchBack
  <2>1. keys' \in KeyFile /\ pc' \in Steps /\ verdict' \in {"none", "ok", "refused", "rejected"}
    BY <1>19 DEF SwitchBack
  <2>2. UNCHANGED <<dirs, sudoers, sudoersNext, acceptenv, acceptenvNext, link, keydir, loaded, locals>>
    BY <1>19 DEF SwitchBack
  <2> QED
    BY <2>1, <2>2
<1>20. CASE UndoDir
  BY <1>20 DEF UndoDir
<1>21. CASE UndoRule
  BY <1>21 DEF UndoRule
<1>22. CASE UndoAccept
  BY <1>22 DEF UndoAccept
<1>23. CASE UndoReload
  BY <1>23 DEF UndoReload
<1>24. CASE RetireKeys
  <2>1. keys' \in KeyFile
    BY <1>24 DEF RetireKeys
  <2>2. touched' \in BOOLEAN
    BY <1>24 DEF RetireKeys
  <2>3. pc' \in Steps /\ verdict' \in {"none", "ok", "refused", "rejected"}
    BY <1>24 DEF RetireKeys
  <2> QED
    BY <1>24, <2>1, <2>2, <2>3 DEF RetireKeys
<1>25. CASE RetireRule
  BY <1>25 DEF RetireRule
<1>26. CASE RetireAccept
  BY <1>26 DEF RetireAccept
<1>27. CASE RetireCheck
  BY <1>27 DEF RetireCheck
<1>28. CASE RetireRuleNext
  BY <1>28 DEF RetireRuleNext
<1>29. CASE RetireAcceptNext
  BY <1>29 DEF RetireAcceptNext
<1>30. CASE RetireReload
  BY <1>30 DEF RetireReload
<1>31. CASE RetireProve
  BY <1>31 DEF RetireProve
<1>32. CASE AgainRule
  BY <1>32 DEF AgainRule
<1>33. CASE AgainCheck
  BY <1>33 DEF AgainCheck
<1>34. CASE Link
  BY <1>34 DEF Link
<1>35. CASE Sweep
  BY <1>35 DEF Sweep
<1>36. CASE Crash
  BY <1>36 DEF Crash
<1>37. CASE SshdRestart
  BY <1>37 DEF SshdRestart
<1>38. CASE UNCHANGED vars
  BY <1>38
<1> QED
  BY <1>1, <1>2, <1>3, <1>4, <1>5, <1>6, <1>7, <1>8, <1>9, <1>10, <1>11, <1>12, <1>13, <1>14,
     <1>15, <1>16, <1>17, <1>18, <1>19, <1>20, <1>21, <1>22, <1>23, <1>24, <1>25, <1>26, <1>27,
     <1>28, <1>29, <1>30, <1>31, <1>32, <1>33, <1>34, <1>35, <1>36, <1>37, <1>38
  DEF Next, Program, Environment, Move, Undo, Retire

\* Every variable has its type in every reachable state.
THEOREM TypeCorrect == Spec => []TypeOK
<1>1. Init => TypeOK
  <2> SUFFICES ASSUME Init PROVE TypeOK
    OBVIOUS
  <2>1. PICK p \in {LEGACY, NONE} : /\ keys = [panel |-> p, proof |-> FALSE]
                                   /\ sudoers = p /\ acceptenv = p /\ link = p
                                   /\ loaded = Names[p]
    BY DEF Init
  <2>2. had \in BOOLEAN
    BY DEF Init, CanDispatch
  <2> QED
    BY <2>1, <2>2, PathFacts DEF Init, TypeOK, KeyFile, Steps
<1> QED
  BY <1>1, TypeStep, PTL DEF Spec

-----------------------------------------------------------------------------
\* Every step keeps the rest of the invariant when an unfinished switch is
\* finished before another tree is moved to.
LEMMA PathStep ==
  ASSUME ~AnyTree, IInv, [Next]_vars
  PROVE  PathInv'
<1> USE PathsDistinct, SoundAreGens, NamesOfPaths, TypeStep
    DEF IInv, PathInv, TypeOK, KeyFile, Paths, Steps, Keep, Goto, Refuse, SshdReload, ProveResults,
        PanelLine, Ready, RunningRules, WayBack, NewPath, RetireOrder, HadDirs,
        Beside, Undoing, Switched, Moving, Retiring, WithDir, WithRule, WithDropin, WithNames,
        vars, onDisk, locals
<1>1. ASSUME NEW t \in Gens, Start(t) PROVE PathInv'
  BY <1>1 DEF Start, CanDispatch, Answers, Settled, Accepted
<1>2. ASSUME NEW g \in Gens, Damage(g) PROVE PathInv'
  <2>1. had' => had /\ g # keys.panel
    BY <1>2 DEF Damage
  <2>2. pc' = "idle" /\ \A h \in Gens \ {g} : dirs'[h] = dirs[h]
    BY <1>2 DEF Damage
  <2>3. UNCHANGED <<keys, sudoers, sudoersNext, acceptenv, acceptenvNext, link, loaded>>
    BY <1>2 DEF Damage
  <2> QED
    BY <2>1, <2>2, <2>3
<1>3. CASE InstallGeneration("install", "install_rename", "rule_next")
  BY <1>3 DEF InstallGeneration
<1>4. CASE RenameGeneration("install_rename", "rule_next")
  BY <1>4 DEF RenameGeneration
<1>5. CASE PlaceAcceptNext("accept_next", "check_next")
  BY <1>5 DEF PlaceAcceptNext
<1>6. CASE InstallGeneration("retire", "retire_rename", "retire_keys")
  BY <1>6 DEF InstallGeneration
<1>7. CASE RenameGeneration("retire_rename", "retire_keys")
  BY <1>7 DEF RenameGeneration
<1>8. CASE PlaceAcceptNext("again_accept", "again_check")
  BY <1>8 DEF PlaceAcceptNext
<1>9. CASE Reject
  BY <1>9 DEF Reject
<1>10. CASE WriteRuleNext
  BY <1>10 DEF WriteRuleNext
<1>11. CASE CheckAcceptNext
  BY <1>11 DEF CheckAcceptNext
<1>12. CASE ReloadNext
  BY <1>12 DEF ReloadNext, Accepted
<1>13. CASE AddProofLine
  BY <1>13 DEF AddProofLine
<1>14. CASE ProveBeside
  BY <1>14 DEF ProveBeside, Answers
<1>15. CASE RemoveProofLine
  BY <1>15 DEF RemoveProofLine
<1>16. CASE EndProof
  BY <1>16 DEF EndProof
<1>17. CASE SwitchKeys
  <2>1. CASE keys' = [panel |-> tree, proof |-> FALSE] /\ Keep("prove_switch")
    <3>1. keys'.panel = tree /\ pc' = "prove_switch"
      BY <2>1
    <3>2. UNCHANGED <<dirs, sudoers, sudoersNext, acceptenv, acceptenvNext, link, loaded,
                      tree, before, had>>
      BY <1>17, <2>1 DEF SwitchKeys
    <3>3. keys.panel = before.panel /\ before.panel # tree /\ tree \in Sound
      BY <1>17 DEF SwitchKeys
    <3>4. PanelLine' /\ RunningRules' /\ RetireOrder'
      BY <1>17, <3>1, <3>2, <3>3 DEF SwitchKeys
    <3>5. WayBack' /\ NewPath'
      BY <1>17, <3>1, <3>2, <3>3 DEF SwitchKeys
    <3>6. HadDirs'
      BY <1>17, <3>1, <3>2, <3>3 DEF SwitchKeys
    <3> QED
      BY <3>4, <3>5, <3>6
  <2>2. CASE UNCHANGED keys /\ Keep("undo_dir")
    BY <1>17, <2>2 DEF SwitchKeys
  <2> QED
    BY <1>17, <2>1, <2>2 DEF SwitchKeys
<1>18. CASE ProveSwitch
  BY <1>18 DEF ProveSwitch, Answers
<1>19. CASE SwitchBack
  BY <1>19 DEF SwitchBack
<1>20. CASE UndoDir
  BY <1>20 DEF UndoDir
<1>21. CASE UndoRule
  BY <1>21 DEF UndoRule
<1>22. CASE UndoAccept
  BY <1>22 DEF UndoAccept
<1>23. CASE UndoReload
  BY <1>23 DEF UndoReload, Accepted
<1>24. CASE RetireKeys
  BY <1>24 DEF RetireKeys
<1>25. CASE RetireRule
  BY <1>25 DEF RetireRule
<1>26. CASE RetireAccept
  BY <1>26 DEF RetireAccept
<1>27. CASE RetireCheck
  BY <1>27 DEF RetireCheck
<1>28. CASE RetireRuleNext
  BY <1>28 DEF RetireRuleNext
<1>29. CASE RetireAcceptNext
  BY <1>29 DEF RetireAcceptNext
<1>30. CASE RetireReload
  BY <1>30 DEF RetireReload, Accepted
<1>31. CASE RetireProve
  BY <1>31 DEF RetireProve
<1>32. CASE AgainRule
  BY <1>32 DEF AgainRule
<1>33. CASE AgainCheck
  BY <1>33 DEF AgainCheck, Accepted
<1>34. CASE Link
  BY <1>34 DEF Link
<1>35. CASE Sweep
  BY <1>35 DEF Sweep
<1>36. CASE Crash
  BY <1>36 DEF Crash
<1>37. CASE SshdRestart
  BY <1>37 DEF SshdRestart, Accepted
<1>38. CASE UNCHANGED vars
  BY <1>38
<1> QED
  BY <1>1, <1>2, <1>3, <1>4, <1>5, <1>6, <1>7, <1>8, <1>9, <1>10, <1>11, <1>12, <1>13,
     <1>14, <1>15, <1>16, <1>17, <1>18, <1>19, <1>20, <1>21, <1>22, <1>23, <1>24,
     <1>25, <1>26, <1>27, <1>28, <1>29, <1>30, <1>31, <1>32, <1>33, <1>34, <1>35,
     <1>36, <1>37, <1>38
  DEF Next, Program, Environment, Move, Undo, Retire

\* The invariant holds of every reachable state.
THEOREM PathInvariant ==
  ASSUME ~AnyTree
  PROVE  Spec => []IInv
<1>1. Init => PathInv
  <2> SUFFICES ASSUME Init PROVE PathInv
    OBVIOUS
  <2>1. PICK p \in {LEGACY, NONE} : /\ keys = [panel |-> p, proof |-> FALSE]
                                   /\ sudoers = p /\ acceptenv = p /\ link = p
                                   /\ loaded = Names[p]
    BY DEF Init
  <2>2. pc = "idle" /\ keys.panel = p
    BY <2>1 DEF Init
  <2>3. had => p # NONE
    BY <2>2 DEF Init, CanDispatch
  <2> QED
    BY <2>1, <2>2, <2>3, PathsDistinct
    DEF PathInv, PanelLine, Ready, RunningRules, WayBack, NewPath, RetireOrder, HadDirs,
        Beside, Undoing, Switched, Moving, Retiring, WithDir, WithRule, WithDropin, WithNames
<1>2. IInv /\ [Next]_vars => PathInv'
  BY PathStep
<1> QED
  BY <1>1, <1>2, TypeCorrect, PTL DEF Spec, IInv

\* A path that worked when a run began works at every step of the run, after its
\* refusal and after a crash at any of its steps, for any number of generations
\* and runs, as long as an unfinished switch is finished first.
THEOREM PanelKeepsAPath ==
  ASSUME ~AnyTree
  PROVE  Spec => []KeepsAPath
<1>1. IInv => KeepsAPath
  BY PathsDistinct, SoundAreGens, NamesOfPaths
  DEF IInv, PathInv, TypeOK, KeyFile, Paths, RunningRules, Ready, HadDirs,
      KeepsAPath, CanDispatch, Answers, Kept
<1> QED
  BY <1>1, PathInvariant, PTL

-----------------------------------------------------------------------------
\* How a run ends.  None of this asks that an unfinished switch comes first.

\* RETIRE's order: what each of its steps finds done by the ones before it.
InPlace == {"retire_keys", "retire_rule", "retire_accept", "retire_check", "retire_rule_next",
            "retire_accept_next", "retire_reload", "retire_prove", "again_rule", "again_accept",
            "again_check", "link", "sweep"}
Proving == {"retire_reload", "retire_prove", "link", "sweep"}
Retired ==
    /\ pc \in InPlace => dirs[tree] = "intact"
    /\ pc \in InPlace \ {"retire_keys"} => keys = [panel |-> tree, proof |-> FALSE]
    /\ pc \in InPlace \ {"retire_keys", "retire_rule"} => sudoers = tree
    /\ pc \in InPlace \ {"retire_keys", "retire_rule", "retire_accept"} => acceptenv = tree
    /\ pc \in Proving \cup {"retire_accept_next"} => sudoersNext = NONE
    /\ pc \in Proving => acceptenvNext = NONE
    /\ pc = "sweep" => link = tree

\* The undo's order.
Undone ==
    /\ pc \in Undoing \ {"undo_dir"} => dirs[tree] = "absent"
    /\ pc \in {"undo_accept", "undo_reload"} => sudoersNext = NONE
    /\ pc = "undo_reload" => acceptenvNext = NONE

\* A verdict is of a run that ended, and stands until the next begins.
Ended == verdict \in {"ok", "refused"} => pc = "idle"

EndInv == PanelLine /\ Retired /\ Undone /\ Ended /\ OkMeansThisTreeAlone /\ RefusedLeavesNothing

\* Every step keeps it.
LEMMA EndStep ==
  ASSUME TypeOK, EndInv, [Next]_vars
  PROVE  EndInv'
<1> USE PathsDistinct
    DEF EndInv, TypeOK, KeyFile, Paths, Steps, Keep, Goto, Refuse, SshdReload,
        PanelLine, Retired, Undone, Ended, OkMeansThisTreeAlone, RefusedLeavesNothing,
        InPlace, Proving, Beside, Undoing, Switched, Moving, Retiring, vars, onDisk, locals
<1>1. ASSUME NEW t \in Gens, Start(t) PROVE EndInv'
  BY <1>1 DEF Start
<1>2. ASSUME NEW g \in Gens, Damage(g) PROVE EndInv'
  BY <1>2 DEF Damage
<1>3. CASE InstallGeneration("install", "install_rename", "rule_next")
  BY <1>3 DEF InstallGeneration
<1>4. CASE RenameGeneration("install_rename", "rule_next")
  BY <1>4 DEF RenameGeneration
<1>5. CASE PlaceAcceptNext("accept_next", "check_next")
  BY <1>5 DEF PlaceAcceptNext
<1>6. CASE InstallGeneration("retire", "retire_rename", "retire_keys")
  BY <1>6 DEF InstallGeneration
<1>7. CASE RenameGeneration("retire_rename", "retire_keys")
  BY <1>7 DEF RenameGeneration
<1>8. CASE PlaceAcceptNext("again_accept", "again_check")
  BY <1>8 DEF PlaceAcceptNext
<1>9. CASE Reject
  BY <1>9 DEF Reject
<1>10. CASE WriteRuleNext
  BY <1>10 DEF WriteRuleNext
<1>11. CASE CheckAcceptNext
  BY <1>11 DEF CheckAcceptNext
<1>12. CASE ReloadNext
  BY <1>12 DEF ReloadNext
<1>13. CASE AddProofLine
  BY <1>13 DEF AddProofLine
<1>14. CASE ProveBeside
  BY <1>14 DEF ProveBeside
<1>15. CASE RemoveProofLine
  BY <1>15 DEF RemoveProofLine
<1>16. CASE EndProof
  BY <1>16 DEF EndProof
<1>17. CASE SwitchKeys
  BY <1>17 DEF SwitchKeys
<1>18. CASE ProveSwitch
  BY <1>18 DEF ProveSwitch
<1>19. CASE SwitchBack
  BY <1>19 DEF SwitchBack
<1>20. CASE UndoDir
  BY <1>20 DEF UndoDir
<1>21. CASE UndoRule
  BY <1>21 DEF UndoRule
<1>22. CASE UndoAccept
  BY <1>22 DEF UndoAccept
<1>23. CASE UndoReload
  BY <1>23 DEF UndoReload
<1>24. CASE RetireKeys
  BY <1>24 DEF RetireKeys
<1>25. CASE RetireRule
  BY <1>25 DEF RetireRule
<1>26. CASE RetireAccept
  BY <1>26 DEF RetireAccept
<1>27. CASE RetireCheck
  BY <1>27 DEF RetireCheck
<1>28. CASE RetireRuleNext
  BY <1>28 DEF RetireRuleNext
<1>29. CASE RetireAcceptNext
  BY <1>29 DEF RetireAcceptNext
<1>30. CASE RetireReload
  BY <1>30 DEF RetireReload
<1>31. CASE RetireProve
  BY <1>31 DEF RetireProve
<1>32. CASE AgainRule
  BY <1>32 DEF AgainRule
<1>33. CASE AgainCheck
  BY <1>33 DEF AgainCheck
<1>34. CASE Link
  BY <1>34 DEF Link
<1>35. CASE Sweep
  BY <1>35 DEF Sweep
<1>36. CASE Crash
  BY <1>36 DEF Crash
<1>37. CASE SshdRestart
  BY <1>37 DEF SshdRestart
<1>38. CASE UNCHANGED vars
  BY <1>38
<1> QED
  BY <1>1, <1>2, <1>3, <1>4, <1>5, <1>6, <1>7, <1>8, <1>9, <1>10, <1>11, <1>12, <1>13, <1>14, <1>15,
     <1>16, <1>17, <1>18, <1>19, <1>20, <1>21, <1>22, <1>23, <1>24, <1>25, <1>26, <1>27, <1>28,
     <1>29, <1>30, <1>31, <1>32, <1>33, <1>34, <1>35, <1>36, <1>37, <1>38
  DEF Next, Program, Environment, Move, Undo, Retire

\* The invariant of a run's end holds of every reachable state.
THEOREM EndInvariant == Spec => [](TypeOK /\ EndInv)
<1>1. Init => EndInv
  <2> SUFFICES ASSUME Init PROVE EndInv
    OBVIOUS
  <2>1. pc = "idle" /\ verdict = "none"
    BY DEF Init
  <2> QED
    BY <2>1 DEF EndInv, PanelLine, Retired, Undone, Ended, OkMeansThisTreeAlone, RefusedLeavesNothing,
                InPlace, Proving, Beside, Undoing, Switched, Moving, Retiring
<1>2. TypeOK /\ EndInv /\ [Next]_vars => EndInv'
  BY EndStep
<1> QED
  BY <1>1, <1>2, TypeCorrect, PTL DEF Spec

\* A run that says "ok" leaves one path, this tree's: one line, its rules in the
\* main files, no other generation and no proof key, whatever any number of runs
\* of any trees left half done before it.
THEOREM OkIsThisTreeAlone == Spec => []OkMeansThisTreeAlone
<1>1. EndInv => OkMeansThisTreeAlone
  BY DEF EndInv
<1> QED
  BY <1>1, EndInvariant, PTL

\* A run that is refused while the panel is on another path took back all it, or
\* a run cut short before it, had put beside that path.
THEOREM RefusalLeavesNothing == Spec => []RefusedLeavesNothing
<1>1. EndInv => RefusedLeavesNothing
  BY DEF EndInv
<1> QED
  BY <1>1, EndInvariant, PTL

\* "ok" is said of a path that answers, also by a run that had nothing to do and
\* so proved nothing, as long as an unfinished switch is finished first.
THEOREM OkIsAnswered ==
  ASSUME ~AnyTree
  PROVE  Spec => []OkAnswers
<1>1. IInv /\ EndInv => OkAnswers
  <2> SUFFICES ASSUME IInv, EndInv, verdict = "ok", dirs[tree] = "intact" PROVE CanDispatch
    BY DEF OkAnswers
  <2>1. keys.panel = tree /\ sudoers = tree /\ tree \in Gens /\ tree # NONE /\ tree # LEGACY
    BY PathsDistinct DEF EndInv, OkMeansThisTreeAlone, IInv, TypeOK
  <2>2. tree \in Sound /\ Names[tree] \subseteq loaded
    BY <2>1 DEF IInv, PathInv, RunningRules, Ready
  <2> QED
    BY <2>1, <2>2 DEF CanDispatch, Answers, Kept
<1> QED
  BY <1>1, PathInvariant, EndInvariant, PTL

-----------------------------------------------------------------------------
\* What walk_inbound reports, beside what the kernel does, for any ruleset.

\* A set of numbers that is not empty has a least one.
LEMMA LeastNat ==
  ASSUME NEW T \in SUBSET Nat, T # {}
  PROVE  \E x \in T : \A y \in T : x <= y
<1>1. IsWellFoundedOn(OpToRel(<,Nat), Nat)
  BY NatLessThanWellFounded, Zenon
<1>2. PICK x \in T : \A y \in T : <<y, x>> \notin OpToRel(<,Nat)
  BY <1>1, WFMin, Zenon
<1>3. \A y \in T : ~(y < x)
  BY <1>2 DEF OpToRel
<1> QED
  BY <1>3

\* Induction, for a set of numbers.
LEMMA SetInduction ==
  ASSUME NEW S, 0 \in S, \A n \in Nat : n \in S => n + 1 \in S
  PROVE  Nat \subseteq S
<1> DEFINE T == {n \in Nat : n \notin S}
<1> SUFFICES ASSUME T # {} PROVE FALSE
  OBVIOUS
<1>1. PICK x \in T : \A y \in T : x <= y
  BY LeastNat
<1>2. x # 0 /\ x - 1 \in Nat /\ x - 1 \notin T /\ (x - 1) + 1 = x
  BY <1>1
<1> QED
  BY <1>1, <1>2

\* The equation f = F[f] over D descends along rank.
Descends(F, D, V, rank) ==
    /\ rank \in [D -> Nat] /\ \E N \in Nat : \A x \in D : rank[x] < N
    /\ \E v : v \in V
    /\ F \in [[D -> V] -> [D -> V]]
    /\ \A f, g \in [D -> V], x \in D :
          (\A y \in D : rank[y] < rank[x] => f[y] = g[y]) => F[f][x] = F[g][x]
Solved(F, D, V) == \E f \in [D -> V] : f = F[f]

\* An equation that asks of every place only what stands at places of a
\* smaller rank has a solution: the recursive functions of the walks are defined.
LEMMA Recursion ==
  ASSUME NEW F, NEW D, NEW V, NEW rank, Descends(F, D, V, rank)
  PROVE  Solved(F, D, V)
<1> USE DEF Descends
<1>p. PICK N \in Nat : \A x \in D : rank[x] < N
  OBVIOUS
<1>v. PICK v : v \in V
  OBVIOUS
<1> DEFINE Upto(f, n) == \A x \in D : rank[x] < n => f[x] = F[f][x]
           S == {n \in Nat : \E f \in [D -> V] : Upto(f, n)}
<1>1. 0 \in S
  <2>1. [x \in D |-> v] \in [D -> V] /\ Upto([x \in D |-> v], 0)
    BY <1>v
  <2> QED
    BY <2>1
<1>2. ASSUME NEW n \in Nat, n \in S PROVE n + 1 \in S
  <2>1. PICK f \in [D -> V] : Upto(f, n)
    BY <1>2
  <2>2. F[f] \in [D -> V]
    OBVIOUS
  <2>3. ASSUME NEW x \in D, rank[x] < n + 1 PROVE F[f][x] = F[F[f]][x]
    <3>1. \A y \in D : rank[y] < rank[x] => f[y] = F[f][y]
      BY <2>1, <2>3
    <3> QED
      BY <2>2, <3>1
  <2>4. Upto(F[f], n + 1)
    BY <2>3
  <2> QED
    BY <2>2, <2>4
<1> HIDE DEF S
<1>3. N \in S
  BY <1>1, <1>2, SetInduction
<1>4. PICK f \in [D -> V] : Upto(f, N)
  BY <1>3 DEF S
<1>5. \A x \in D : f[x] = F[f][x]
  BY <1>p, <1>4
<1>6. F[f] \in [D -> V]
  OBVIOUS
<1>7. f = F[f]
  BY <1>5, <1>6
<1> QED
  BY <1>7 DEF Solved

\* The places below one depth, counted.
Span(x) == x * (MaxRules + 1)

\* It grows with the depth.
LEMMA SpanFacts ==
  /\ \A x \in Nat : Span(x) \in Nat /\ Span(x + 1) = Span(x) + (MaxRules + 1)
  /\ \A x, y \in Nat : x <= y => Span(x) <= Span(y)
<1>1. MaxRules + 1 \in Nat
  BY ReachabilityAssumption
<1> QED
  BY <1>1 DEF Span

\* How much of the walk is ahead of a place.
Measure(d, i) == Span((MaxDepth + 1) - d) + ((MaxRules + 1) - i)
Rank(set) == [at \in Places(set) |-> Measure(at[1], at[3])]

\* The next rule of a chain, and the first of a chain one deeper, rank lower.
LEMMA PlaceFacts ==
  ASSUME NEW set
  PROVE  /\ Rank(set) \in [Places(set) -> Nat]
         /\ \E N \in Nat : \A at \in Places(set) : Rank(set)[at] < N
         /\ \A d \in 0..MaxDepth + 1, c \in DOMAIN set.rules, i \in 1..MaxRules + 1 :
               <<d, c, i>> \in Places(set)
         /\ \A at \in Places(set) : \E d \in 0..MaxDepth + 1, c \in DOMAIN set.rules, i \in 1..MaxRules + 1 :
               at = <<d, c, i>>
         /\ \A d \in 0..MaxDepth + 1, c \in DOMAIN set.rules, i \in 1..MaxRules :
               Rank(set)[<<d, c, i + 1>>] < Rank(set)[<<d, c, i>>]
         /\ \A d \in 0..MaxDepth, c, e \in DOMAIN set.rules, i \in 1..MaxRules :
               Rank(set)[<<d + 1, e, 1>>] < Rank(set)[<<d, c, i>>]
<1> DEFINE D == MaxDepth + 1
<1>1. D \in Nat /\ MaxRules \in Nat
  BY ReachabilityAssumption
<1>2. \A d \in 0..D, c \in DOMAIN set.rules, i \in 1..MaxRules + 1 :
         <<d, c, i>> \in Places(set) /\ Rank(set)[<<d, c, i>>] = Measure(d, i)
  <2> TAKE d \in 0..D, c \in DOMAIN set.rules, i \in 1..MaxRules + 1
  <2>1. <<d, c, i>> \in Places(set)
    BY DEF Places
  <2>2. \A at \in Places(set) : Rank(set)[at] = Measure(at[1], at[3])
    BY DEF Rank
  <2>3. PICK at : at = <<d, c, i>>
    OBVIOUS
  <2>4. at[1] = d /\ at[3] = i
    BY <2>3
  <2> QED
    BY <2>1, <2>2, <2>3, <2>4
<1>3. \A at \in Places(set) : \E d \in 0..D, c \in DOMAIN set.rules, i \in 1..MaxRules + 1 :
         at = <<d, c, i>>
  BY DEF Places
<1>0. Span(D) \in Nat
  BY <1>1, SpanFacts, Zenon
<1>4. \A d \in 0..D, i \in 1..MaxRules + 1 : Measure(d, i) \in Nat /\ Measure(d, i) < Span(D) + MaxRules + 1
  <2> TAKE d \in 0..D, i \in 1..MaxRules + 1
  <2>1. D - d \in Nat /\ D - d <= D
    BY <1>1
  <2>2. Span(D - d) \in Nat /\ Span(D - d) <= Span(D)
    BY <1>1, <2>1, SpanFacts, Zenon
  <2>3. Measure(d, i) = Span(D - d) + ((MaxRules + 1) - i)
    BY Zenon DEF Measure
  <2> QED
    BY <1>0, <1>1, <2>2, <2>3
<1>5. \A d \in 0..D, i \in 1..MaxRules : Measure(d, i + 1) < Measure(d, i)
  <2> TAKE d \in 0..D, i \in 1..MaxRules
  <2>1. D - d \in Nat
    BY <1>1
  <2>2. Span(D - d) \in Nat
    BY <2>1, SpanFacts, Zenon
  <2>3. /\ Measure(d, i) = Span(D - d) + ((MaxRules + 1) - i)
        /\ Measure(d, i + 1) = Span(D - d) + ((MaxRules + 1) - (i + 1))
    BY Zenon DEF Measure
  <2> QED
    BY <1>1, <2>2, <2>3
<1>6. \A d \in 0..MaxDepth, i \in 1..MaxRules : Measure(d + 1, 1) < Measure(d, i)
  <2> TAKE d \in 0..MaxDepth, i \in 1..MaxRules
  <2>1. D - (d + 1) \in Nat /\ D - d = (D - (d + 1)) + 1
    BY <1>1, ReachabilityAssumption
  <2>2. Span(D - d) = Span(D - (d + 1)) + (MaxRules + 1) /\ Span(D - (d + 1)) \in Nat
    BY <2>1, SpanFacts
  <2>3. /\ Measure(d, i) = Span(D - d) + ((MaxRules + 1) - i)
        /\ Measure(d + 1, 1) = Span(D - (d + 1)) + ((MaxRules + 1) - 1)
    BY Zenon DEF Measure
  <2> QED
    BY <1>1, <2>2, <2>3
<1>7. Span(D) + MaxRules + 1 \in Nat
  BY <1>0, <1>1
<1>8. DOMAIN Rank(set) = Places(set) /\ Rank(set) = [at \in Places(set) |-> Rank(set)[at]]
  BY DEF Rank
<1>9. \A at \in Places(set) : Rank(set)[at] \in Nat /\ Rank(set)[at] < Span(D) + MaxRules + 1
  BY <1>2, <1>3, <1>4
<1>10. Rank(set) \in [Places(set) -> Nat]
  BY <1>8, <1>9
<1>11. \A d \in 0..D, i \in 1..MaxRules : i \in 1..MaxRules + 1 /\ i + 1 \in 1..MaxRules + 1
  BY <1>1
<1>12. \A d \in 0..MaxDepth : d \in 0..D /\ d + 1 \in 0..D /\ 1 \in 1..MaxRules + 1
  BY ReachabilityAssumption
<1> QED
  BY <1>2, <1>3, <1>5, <1>6, <1>7, <1>9, <1>10, <1>11, <1>12

\* The equation f = F[f] over the places of a ruleset looks only ahead.
LooksAhead(F, set, V) ==
    /\ \E v : v \in V
    /\ F \in [[Places(set) -> V] -> [Places(set) -> V]]
    /\ \A f, g \in [Places(set) -> V] :
       \A d \in 0..MaxDepth + 1, c \in DOMAIN set.rules, i \in 1..MaxRules + 1 :
          (/\ ~(i > Len(set.rules[c])) => f[<<d, c, i + 1>>] = g[<<d, c, i + 1>>]
           /\ ~(i > Len(set.rules[c])) /\ d <= MaxDepth =>
                 \A e \in DOMAIN set.rules : f[<<d + 1, e, 1>>] = g[<<d + 1, e, 1>>])
          => F[f][<<d, c, i>>] = F[g][<<d, c, i>>]

\* An equation that looks only at the next rule and at deeper chains is solved.
LEMMA PlaceRecursion ==
  ASSUME NEW set, IsRuleset(set), NEW V, NEW F, LooksAhead(F, set, V)
  PROVE  Solved(F, Places(set), V)
<1> DEFINE P == Places(set)
           R == Rank(set)
<1>1. ASSUME NEW f \in [P -> V], NEW g \in [P -> V], NEW at \in P,
             \A y \in P : R[y] < R[at] => f[y] = g[y]
      PROVE  F[f][at] = F[g][at]
  <2>1. PICK d \in 0..MaxDepth + 1, c \in DOMAIN set.rules, i \in 1..MaxRules + 1 : at = <<d, c, i>>
    BY PlaceFacts
  <2>2. ASSUME ~(i > Len(set.rules[c])) PROVE f[<<d, c, i + 1>>] = g[<<d, c, i + 1>>]
    <3>1. i \in 1..MaxRules /\ i + 1 \in 1..MaxRules + 1
      BY <2>2, ReachabilityAssumption DEF IsRuleset
    <3>2. <<d, c, i + 1>> \in P /\ R[<<d, c, i + 1>>] < R[<<d, c, i>>]
      BY <3>1, PlaceFacts
    <3> QED
      BY <1>1, <2>1, <3>2
  <2>3. ASSUME ~(i > Len(set.rules[c])), d <= MaxDepth, NEW e \in DOMAIN set.rules
        PROVE  f[<<d + 1, e, 1>>] = g[<<d + 1, e, 1>>]
    <3>1. i \in 1..MaxRules /\ 1 \in 1..MaxRules + 1 /\ d \in 0..MaxDepth /\ d + 1 \in 0..MaxDepth + 1
      BY <2>3, ReachabilityAssumption DEF IsRuleset
    <3>2. <<d + 1, e, 1>> \in P /\ R[<<d + 1, e, 1>>] < R[<<d, c, i>>]
      BY <3>1, PlaceFacts
    <3> QED
      BY <1>1, <2>1, <3>2
  <2> QED
    BY <2>1, <2>2, <2>3 DEF LooksAhead
<1>2. R \in [P -> Nat] /\ \E N \in Nat : \A at \in P : R[at] < N
  BY PlaceFacts
<1>3. Descends(F, P, V, R)
  BY <1>1, <1>2 DEF Descends, LooksAhead
<1> QED
  BY <1>3, Recursion

\* What a chain can give, and the verdicts.
Outcomes == [verdict : {"ACCEPT", "DROP", "RETURN"}, told : BOOLEAN]
Ends == {"ACCEPT", "DROP", "RETURN"}

\* What rule_matches can say.
LEMMA MatchType == \A r, own : RuleMatches(r, own) \in {"yes", "no", "unknown"}
  BY DEF RuleMatches

\* walk_inbound's chain is, at every place, what its rule gives.
LEMMA ChainEquation ==
  ASSUME NEW set, NEW own, IsRuleset(set)
  PROVE  \A at \in Places(set) : Chain(set, own)[at] = ChainFrom(set, own, Chain(set, own), at)
<1> DEFINE P == Places(set)
           F == [f \in [P -> Outcomes] |-> [at \in P |-> ChainFrom(set, own, f, at)]]
<1>1. ASSUME NEW f \in [P -> Outcomes], NEW at \in P PROVE ChainFrom(set, own, f, at) \in Outcomes
  <2>1. PICK d \in 0..MaxDepth + 1, c \in DOMAIN set.rules, i \in 1..MaxRules + 1 : at = <<d, c, i>>
    BY PlaceFacts
  <2>2. CASE i > Len(set.rules[c])
    BY <2>1, <2>2 DEF ChainFrom, Outcomes
  <2>3. CASE ~(i > Len(set.rules[c]))
    <3> DEFINE r == set.rules[c][i]
               rest == f[<<d, c, i + 1>>]
               inner == f[<<d + 1, r.target, 1>>]
    <3>1. rest \in Outcomes
      <4>1. i + 1 \in 1..MaxRules + 1
        BY <2>3, ReachabilityAssumption DEF IsRuleset
      <4> QED
        BY <4>1, PlaceFacts
    <3>2. r.target \in DOMAIN set.rules /\ ~(d > MaxDepth) => inner \in Outcomes
      <4>1. 1 \in 1..MaxRules + 1 /\ (~(d > MaxDepth) => d + 1 \in 0..MaxDepth + 1)
        BY ReachabilityAssumption
      <4> QED
        BY <4>1, PlaceFacts
    <3>3. ChainFrom(set, own, f, at)
            = RuleGives(r, RuleMatches(r, own), DOMAIN set.rules, d > MaxDepth, rest, inner)
      BY <2>1, <2>3 DEF ChainFrom
    <3> HIDE DEF r, rest, inner
    <3>4. RuleGives(r, RuleMatches(r, own), DOMAIN set.rules, d > MaxDepth, rest, inner) \in Outcomes
      BY <3>1, <3>2 DEF RuleGives, Outcomes
    <3> QED
      BY <3>3, <3>4
  <2> QED
    BY <2>2, <2>3
<1>2. ASSUME NEW f \in [P -> Outcomes], NEW g \in [P -> Outcomes], 
             NEW d \in 0..MaxDepth + 1, NEW c \in DOMAIN set.rules, NEW i \in 1..MaxRules + 1,
             ~(i > Len(set.rules[c])) => f[<<d, c, i + 1>>] = g[<<d, c, i + 1>>],
             ~(i > Len(set.rules[c])) /\ d <= MaxDepth =>
                   \A e \in DOMAIN set.rules : f[<<d + 1, e, 1>>] = g[<<d + 1, e, 1>>]
      PROVE  F[f][<<d, c, i>>] = F[g][<<d, c, i>>]
  <2>1. <<d, c, i>> \in P
    BY PlaceFacts
  <2>2. SUFFICES ChainFrom(set, own, f, <<d, c, i>>) = ChainFrom(set, own, g, <<d, c, i>>)
    BY <2>1
  <2>3. CASE i > Len(set.rules[c])
    BY <2>3 DEF ChainFrom
  <2>4. CASE ~(i > Len(set.rules[c]))
    <3> DEFINE r == set.rules[c][i]
               Gives(rest, inner) ==
                   RuleGives(r, RuleMatches(r, own), DOMAIN set.rules, d > MaxDepth, rest, inner)
    <3>1. /\ ChainFrom(set, own, f, <<d, c, i>>) = Gives(f[<<d, c, i + 1>>], f[<<d + 1, r.target, 1>>])
          /\ ChainFrom(set, own, g, <<d, c, i>>) = Gives(g[<<d, c, i + 1>>], g[<<d + 1, r.target, 1>>])
      BY <2>4 DEF ChainFrom
    <3>2. f[<<d, c, i + 1>>] = g[<<d, c, i + 1>>]
      BY <1>2, <2>4
    <3>3. CASE r.target \in DOMAIN set.rules /\ d <= MaxDepth
      <4>1. f[<<d + 1, r.target, 1>>] = g[<<d + 1, r.target, 1>>]
        BY <1>2, <2>4, <3>3
      <4> QED
        BY <3>1, <3>2, <4>1
    <3>4. CASE ~(r.target \in DOMAIN set.rules) \/ d > MaxDepth
      <4>1. \A rest, x, y : Gives(rest, x) = Gives(rest, y)
        BY <3>4 DEF RuleGives
      <4> QED
        BY <3>1, <3>2, <4>1
    <3> QED
      BY <3>3, <3>4, ReachabilityAssumption
  <2> QED
    BY <2>3, <2>4
<1>3. F \in [[P -> Outcomes] -> [P -> Outcomes]]
  BY <1>1
<1>4. [verdict |-> "DROP", told |-> TRUE] \in Outcomes
  BY DEF Outcomes
<1>5. LooksAhead(F, set, Outcomes)
  <2> HIDE DEF F
  <2>1. \A f, g \in [P -> Outcomes] :
        \A d \in 0..MaxDepth + 1, c \in DOMAIN set.rules, i \in 1..MaxRules + 1 :
           (/\ ~(i > Len(set.rules[c])) => f[<<d, c, i + 1>>] = g[<<d, c, i + 1>>]
            /\ ~(i > Len(set.rules[c])) /\ d <= MaxDepth =>
                  \A e \in DOMAIN set.rules : f[<<d + 1, e, 1>>] = g[<<d + 1, e, 1>>])
           => F[f][<<d, c, i>>] = F[g][<<d, c, i>>]
    BY <1>2
  <2> QED
    BY <1>3, <1>4, <2>1, Zenon DEF LooksAhead
<1>6. PICK f \in [P -> Outcomes] : f = [at \in P |-> ChainFrom(set, own, f, at)]
  <2>1. Solved(F, P, Outcomes)
    BY <1>5, PlaceRecursion
  <2> QED
    BY <2>1 DEF Solved
<1>7. Chain(set, own) = [at \in P |-> ChainFrom(set, own, Chain(set, own), at)]
  BY <1>6 DEF Chain
<1>8. \A h : h = [at \in P |-> ChainFrom(set, own, h, at)]
         => \A at \in P : h[at] = ChainFrom(set, own, h, at)
  OBVIOUS
<1> QED
  BY <1>7, <1>8

\* So is what the kernel does.
LEMMA KernelEquation ==
  ASSUME NEW set, NEW own, NEW maybe, IsRuleset(set)
  PROVE  \A at \in Places(set) :
            KernelChain(set, own, maybe)[at] = KernelFrom(set, own, maybe, KernelChain(set, own, maybe), at)
<1> DEFINE P == Places(set)
           F == [f \in [P -> Ends] |-> [at \in P |-> KernelFrom(set, own, maybe, f, at)]]
<1>1. ASSUME NEW f \in [P -> Ends], NEW at \in P PROVE KernelFrom(set, own, maybe, f, at) \in Ends
  <2>1. PICK d \in 0..MaxDepth + 1, c \in DOMAIN set.rules, i \in 1..MaxRules + 1 : at = <<d, c, i>>
    BY PlaceFacts
  <2>2. CASE i > Len(set.rules[c])
    BY <2>1, <2>2 DEF KernelFrom, Ends
  <2>3. CASE ~(i > Len(set.rules[c]))
    <3> DEFINE r == set.rules[c][i]
               rest == f[<<d, c, i + 1>>]
               inner == f[<<d + 1, r.target, 1>>]
    <3>1. rest \in Ends
      <4>1. i + 1 \in 1..MaxRules + 1
        BY <2>3, ReachabilityAssumption DEF IsRuleset
      <4> QED
        BY <4>1, PlaceFacts
    <3>2. r.target \in DOMAIN set.rules /\ ~(d > MaxDepth) => inner \in Ends
      <4>1. 1 \in 1..MaxRules + 1 /\ (~(d > MaxDepth) => d + 1 \in 0..MaxDepth + 1)
        BY ReachabilityAssumption
      <4> QED
        BY <4>1, PlaceFacts
    <3>3. KernelFrom(set, own, maybe, f, at)
            = RuleDoes(r, Holds(set, own, maybe, c, i), DOMAIN set.rules, d > MaxDepth, rest, inner)
      BY <2>1, <2>3 DEF KernelFrom
    <3> HIDE DEF r, rest, inner
    <3>4. RuleDoes(r, Holds(set, own, maybe, c, i), DOMAIN set.rules, d > MaxDepth, rest, inner) \in Ends
      BY <3>1, <3>2 DEF RuleDoes, Ends
    <3> QED
      BY <3>3, <3>4
  <2> QED
    BY <2>2, <2>3
<1>2. ASSUME NEW f \in [P -> Ends], NEW g \in [P -> Ends], 
             NEW d \in 0..MaxDepth + 1, NEW c \in DOMAIN set.rules, NEW i \in 1..MaxRules + 1,
             ~(i > Len(set.rules[c])) => f[<<d, c, i + 1>>] = g[<<d, c, i + 1>>],
             ~(i > Len(set.rules[c])) /\ d <= MaxDepth =>
                   \A e \in DOMAIN set.rules : f[<<d + 1, e, 1>>] = g[<<d + 1, e, 1>>]
      PROVE  F[f][<<d, c, i>>] = F[g][<<d, c, i>>]
  <2>1. <<d, c, i>> \in P
    BY PlaceFacts
  <2>2. SUFFICES KernelFrom(set, own, maybe, f, <<d, c, i>>) = KernelFrom(set, own, maybe, g, <<d, c, i>>)
    BY <2>1
  <2>3. CASE i > Len(set.rules[c])
    BY <2>3 DEF KernelFrom
  <2>4. CASE ~(i > Len(set.rules[c]))
    <3> DEFINE r == set.rules[c][i]
               Does(rest, inner) ==
                   RuleDoes(r, Holds(set, own, maybe, c, i), DOMAIN set.rules, d > MaxDepth, rest, inner)
    <3>1. /\ KernelFrom(set, own, maybe, f, <<d, c, i>>) = Does(f[<<d, c, i + 1>>], f[<<d + 1, r.target, 1>>])
          /\ KernelFrom(set, own, maybe, g, <<d, c, i>>) = Does(g[<<d, c, i + 1>>], g[<<d + 1, r.target, 1>>])
      BY <2>4 DEF KernelFrom
    <3>2. f[<<d, c, i + 1>>] = g[<<d, c, i + 1>>]
      BY <1>2, <2>4
    <3>3. CASE r.target \in DOMAIN set.rules /\ d <= MaxDepth
      <4>1. f[<<d + 1, r.target, 1>>] = g[<<d + 1, r.target, 1>>]
        BY <1>2, <2>4, <3>3
      <4> QED
        BY <3>1, <3>2, <4>1
    <3>4. CASE ~(r.target \in DOMAIN set.rules) \/ d > MaxDepth
      <4>1. \A rest, x, y : Does(rest, x) = Does(rest, y)
        BY <3>4 DEF RuleDoes
      <4> QED
        BY <3>1, <3>2, <4>1
    <3> QED
      BY <3>3, <3>4, ReachabilityAssumption
  <2> QED
    BY <2>3, <2>4
<1>3. F \in [[P -> Ends] -> [P -> Ends]]
  BY <1>1
<1>4. "DROP" \in Ends
  BY DEF Ends
<1>5. LooksAhead(F, set, Ends)
  <2> HIDE DEF F
  <2>1. \A f, g \in [P -> Ends] :
        \A d \in 0..MaxDepth + 1, c \in DOMAIN set.rules, i \in 1..MaxRules + 1 :
           (/\ ~(i > Len(set.rules[c])) => f[<<d, c, i + 1>>] = g[<<d, c, i + 1>>]
            /\ ~(i > Len(set.rules[c])) /\ d <= MaxDepth =>
                  \A e \in DOMAIN set.rules : f[<<d + 1, e, 1>>] = g[<<d + 1, e, 1>>])
           => F[f][<<d, c, i>>] = F[g][<<d, c, i>>]
    BY <1>2
  <2> QED
    BY <1>3, <1>4, <2>1, Zenon DEF LooksAhead
<1>6. PICK f \in [P -> Ends] : f = [at \in P |-> KernelFrom(set, own, maybe, f, at)]
  <2>1. Solved(F, P, Ends)
    BY <1>5, PlaceRecursion
  <2> QED
    BY <2>1 DEF Solved
<1>7. KernelChain(set, own, maybe)
        = [at \in P |-> KernelFrom(set, own, maybe, KernelChain(set, own, maybe), at)]
  BY <1>6 DEF KernelChain
<1>8. \A h : h = [at \in P |-> KernelFrom(set, own, maybe, h, at)]
         => \A at \in P : h[at] = KernelFrom(set, own, maybe, h, at)
  OBVIOUS
<1> QED
  BY <1>7, <1>8

\* What the walk gives is good for what the kernel does.
Good(w, k) ==
    /\ w.told \in BOOLEAN
    /\ ~w.told => \/ w.verdict = "ACCEPT" /\ k = "ACCEPT"
                  \/ w.verdict = "RETURN" /\ k \in {"ACCEPT", "RETURN"}

\* A rule that neither drops nor returns nor jumps.
Lets(r, own, chains) ==
    RuleMatches(r, own) = "no" \/ r.target \notin chains \cup {"DROP", "RETURN"}

\* A rule the walk can decide holds for the kernel as the walk says.
LEMMA HoldsMatches ==
  ASSUME NEW set, NEW own, NEW maybe, NEW c, NEW i
  PROVE  /\ RuleMatches(set.rules[c][i], own) = "yes" => Holds(set, own, maybe, c, i)
         /\ RuleMatches(set.rules[c][i], own) = "no" => ~Holds(set, own, maybe, c, i)
  BY DEF RuleMatches, Holds

\* One rule: where the walk is right about the rules behind it, unless it ends
\* the chain, and about the chain it names, it is right about the rule.
LEMMA RuleSound ==
  ASSUME NEW r, NEW own, NEW chains, NEW met, chains \cap Ends = {}, Followed(r, own, chains, met),
         NEW deep \in BOOLEAN, NEW hit \in BOOLEAN,
         RuleMatches(r, own) = "yes" => hit, RuleMatches(r, own) = "no" => ~hit,
         NEW rest, NEW inner, NEW krest, NEW kinner, EndsChain(r, own) \/ Good(rest, krest),
         RuleMatches(r, own) # "no" /\ r.target \in chains /\ ~deep => Good(inner, kinner)
  PROVE  Good(RuleGives(r, RuleMatches(r, own), chains, deep, rest, inner),
              RuleDoes(r, hit, chains, deep, krest, kinner))
<1> DEFINE m == RuleMatches(r, own)
           w == RuleGives(r, m, chains, deep, rest, inner)
           k == RuleDoes(r, hit, chains, deep, krest, kinner)
<1>1. m \in {"yes", "no", "unknown"}
  BY MatchType
<1>2. CASE m = "no"
  BY <1>2 DEF RuleGives, RuleDoes, EndsChain
<1>3. CASE m # "no" /\ r.target = "DROP"
  BY <1>3 DEF RuleGives, Good, Ends
<1>4. CASE m # "no" /\ r.target \in {"ACCEPT", "RETURN"}
  <2>1. CASE m = "yes"
    BY <1>4, <2>1 DEF RuleGives, RuleDoes, Good, Ends
  <2>2. CASE m = "unknown"
    BY <1>4, <2>2 DEF RuleGives, RuleDoes, Good, Ends, Followed, EndsChain
  <2> QED
    BY <1>1, <1>4, <2>1, <2>2
<1>5. CASE m # "no" /\ r.target \in chains
  <2>1. r.target \notin Ends /\ Good(rest, krest)
    BY <1>5 DEF EndsChain, Ends
  <2>2. CASE deep
    BY <1>5, <2>1, <2>2 DEF RuleGives, Good, Ends
  <2>3. CASE ~deep /\ m = "yes" /\ (inner.verdict # "RETURN" \/ r.goto)
    BY <1>5, <2>1, <2>3 DEF RuleGives, RuleDoes, Good, Ends
  <2>4. CASE ~deep /\ ~(m = "yes" /\ (inner.verdict # "RETURN" \/ r.goto))
    <3>1. w = [verdict |-> rest.verdict, told |-> rest.told \/ inner.told]
      BY <1>5, <2>1, <2>4 DEF RuleGives, Ends
    <3>2. k = IF hit THEN IF kinner # "RETURN" \/ r.goto THEN kinner ELSE krest ELSE krest
      BY <1>5, <2>1, <2>4 DEF RuleDoes, Ends
    <3>3. m = "unknown" => ~r.goto
      BY <1>5 DEF Followed
    <3>5. Good(rest, krest) /\ Good(inner, kinner)
      BY <1>5, <2>1, <2>4
    <3>4. w.verdict = rest.verdict /\ w.told \in BOOLEAN /\ (~w.told => ~rest.told /\ ~inner.told)
      BY <3>1, <3>5 DEF Good
    <3>6. m = "yes" => inner.verdict = "RETURN" /\ ~r.goto
      BY <2>4
    <3> HIDE DEF m, w, k
    <3>7. Good(w, k)
      BY <1>1, <1>5, <3>2, <3>3, <3>4, <3>5, <3>6 DEF Good
    <3> QED
      BY <3>7 DEF m, w, k
  <2> QED
    BY <2>2, <2>3, <2>4
<1>6. CASE m # "no" /\ r.target \notin chains \cup Ends
  BY <1>6 DEF RuleGives, RuleDoes, Ends, EndsChain
<1> QED
  BY <1>2, <1>3, <1>4, <1>5, <1>6 DEF Ends

\* From rule i of a chain on, the kernel meets rules that let the packet on, and
\* one that surely accepts it.
Sure(set, own, c, i) ==
    /\ \A k \in i..Len(set.rules[c]) : Lets(set.rules[c][k], own, DOMAIN set.rules)
    /\ \E k \in i..Len(set.rules[c]) :
          RuleMatches(set.rules[c][k], own) = "yes" /\ set.rules[c][k].target = "ACCEPT"

\* What the kernel does at a rule, and at the end of a chain.
LEMMA KernelRule ==
  ASSUME NEW set, NEW own, NEW maybe, IsRuleset(set), NEW d \in 0..MaxDepth + 1,
         NEW c \in DOMAIN set.rules, NEW i \in 1..MaxRules + 1
  PROVE  LET K == KernelChain(set, own, maybe)
             r == set.rules[c][i]
         IN  /\ i > Len(set.rules[c]) => K[<<d, c, i>>] = "RETURN"
             /\ i <= Len(set.rules[c]) => K[<<d, c, i>>] =
                   RuleDoes(r, Holds(set, own, maybe, c, i), DOMAIN set.rules, d > MaxDepth,
                            K[<<d, c, i + 1>>], K[<<d + 1, r.target, 1>>])
<1> DEFINE K == KernelChain(set, own, maybe)
<1>1. <<d, c, i>> \in Places(set)
  BY PlaceFacts
<1>2. K[<<d, c, i>>] = KernelFrom(set, own, maybe, K, <<d, c, i>>)
  BY <1>1, KernelEquation
<1>3. Len(set.rules[c]) \in Nat
  BY DEF IsRuleset
<1> HIDE DEF K
<1>4. i <= Len(set.rules[c]) => ~(i > Len(set.rules[c]))
  BY <1>3
<1> QED
  BY <1>2, <1>4 DEF KernelFrom, K

\* What the walk gives at the end of a chain.
ChainEnd == [verdict |-> "RETURN", told |-> FALSE]

\* What the walk gives at a rule, and at the end of a chain.
LEMMA ChainRule ==
  ASSUME NEW set, NEW own, IsRuleset(set), NEW d \in 0..MaxDepth + 1,
         NEW c \in DOMAIN set.rules, NEW i \in 1..MaxRules + 1
  PROVE  LET W == Chain(set, own)
             r == set.rules[c][i]
         IN  /\ i > Len(set.rules[c]) => W[<<d, c, i>>] = ChainEnd
             /\ i <= Len(set.rules[c]) => W[<<d, c, i>>] =
                   RuleGives(r, RuleMatches(r, own), DOMAIN set.rules, d > MaxDepth,
                             W[<<d, c, i + 1>>], W[<<d + 1, r.target, 1>>])
<1> DEFINE W == Chain(set, own)
<1>1. <<d, c, i>> \in Places(set)
  BY PlaceFacts
<1>2. W[<<d, c, i>>] = ChainFrom(set, own, W, <<d, c, i>>)
  BY <1>1, ChainEquation
<1>3. Len(set.rules[c]) \in Nat
  BY DEF IsRuleset
<1> HIDE DEF W
<1>4. i <= Len(set.rules[c]) => ~(i > Len(set.rules[c]))
  BY <1>3
<1> QED
  BY <1>2, <1>4 DEF ChainFrom, W, ChainEnd

\* What holds of a place where it holds of the places ahead holds everywhere.
LEMMA PlaceInduction ==
  ASSUME NEW set, IsRuleset(set), NEW S,
         \A d \in 0..MaxDepth + 1, c \in DOMAIN set.rules, i \in 1..MaxRules + 1 :
            (/\ i <= Len(set.rules[c]) => <<d, c, i + 1>> \in S
             /\ i <= Len(set.rules[c]) /\ d <= MaxDepth =>
                   \A e \in DOMAIN set.rules : <<d + 1, e, 1>> \in S)
            => <<d, c, i>> \in S
  PROVE  Places(set) \subseteq S
<1> DEFINE T == {Rank(set)[at] : at \in Places(set) \ S}
<1> SUFFICES ASSUME T # {} PROVE FALSE
  OBVIOUS
<1>1. T \in SUBSET Nat
  BY PlaceFacts
<1>2. PICK x \in T : \A y \in T : x <= y
  BY <1>1, LeastNat
<1>3. PICK at \in Places(set) : at \notin S /\ x = Rank(set)[at]
  BY <1>2
<1>4. \A y \in Places(set) : Rank(set)[y] < Rank(set)[at] => y \in S
  <2> SUFFICES ASSUME NEW y \in Places(set), Rank(set)[y] < Rank(set)[at], y \notin S PROVE FALSE
    OBVIOUS
  <2>1. Rank(set)[y] \in T
    OBVIOUS
  <2>2. x <= Rank(set)[y] /\ x \in Nat /\ Rank(set)[y] \in Nat
    BY <1>1, <1>2, <2>1
  <2> QED
    BY <1>3, <2>2
<1>5. PICK d \in 0..MaxDepth + 1, c \in DOMAIN set.rules, i \in 1..MaxRules + 1 : at = <<d, c, i>>
  BY PlaceFacts
<1> HIDE DEF T
<1>6. ASSUME i <= Len(set.rules[c]) PROVE <<d, c, i + 1>> \in S
  <2>1. i \in 1..MaxRules /\ i + 1 \in 1..MaxRules + 1
    BY <1>6, ReachabilityAssumption DEF IsRuleset
  <2>2. <<d, c, i + 1>> \in Places(set) /\ Rank(set)[<<d, c, i + 1>>] < Rank(set)[<<d, c, i>>]
    BY <2>1, PlaceFacts
  <2> QED
    BY <1>4, <1>5, <2>2
<1>7. ASSUME i <= Len(set.rules[c]), d <= MaxDepth, NEW e \in DOMAIN set.rules
      PROVE  <<d + 1, e, 1>> \in S
  <2>1. i \in 1..MaxRules /\ 1 \in 1..MaxRules + 1 /\ d \in 0..MaxDepth /\ d + 1 \in 0..MaxDepth + 1
    BY <1>7, ReachabilityAssumption DEF IsRuleset
  <2>2. <<d + 1, e, 1>> \in Places(set) /\ Rank(set)[<<d + 1, e, 1>>] < Rank(set)[<<d, c, i>>]
    BY <2>1, PlaceFacts
  <2> QED
    BY <1>4, <1>5, <2>2
<1>8. <<d, c, i>> \in S
  BY <1>6, <1>7
<1> QED
  BY <1>3, <1>5, <1>8

\* Where the walk has nothing to tell it accepts or returns.
Plain(w) == w.told \in BOOLEAN /\ (~w.told => w.verdict \in {"ACCEPT", "RETURN"})

\* A rule keeps that.
LEMMA RulePlain ==
  ASSUME NEW r, NEW own, NEW chains, chains \cap Ends = {}, NEW deep \in BOOLEAN,
         NEW rest, NEW inner, Plain(rest), r.target \in chains /\ ~deep => Plain(inner)
  PROVE  Plain(RuleGives(r, RuleMatches(r, own), chains, deep, rest, inner))
<1> DEFINE m == RuleMatches(r, own)
           w == RuleGives(r, m, chains, deep, rest, inner)
<1>1. m \in {"yes", "no", "unknown"}
  BY MatchType
<1>2. CASE m = "no"
  BY <1>2 DEF RuleGives
<1>3. CASE m # "no" /\ r.target = "DROP"
  BY <1>3 DEF RuleGives, Plain, Ends
<1>4. CASE m # "no" /\ r.target \in {"ACCEPT", "RETURN"}
  BY <1>1, <1>4 DEF RuleGives, Plain, Ends
<1>5. CASE m # "no" /\ r.target \in chains
  <2>1. r.target \notin Ends
    BY <1>5
  <2>2. CASE deep
    BY <1>5, <2>1, <2>2 DEF RuleGives, Plain, Ends
  <2>3. CASE ~deep /\ m = "yes" /\ (inner.verdict # "RETURN" \/ r.goto)
    BY <1>5, <2>1, <2>3 DEF RuleGives, Ends
  <2>4. CASE ~deep /\ ~(m = "yes" /\ (inner.verdict # "RETURN" \/ r.goto))
    <3>1. w = [verdict |-> rest.verdict, told |-> rest.told \/ inner.told]
      BY <1>5, <2>1, <2>4 DEF RuleGives, Ends
    <3>2. w.verdict = rest.verdict /\ w.told \in BOOLEAN /\ (~w.told => ~rest.told)
      BY <3>1, <1>5, <2>4 DEF Plain
    <3> HIDE DEF w
    <3>3. Plain(w)
      BY <3>2 DEF Plain
    <3> QED
      BY <3>3 DEF w
  <2> QED
    BY <2>2, <2>3, <2>4
<1>6. CASE m # "no" /\ r.target \notin chains \cup Ends
  BY <1>6 DEF RuleGives, Ends
<1> QED
  BY <1>2, <1>3, <1>4, <1>5, <1>6 DEF Ends

\* Where the walk has nothing to tell, it did not drop the packet.
LEMMA ChainPlain ==
  ASSUME NEW set, NEW own, IsRuleset(set)
  PROVE  \A at \in Places(set) : Plain(Chain(set, own)[at])
<1> DEFINE W == Chain(set, own)
           S == {at \in Places(set) : Plain(W[at])}
<1>0. Plain(ChainEnd)
  BY DEF Plain, ChainEnd
<1>1. ASSUME NEW d \in 0..MaxDepth + 1, NEW c \in DOMAIN set.rules, NEW i \in 1..MaxRules + 1,
             i <= Len(set.rules[c]) => <<d, c, i + 1>> \in S,
             i <= Len(set.rules[c]) /\ d <= MaxDepth => \A e \in DOMAIN set.rules : <<d + 1, e, 1>> \in S
      PROVE  <<d, c, i>> \in S
  <2>1. <<d, c, i>> \in Places(set)
    BY PlaceFacts
  <2> DEFINE r == set.rules[c][i]
             rest == W[<<d, c, i + 1>>]
             inner == W[<<d + 1, r.target, 1>>]
             deep == d > MaxDepth
  <2>5. /\ i > Len(set.rules[c]) => W[<<d, c, i>>] = ChainEnd
        /\ i <= Len(set.rules[c]) => W[<<d, c, i>>] =
              RuleGives(r, RuleMatches(r, own), DOMAIN set.rules, deep, rest, inner)
    BY ChainRule
  <2>2. CASE i > Len(set.rules[c])
    <3>1. W[<<d, c, i>>] = ChainEnd
      BY <2>2, <2>5, Zenon
    <3>2. Plain(W[<<d, c, i>>])
      BY <1>0, <3>1, Zenon
    <3> QED
      BY <2>1, <3>2, Zenon
  <2>3. CASE i <= Len(set.rules[c])
    <3>1. W[<<d, c, i>>] = RuleGives(r, RuleMatches(r, own), DOMAIN set.rules, deep, rest, inner)
      BY <2>3, <2>5, Zenon
    <3>2. Plain(rest)
      BY <1>1, <2>3
    <3>3. r.target \in DOMAIN set.rules /\ ~deep => Plain(inner)
      <4>1. ~(d > MaxDepth) => d <= MaxDepth
        BY ReachabilityAssumption
      <4> QED
        BY <1>1, <2>3, <4>1
    <3>5. deep \in BOOLEAN /\ (DOMAIN set.rules) \cap Ends = {}
      BY DEF IsRuleset, Ends
    <3> HIDE DEF r, rest, inner, deep
    <3>4. Plain(RuleGives(r, RuleMatches(r, own), DOMAIN set.rules, deep, rest, inner))
      BY <3>2, <3>3, <3>5, RulePlain
    <3> QED
      BY <2>1, <3>1, <3>4, Zenon
  <2>4. i \in Nat /\ Len(set.rules[c]) \in Nat
    BY DEF IsRuleset
  <2> QED
    BY <2>2, <2>3, <2>4
<1>2. Places(set) \subseteq S
  <2> HIDE DEF S
  <2> QED
    BY <1>1, PlaceInduction
<1> QED
  BY <1>2

\* A packet let on to a rule that accepts it is accepted.
LEMMA SureAccepts ==
  ASSUME NEW set, NEW own, NEW maybe, IsRuleset(set), NEW d \in 0..MaxDepth + 1,
         NEW c \in DOMAIN set.rules, NEW i \in 1..MaxRules + 1, Sure(set, own, c, i)
  PROVE  KernelChain(set, own, maybe)[<<d, c, i>>] = "ACCEPT"
<1> DEFINE K == KernelChain(set, own, maybe)
           S == {at \in Places(set) : Sure(set, own, at[2], at[3]) => K[at] = "ACCEPT"}
<1>1. ASSUME NEW x \in 0..MaxDepth + 1, NEW e \in DOMAIN set.rules, NEW j \in 1..MaxRules + 1,
             Sure(set, own, e, j), j <= Len(set.rules[e]) => <<x, e, j + 1>> \in S
      PROVE  K[<<x, e, j>>] = "ACCEPT"
  <2> DEFINE r == set.rules[e][j]
             n == Len(set.rules[e])
  <2>0. n \in Nat
    BY DEF IsRuleset
  <2>1. j <= n /\ j \in j..n
    BY <1>1, <2>0 DEF Sure
  <2>2. Lets(r, own, DOMAIN set.rules)
    BY <1>1, <2>1 DEF Sure
  <2>3. K[<<x, e, j>>] = RuleDoes(r, Holds(set, own, maybe, e, j), DOMAIN set.rules, x > MaxDepth,
                                  K[<<x, e, j + 1>>], K[<<x + 1, r.target, 1>>])
    BY <2>1, KernelRule
  <2>4. (DOMAIN set.rules) \cap Ends = {}
    BY DEF IsRuleset, Ends
  <2>5. /\ RuleMatches(r, own) = "yes" => Holds(set, own, maybe, e, j)
        /\ RuleMatches(r, own) = "no" => ~Holds(set, own, maybe, e, j)
    BY HoldsMatches
  <2>6. /\ K[<<x, e, j>>] \in {"ACCEPT", K[<<x, e, j + 1>>]}
        /\ RuleMatches(r, own) = "yes" /\ r.target = "ACCEPT" => K[<<x, e, j>>] = "ACCEPT"
    <3> HIDE DEF K, r
    <3> QED
      BY <2>2, <2>3, <2>4, <2>5 DEF RuleDoes, Lets, Ends
  <2>7. CASE RuleMatches(r, own) = "yes" /\ r.target = "ACCEPT"
    BY <2>6, <2>7
  <2>8. CASE ~(RuleMatches(r, own) = "yes" /\ r.target = "ACCEPT")
    <3>1. \A k \in (j + 1)..n : k \in j..n
      BY <2>0
    <3>2. \A k \in j..n : k # j => k \in (j + 1)..n
      BY <2>0
    <3>3. Sure(set, own, e, j + 1)
      BY <1>1, <2>8, <3>1, <3>2 DEF Sure
    <3>4. K[<<x, e, j + 1>>] = "ACCEPT"
      <4>1. <<x, e, j + 1>> \in S
        BY <1>1, <2>1
      <4>2. PICK at : at = <<x, e, j + 1>>
        OBVIOUS
      <4>3. at[2] = e /\ at[3] = j + 1
        BY <4>2
      <4> QED
        BY <3>3, <4>1, <4>2, <4>3
    <3> QED
      BY <2>6, <3>4
  <2> QED
    BY <2>7, <2>8
<1>2. ASSUME NEW x \in 0..MaxDepth + 1, NEW e \in DOMAIN set.rules, NEW j \in 1..MaxRules + 1,
             j <= Len(set.rules[e]) => <<x, e, j + 1>> \in S
      PROVE  <<x, e, j>> \in S
  <2>1. <<x, e, j>> \in Places(set)
    BY PlaceFacts
  <2>2. PICK at : at = <<x, e, j>>
    OBVIOUS
  <2>3. at[2] = e /\ at[3] = j
    BY <2>2
  <2>4. Sure(set, own, e, j) => K[at] = "ACCEPT"
    BY <1>1, <1>2, <2>2
  <2> QED
    BY <2>1, <2>2, <2>3, <2>4
<1>3. Places(set) \subseteq S
  <2> HIDE DEF S
  <2> QED
    BY <1>2, PlaceInduction
<1>4. PICK at : at = <<d, c, i>>
  OBVIOUS
<1>5. at \in Places(set) /\ at[2] = c /\ at[3] = i
  BY <1>4, PlaceFacts
<1> QED
  BY <1>3, <1>4, <1>5

\* What the walk met up to a rule of each chain the kernel meets too, and from
\* there on the kernel surely accepts.
Agrees(w, k, own, met, c, n) ==
    /\ n \in 0..MaxRules + 1
    /\ \A i \in 1..n :
          \/ i > Len(w.rules[c]) /\ i > Len(k.rules[c])
          \/ /\ i <= Len(w.rules[c]) /\ i <= Len(k.rules[c])
             /\ w.rules[c][i] = k.rules[c][i]
             /\ Met(k.rules[c], own, i) => Followed(k.rules[c][i], own, DOMAIN k.rules, met)
    /\ n <= MaxRules => Sure(k, own, c, n + 1)

\* In the chains the packet may be sent through.
Alike(w, k, own, met, upto) ==
    /\ DOMAIN w.rules = DOMAIN k.rules /\ met \subseteq DOMAIN k.rules
    /\ \A j \in 1..Len(Inbound) : Inbound[j] \in met
    /\ \A c \in met : Agrees(w, k, own, met, c, upto[c])

\* The rule behind one that is met, and does not end the chain, is met.
LEMMA MetNext ==
  ASSUME NEW rules, NEW own, Len(rules) \in Nat, NEW i \in 1..Len(rules), Met(rules, own, i),
         ~EndsChain(rules[i], own)
  PROVE  Met(rules, own, i + 1)
<1> SUFFICES ASSUME NEW j \in 1..Len(rules), j < i + 1 PROVE ~EndsChain(rules[j], own)
  BY DEF Met
<1>1. CASE j < i
  BY <1>1 DEF Met
<1>2. CASE j = i
  BY <1>2
<1> QED
  BY <1>1, <1>2

\* Where the walk and the kernel meet the same rules until the kernel is sure to
\* accept, the walk is right about every chain the packet may be sent through.
LEMMA AlikeGood ==
  ASSUME NEW w, NEW k, NEW own, NEW maybe, NEW met, NEW upto, IsRuleset(w), IsRuleset(k),
         Alike(w, k, own, met, upto)
  PROVE  \A d \in 0..MaxDepth + 1, c \in met :
            Good(Chain(w, own)[<<d, c, 1>>], KernelChain(k, own, maybe)[<<d, c, 1>>])
<1> DEFINE W == Chain(w, own)
           K == KernelChain(k, own, maybe)
           Stands(c, i) == c \in met /\ i <= upto[c] + 1 /\ Met(k.rules[c], own, i)
           S == {at \in Places(w) : Stands(at[2], at[3]) => Good(W[at], K[at])}
<1>0. /\ DOMAIN w.rules = DOMAIN k.rules /\ met \subseteq DOMAIN w.rules
      /\ \A c \in met : upto[c] \in 0..MaxRules + 1
  BY DEF Alike, Agrees
<1>a. \A d \in 0..MaxDepth + 1, c \in DOMAIN w.rules, i \in 1..MaxRules + 1 :
         /\ <<d, c, i>> \in Places(w) /\ <<d, c, i>> \in Places(k)
         /\ <<d, c, i>> \in S <=> (Stands(c, i) => Good(W[<<d, c, i>>], K[<<d, c, i>>]))
  <2> TAKE d \in 0..MaxDepth + 1, c \in DOMAIN w.rules, i \in 1..MaxRules + 1
  <2>1. <<d, c, i>> \in Places(w) /\ <<d, c, i>> \in Places(k)
    BY <1>0, PlaceFacts
  <2>2. PICK at : at = <<d, c, i>>
    OBVIOUS
  <2>3. at[2] = c /\ at[3] = i
    BY <2>2
  <2>4. at \in S <=> (Stands(c, i) => Good(W[at], K[at]))
    BY <2>1, <2>2, <2>3
  <2> QED
    BY <2>1, <2>2, <2>4
<1> HIDE DEF S
<1>1. ASSUME NEW d \in 0..MaxDepth + 1, NEW c \in DOMAIN w.rules, NEW i \in 1..MaxRules + 1,
             i <= Len(w.rules[c]) => <<d, c, i + 1>> \in S,
             i <= Len(w.rules[c]) /\ d <= MaxDepth => \A e \in DOMAIN w.rules : <<d + 1, e, 1>> \in S,
             Stands(c, i)
      PROVE  Good(W[<<d, c, i>>], K[<<d, c, i>>])
  <2> DEFINE n == upto[c]
  <2>1. Agrees(w, k, own, met, c, n) /\ n \in 0..MaxRules + 1 /\ c \in DOMAIN k.rules
    BY <1>0, <1>1 DEF Alike
  <2>2. Len(w.rules[c]) \in 0..MaxRules /\ Len(k.rules[c]) \in 0..MaxRules
    BY <2>1 DEF IsRuleset
  <2> HIDE DEF n
  <2>n. i <= n + 1
    BY <1>1 DEF n
  <2>3. CASE i = n + 1
    <3>1. Sure(k, own, c, i)
      BY <2>1, <2>3, ReachabilityAssumption DEF Agrees
    <3>2. K[<<d, c, i>>] = "ACCEPT"
      BY <2>1, <3>1, SureAccepts
    <3>3. Plain(W[<<d, c, i>>])
      BY <1>a, ChainPlain
    <3> HIDE DEF W, K
    <3> QED
      BY <3>2, <3>3 DEF Good, Plain
  <2>4. CASE i <= n /\ i > Len(w.rules[c]) /\ i > Len(k.rules[c])
    <3>1. W[<<d, c, i>>] = ChainEnd
      BY <2>4, ChainRule
    <3>2. K[<<d, c, i>>] = "RETURN"
      BY <2>1, <2>4, KernelRule
    <3>3. Good(ChainEnd, "RETURN")
      BY DEF Good, ChainEnd
    <3> QED
      BY <3>1, <3>2, <3>3, Zenon
  <2>5. CASE /\ i <= n /\ i <= Len(w.rules[c]) /\ i <= Len(k.rules[c])
             /\ w.rules[c][i] = k.rules[c][i]
             /\ Followed(k.rules[c][i], own, DOMAIN k.rules, met)
    <3> DEFINE r == k.rules[c][i]
               chains == DOMAIN k.rules
               deep == d > MaxDepth
               hit == Holds(k, own, maybe, c, i)
               rest == W[<<d, c, i + 1>>]
               inner == W[<<d + 1, r.target, 1>>]
               krest == K[<<d, c, i + 1>>]
               kinner == K[<<d + 1, r.target, 1>>]
    <3>1. W[<<d, c, i>>] = RuleGives(r, RuleMatches(r, own), chains, deep, rest, inner)
      <4>1. W[<<d, c, i>>] =
              RuleGives(w.rules[c][i], RuleMatches(w.rules[c][i], own), DOMAIN w.rules, d > MaxDepth,
                        W[<<d, c, i + 1>>], W[<<d + 1, w.rules[c][i].target, 1>>])
        BY <2>5, ChainRule
      <4> QED
        BY <1>0, <2>5, <4>1, Zenon
    <3>2. K[<<d, c, i>>] = RuleDoes(r, hit, chains, deep, krest, kinner)
      BY <2>1, <2>5, KernelRule
    <3>3. EndsChain(r, own) \/ Good(rest, krest)
      <4> SUFFICES ASSUME ~EndsChain(r, own) PROVE Good(rest, krest)
        OBVIOUS
      <4>1. i + 1 \in 1..MaxRules + 1 /\ i + 1 <= n + 1 /\ i \in 1..Len(k.rules[c])
        BY <2>1, <2>2, <2>5, ReachabilityAssumption
      <4>2. Met(k.rules[c], own, i + 1)
        BY <1>1, <2>2, <4>1, MetNext
      <4>3. Stands(c, i + 1)
        BY <1>1, <4>1, <4>2 DEF n
      <4> QED
        BY <1>1, <1>a, <2>5, <4>1, <4>3
    <3>4. RuleMatches(r, own) # "no" /\ r.target \in chains /\ ~deep => Good(inner, kinner)
      <4> SUFFICES ASSUME RuleMatches(r, own) # "no", r.target \in chains, ~deep PROVE Good(inner, kinner)
        OBVIOUS
      <4>1. d <= MaxDepth /\ d + 1 \in 0..MaxDepth + 1 /\ 1 \in 1..MaxRules + 1
        BY ReachabilityAssumption
      <4>2. r.target \in met
        BY <2>5 DEF Followed
      <4>3. Stands(r.target, 1)
        <5>1. 1 <= upto[r.target] + 1
          BY <1>0, <4>2
        <5>2. Met(k.rules[r.target], own, 1)
          BY DEF Met
        <5> QED
          BY <4>2, <5>1, <5>2
      <4> QED
        BY <1>0, <1>1, <1>a, <2>5, <4>1, <4>3
    <3>5. deep \in BOOLEAN /\ chains \cap Ends = {} /\ hit \in BOOLEAN /\ Followed(r, own, chains, met)
      BY <2>5 DEF IsRuleset, Ends, Holds
    <3>6. (RuleMatches(r, own) = "yes" => hit) /\ (RuleMatches(r, own) = "no" => ~hit)
      BY HoldsMatches
    <3> HIDE DEF r, chains, deep, hit, rest, inner, krest, kinner, W, K
    <3>7. Good(RuleGives(r, RuleMatches(r, own), chains, deep, rest, inner),
               RuleDoes(r, hit, chains, deep, krest, kinner))
      BY <3>3, <3>4, <3>5, <3>6, RuleSound
    <3> QED
      BY <3>1, <3>2, <3>7, Zenon
  <2>6. i = n + 1 \/ i <= n
    BY <2>1, <2>n
  <2>7. ASSUME i <= n
        PROVE  \/ i > Len(w.rules[c]) /\ i > Len(k.rules[c])
               \/ /\ i <= Len(w.rules[c]) /\ i <= Len(k.rules[c])
                  /\ w.rules[c][i] = k.rules[c][i]
                  /\ Followed(k.rules[c][i], own, DOMAIN k.rules, met)
    <3>1. i \in 1..n /\ Met(k.rules[c], own, i)
      BY <1>1, <2>1, <2>7
    <3> QED
      BY <2>1, <3>1 DEF Agrees
  <2> QED
    BY <2>3, <2>4, <2>5, <2>6, <2>7
<1>2. ASSUME NEW d \in 0..MaxDepth + 1, NEW c \in DOMAIN w.rules, NEW i \in 1..MaxRules + 1,
             i <= Len(w.rules[c]) => <<d, c, i + 1>> \in S,
             i <= Len(w.rules[c]) /\ d <= MaxDepth => \A e \in DOMAIN w.rules : <<d + 1, e, 1>> \in S
      PROVE  <<d, c, i>> \in S
  BY <1>1, <1>2, <1>a
<1>3. Places(w) \subseteq S
  BY <1>2, PlaceInduction
<1>4. ASSUME NEW d \in 0..MaxDepth + 1, NEW c \in met
      PROVE  Good(W[<<d, c, 1>>], K[<<d, c, 1>>])
  <2>1. 1 \in 1..MaxRules + 1 /\ 1 <= upto[c] + 1 /\ c \in DOMAIN w.rules
    BY <1>0, ReachabilityAssumption
  <2>2. Met(k.rules[c], own, 1)
    BY DEF Met
  <2> QED
    BY <1>3, <1>a, <2>1, <2>2
<1> QED
  BY <1>4

\* A walk that reports nothing answers for every ruleset that is alike.
LEMMA AlikeAccepted ==
  ASSUME NEW w, NEW k, NEW own, NEW met, NEW upto, IsRuleset(w), IsRuleset(k),
         Alike(w, k, own, met, upto),
         \A j \in 1..Len(Inbound) : w.policy[Inbound[j]] = k.policy[Inbound[j]], Walk(w, own)
  PROVE  KernelAccepts(k, own)
<1> SUFFICES ASSUME NEW maybe \in [Undecided(k, own) -> BOOLEAN] PROVE Kernel(k, own, maybe)
  BY DEF KernelAccepts
<1> SUFFICES ASSUME NEW j \in 1..Len(Inbound)
             PROVE  LET v == KernelChain(k, own, maybe)[<<0, Inbound[j], 1>>]
                    IN  v = "ACCEPT" \/ (v = "RETURN" /\ k.policy[Inbound[j]] = "ACCEPT")
  BY DEF Kernel
<1> DEFINE hook == Chain(w, own)[<<0, Inbound[j], 1>>]
           v == KernelChain(k, own, maybe)[<<0, Inbound[j], 1>>]
<1>1. ~hook.told /\ (hook.verdict = "RETURN" => w.policy[Inbound[j]] # "DROP")
  BY DEF Walk
<1>2. Inbound[j] \in met /\ k.policy[Inbound[j]] \in {"ACCEPT", "DROP"}
  BY DEF IsRuleset, Alike
<1>3. 0 \in 0..MaxDepth + 1
  BY ReachabilityAssumption
<1>4. Good(hook, v)
  BY <1>2, <1>3, AlikeGood
<1>5. w.policy[Inbound[j]] = k.policy[Inbound[j]]
  OBVIOUS
<1> HIDE DEF hook, v
<1>6. v = "ACCEPT" \/ (v = "RETURN" /\ k.policy[Inbound[j]] = "ACCEPT")
  BY <1>1, <1>2, <1>4, <1>5 DEF Good
<1> QED
  BY <1>6 DEF v

-----------------------------------------------------------------------------
\* The lockdown.

\* The rules ufw can hold.
UfwRules == (UNION {{u[i] : i \in DOMAIN u} : u \in UserRules})
                \cup {PublicSsh, TailnetSsh, BridgeSsh}

\* Where the public rule goes next, the tailnet's is in.
BeforeClosing ==
    /\ run.pc \in {"allow bridges", "close", "declare private"} => HasTailnetRule
    /\ recon = "close" => HasTailnetRule

LockInv ==
    /\ user \in Seq(UfwRules) /\ declared \in {"any", "private"}
    /\ recon \in {"idle", "open", "close"}
    /\ run = [pc |-> run.pc, close |-> run.close, open |-> run.open, tailnet |-> run.tailnet,
              tries |-> run.tries, peers |-> run.peers, n |-> run.n]
    /\ ClosedHasTailnetRule /\ BeforeClosing

\* The public rule is neither the tailnet's nor the bridges'.
LEMMA RulesDiffer == PublicSsh # TailnetSsh /\ PublicSsh # BridgeSsh
<1>1. Opt("i", {"tailscale0"}) \notin Ssh /\ Opt("s", {"bridge"}) \notin Ssh
  BY DEF Opt, Ssh
<1>2. /\ PublicSsh.conds = Ssh /\ TailnetSsh.conds = Ssh \cup {Opt("i", {"tailscale0"})}
      /\ BridgeSsh.conds = Ssh \cup {Opt("s", {"bridge"})}
  BY DEF PublicSsh, TailnetSsh, BridgeSsh, Rule
<1> QED
  BY <1>1, <1>2

\* ufw allow puts its rule in and keeps the others.
LEMMA AllowKeeps ==
  ASSUME NEW s \in Seq(UfwRules), NEW r \in UfwRules
  PROVE  /\ Allow(s, r) \in Seq(UfwRules) /\ In(Allow(s, r), r)
         /\ \A x : In(s, x) => In(Allow(s, r), x)
<1>1. CASE In(s, r)
  BY <1>1 DEF Allow
<1>2. CASE ~In(s, r)
  <2>1. Allow(s, r) = Append(s, r)
    BY <1>2 DEF Allow
  <2>2. /\ Append(s, r) \in Seq(UfwRules) /\ DOMAIN Append(s, r) = 1..(Len(s) + 1)
        /\ Append(s, r)[Len(s) + 1] = r /\ Len(s) \in Nat /\ DOMAIN s = 1..Len(s)
        /\ \A i \in 1..Len(s) : Append(s, r)[i] = s[i]
    OBVIOUS
  <2> QED
    BY <2>1, <2>2 DEF In
<1> QED
  BY <1>1, <1>2

\* A sequence without its i-th element.
LEMMA WithoutOne ==
  ASSUME NEW S, NEW s \in Seq(S), NEW i \in 1..Len(s), NEW t,
         t = SubSeq(s, 1, i - 1) \o SubSeq(s, i + 1, Len(s))
  PROVE  /\ t \in Seq(S) /\ DOMAIN t = 1..(Len(s) - 1)
         /\ \A k \in 1..(i - 1) : t[k] = s[k]
         /\ \A k \in i..(Len(s) - 1) : t[k] = s[k + 1]
<1> DEFINE n == Len(s)
           u == SubSeq(s, 1, i - 1)
           v == SubSeq(s, i + 1, n)
<1>0. n \in Nat /\ i \in 1..n /\ t = u \o v
  OBVIOUS
<1>1. i \in Int /\ n \in Int /\ 1 \in Int /\ i - 1 \in Int /\ i + 1 \in Int /\ 1 <= i /\ i <= n
  BY <1>0
<1>2. \A k \in 1..n : s[k] \in S
  OBVIOUS
<1> HIDE DEF n
<1>3. u \in Seq(S) /\ Len(u) = i - 1 /\ \A k \in 1..(i - 1) : u[k] = s[k]
  <2>1. \A k \in 1..(i - 1) : s[k] \in S
    BY <1>1, <1>2
  <2>2. /\ u \in Seq(S) /\ Len(u) = (IF 1 <= i - 1 THEN (i - 1) - 1 + 1 ELSE 0)
        /\ \A k \in 1..((i - 1) - 1 + 1) : u[k] = s[1 + k - 1]
    BY <1>1, <2>1, SubSeqProperties
  <2> HIDE DEF u
  <2>3. (i - 1) - 1 + 1 = i - 1 /\ \A k \in Int : 1 + k - 1 = k
    BY <1>1
  <2> QED
    BY <1>1, <2>2, <2>3
<1>4. v \in Seq(S) /\ Len(v) = n - i /\ \A k \in 1..(n - i) : v[k] = s[i + k]
  <2>1. \A k \in (i + 1)..n : s[k] \in S
    BY <1>1, <1>2
  <2>2. /\ v \in Seq(S) /\ Len(v) = (IF i + 1 <= n THEN n - (i + 1) + 1 ELSE 0)
        /\ \A k \in 1..(n - (i + 1) + 1) : v[k] = s[(i + 1) + k - 1]
    BY <1>1, <2>1, SubSeqProperties
  <2> HIDE DEF v
  <2>3. n - (i + 1) + 1 = n - i /\ \A k \in Int : (i + 1) + k - 1 = i + k
    BY <1>1
  <2> QED
    BY <1>1, <2>2, <2>3
<1> HIDE DEF u, v
<1>5. /\ t \in Seq(S) /\ Len(t) = Len(u) + Len(v)
      /\ \A k \in 1..(Len(u) + Len(v)) : t[k] = IF k <= Len(u) THEN u[k] ELSE v[k - Len(u)]
  <2>1. /\ u \o v \in Seq(S) /\ Len(u \o v) = Len(u) + Len(v)
        /\ \A k \in 1..(Len(u) + Len(v)) : (u \o v)[k] = IF k <= Len(u) THEN u[k] ELSE v[k - Len(u)]
    BY <1>3, <1>4, ConcatProperties, Zenon
  <2> QED
    BY <1>0, <2>1, Zenon
<1>6. Len(u) + Len(v) = n - 1
  BY <1>1, <1>3, <1>4
<1>7. DOMAIN t = 1..(n - 1)
  <2>1. t \in Seq(S) /\ Len(t) = n - 1
    BY <1>5, <1>6, Zenon
  <2>2. DOMAIN t = 1..Len(t)
    BY <2>1, LenProperties, Zenon
  <2> QED
    BY <2>1, <2>2, Zenon
<1>8. ASSUME NEW k \in 1..(i - 1) PROVE t[k] = s[k]
  <2>1. k \in 1..(n - 1) /\ k <= Len(u)
    BY <1>1, <1>3
  <2> QED
    BY <1>3, <1>5, <1>6, <2>1
<1>9. ASSUME NEW k \in i..(n - 1) PROVE t[k] = s[k + 1]
  <2>1. /\ k \in 1..(n - 1) /\ ~(k <= Len(u)) /\ k - Len(u) \in 1..(n - i)
        /\ i + (k - Len(u)) = k + 1
    BY <1>1, <1>3
  <2> QED
    BY <1>4, <1>5, <1>6, <2>1
<1> QED
  BY <1>5, <1>7, <1>8, <1>9 DEF n

\* ufw delete takes one occurrence of its rule out.
LEMMA DeleteTakesOne ==
  ASSUME NEW s \in Seq(UfwRules), NEW r, In(s, r)
  PROVE  \E i \in 1..Len(s) :
            /\ s[i] = r /\ Delete(s, r) \in Seq(UfwRules)
            /\ DOMAIN Delete(s, r) = 1..(Len(s) - 1)
            /\ \A k \in 1..(i - 1) : Delete(s, r)[k] = s[k]
            /\ \A k \in i..(Len(s) - 1) : Delete(s, r)[k] = s[k + 1]
<1>1. PICK i \in DOMAIN s : s[i] = r /\ Delete(s, r) = SubSeq(s, 1, i - 1) \o SubSeq(s, i + 1, Len(s))
  BY DEF In, Delete
<1> DEFINE t == Delete(s, r)
<1>2. t = SubSeq(s, 1, i - 1) \o SubSeq(s, i + 1, Len(s)) /\ i \in 1..Len(s)
  BY <1>1
<1> HIDE DEF t
<1>3. /\ t \in Seq(UfwRules) /\ DOMAIN t = 1..(Len(s) - 1)
      /\ \A k \in 1..(i - 1) : t[k] = s[k]
      /\ \A k \in i..(Len(s) - 1) : t[k] = s[k + 1]
  BY <1>2, WithoutOne, Zenon
<1> QED
  BY <1>1, <1>2, <1>3, Zenon DEF t

\* ufw delete keeps every rule but its own.
LEMMA DeleteKeeps ==
  ASSUME NEW s \in Seq(UfwRules), NEW r
  PROVE  /\ Delete(s, r) \in Seq(UfwRules)
         /\ \A x : x # r /\ In(s, x) => In(Delete(s, r), x)
<1>1. CASE ~In(s, r)
  BY <1>1 DEF Delete
<1>2. CASE In(s, r)
  <2> DEFINE n == Len(s)
             t == Delete(s, r)
  <2>1. PICK i \in 1..n :
           /\ s[i] = r /\ t \in Seq(UfwRules) /\ DOMAIN t = 1..(n - 1)
           /\ \A k \in 1..(i - 1) : t[k] = s[k]
           /\ \A k \in i..(n - 1) : t[k] = s[k + 1]
    BY <1>2, DeleteTakesOne
  <2>2. n \in Nat /\ DOMAIN s = 1..n
    OBVIOUS
  <2> HIDE DEF n, t
  <2>4. ASSUME NEW x, x # r, In(s, x) PROVE In(t, x)
    <3>1. PICK j \in 1..n : s[j] = x
      BY <2>2, <2>4 DEF In
    <3>2. j # i
      BY <2>1, <2>4, <3>1
    <3>3. CASE j < i
      <4>1. j \in 1..(i - 1) /\ j \in 1..(n - 1)
        BY <2>2, <3>1, <3>2, <3>3
      <4> QED
        BY <2>1, <3>1, <4>1 DEF In
    <3>4. CASE j > i
      <4>1. j - 1 \in i..(n - 1) /\ j - 1 \in 1..(n - 1) /\ (j - 1) + 1 = j
        BY <2>2, <3>1, <3>2, <3>4
      <4> QED
        BY <2>1, <3>1, <4>1 DEF In
    <3> QED
      BY <2>2, <3>2, <3>3, <3>4
  <2> QED
    BY <2>1, <2>4 DEF t
<1> QED
  BY <1>1, <1>2

\* The reconciler takes the public rule away only where the tailnet's is in.
LEMMA ReconciledKeeps ==
  ASSUME LockInv, NEW want \in BOOLEAN, ~want => HasTailnetRule
  PROVE  LET t == Reconciled(want)
         IN  /\ t \in Seq(UfwRules) /\ (In(t, PublicSsh) \/ In(t, TailnetSsh))
             /\ HasTailnetRule => In(t, TailnetSsh)
<1>1. PublicSsh \in UfwRules /\ user \in Seq(UfwRules)
  <2>1. PublicSsh \in UfwRules
    BY DEF UfwRules
  <2> QED
    BY <2>1 DEF LockInv
<1>2. CASE want
  BY <1>1, <1>2, AllowKeeps DEF Reconciled, HasTailnetRule
<1>3. CASE ~want
  BY <1>1, <1>3, DeleteKeeps, RulesDiffer DEF Reconciled, HasTailnetRule
<1> QED
  BY <1>2, <1>3

\* The run's record stays one, and the run moves on to a step.
LEMMA RunStep ==
  ASSUME LockInv
  PROVE  \A step : [run EXCEPT !.pc = step] = [pc |-> step, close |-> run.close, open |-> run.open,
                          tailnet |-> run.tailnet, tries |-> run.tries, peers |-> run.peers, n |-> run.n]
  BY DEF LockInv

\* Before the first run SSH is public, and nothing is declared to close it.
LEMMA InitLock == LockInit => LockInv
<1> SUFFICES ASSUME LockInit PROVE LockInv
  OBVIOUS
<1>1. user \in UserRules /\ declared = "any" /\ recon = "idle" /\ run = NoRun
  BY DEF LockInit
<1>2. user \in Seq({user[i] : i \in DOMAIN user}) /\ PublicOpen
  BY <1>1, LockdownAssumption DEF PublicOpen
<1>3. user \in Seq(UfwRules)
  <2>1. \A i \in DOMAIN user : user[i] \in UfwRules
    BY <1>1 DEF UfwRules
  <2>2. Len(user) \in Nat /\ DOMAIN user = 1..Len(user)
    BY <1>2
  <2>3. user = [i \in 1..Len(user) |-> user[i]]
    BY <1>2
  <2> QED
    BY <2>1, <2>2, <2>3
<1>4. run.pc = "idle" /\ run = [pc |-> run.pc, close |-> run.close, open |-> run.open,
        tailnet |-> run.tailnet, tries |-> run.tries, peers |-> run.peers, n |-> run.n]
  BY <1>1 DEF NoRun
<1> QED
  BY <1>1, <1>2, <1>3, <1>4 DEF LockInv, BeforeClosing, ClosedHasTailnetRule

\* Every task of the play, every firing and application of the reconciler, and
\* every change of the tailnet keeps the invariant.
LEMMA NextLock == ASSUME LockInv, [LockNext]_lockVars PROVE LockInv'
<1> DEFINE Rec(r) == r = [pc |-> r.pc, close |-> r.close, open |-> r.open, tailnet |-> r.tailnet,
                          tries |-> r.tries, peers |-> r.peers, n |-> r.n]
           Closing == {"allow bridges", "close", "declare private"}
<1>1. ASSUME NEW step, run' = [run EXCEPT !.pc = step] PROVE Rec(run') /\ run'.pc = step
  BY <1>1, RunStep
<1>2. ASSUME UNCHANGED <<user, declared, recon>>, Rec(run'), run'.pc \notin Closing
      PROVE  LockInv'
  BY <1>2 DEF LockInv, BeforeClosing, ClosedHasTailnetRule, PublicOpen, HasTailnetRule
<1>3. ASSUME user' \in Seq(UfwRules), Rec(run'), recon' \in {"idle", recon},
             run'.pc \in Closing => In(user', TailnetSsh),
             HasTailnetRule => In(user', TailnetSsh),
             In(user', PublicSsh) \/ In(user', TailnetSsh),
             declared' = declared \/ declared' = "any" \/ (declared' = "private" /\ HasTailnetRule)
      PROVE  LockInv'
  BY <1>3 DEF LockInv, BeforeClosing, ClosedHasTailnetRule, PublicOpen, HasTailnetRule
<1>4. ASSUME run' = [NoRun EXCEPT !.n = run.n] PROVE Rec(run') /\ run'.pc = "idle"
  <2>1. run' = [pc |-> "idle", close |-> FALSE, open |-> FALSE, tailnet |-> FALSE, tries |-> 0,
                peers |-> {}, n |-> run.n]
    BY <1>4 DEF NoRun
  <2> QED
    BY <2>1
<1>5. ASSUME NEW close \in BOOLEAN, NEW open \in BOOLEAN, NEW tailnet \in BOOLEAN,
             Apply(close, open, tailnet)
      PROVE  LockInv'
  <2>1. Rec(run') /\ run'.pc \in {"idle", "join", "open"} /\ UNCHANGED <<user, declared, recon>>
    BY <1>5 DEF Apply, NoRun, firewall
  <2> QED
    BY <1>2, <2>1
<1>6. CASE Join \/ Ping \/ Policy \/ WalkFirewall \/ Lock \/ Interface
  <2>1. UNCHANGED <<user, declared, recon>>
    BY <1>6 DEF Join, Ping, Policy, WalkFirewall, Lock, Interface, firewall
  <2>2. \E step : step \notin Closing /\ run' = [run EXCEPT !.pc = step]
    BY <1>6 DEF Join, Ping, Policy, WalkFirewall, Lock, Interface, Continue
  <2> QED
    BY <1>1, <1>2, <2>1, <2>2
<1>7. CASE AskControl
  <2>1. Rec(run') /\ run'.pc \in {"ping", "ask", "refused"} /\ UNCHANGED <<user, declared, recon>>
    BY <1>7 DEF AskControl, firewall, LockInv
  <2> QED
    BY <1>2, <2>1
<1>8. CASE Refused \/ Done \/ Fail
  <2>1. run' = [NoRun EXCEPT !.n = run.n] /\ UNCHANGED <<user, declared, recon>>
    BY <1>8 DEF Refused, Done, Fail, Over, firewall
  <2> QED
    BY <1>2, <1>4, <2>1
<1>9. ASSUME NEW r \in {PublicSsh, TailnetSsh, BridgeSsh}, user' = Allow(user, r)
      PROVE  /\ user' \in Seq(UfwRules) /\ In(user', r)
             /\ \A x : In(user, x) => In(user', x)
             /\ In(user', PublicSsh) \/ In(user', TailnetSsh)
  <2>1. r \in UfwRules /\ user \in Seq(UfwRules)
    <3>1. r \in UfwRules
      BY DEF UfwRules
    <3> QED
      BY <3>1 DEF LockInv
  <2>2. user' \in Seq(UfwRules) /\ In(user', r) /\ \A x : In(user, x) => In(user', x)
    BY <1>9, <2>1, AllowKeeps
  <2> QED
    BY <2>2 DEF LockInv, ClosedHasTailnetRule, PublicOpen, HasTailnetRule
<1>10. CASE AllowPublic
  <2>1. user' = Allow(user, PublicSsh) /\ run' = [run EXCEPT !.pc = "declare open"]
        /\ UNCHANGED <<declared, recon>>
    BY <1>10 DEF AllowPublic, Continue
  <2> QED
    BY <1>1, <1>3, <1>9, <2>1 DEF HasTailnetRule
<1>11. CASE AllowTailnet
  <2>1. user' = Allow(user, TailnetSsh) /\ run' = [run EXCEPT !.pc = "allow bridges"]
        /\ UNCHANGED <<declared, recon>>
    BY <1>11 DEF AllowTailnet, Continue
  <2> QED
    BY <1>1, <1>3, <1>9, <2>1 DEF HasTailnetRule
<1>12. CASE AllowBridges
  <2>1. /\ user' = Allow(user, BridgeSsh) /\ run.pc = "allow bridges"
        /\ run' = [run EXCEPT !.pc = IF run.close THEN "close" ELSE "done"]
        /\ UNCHANGED <<declared, recon>>
    BY <1>12 DEF AllowBridges, Continue
  <2>2. HasTailnetRule
    BY <2>1 DEF LockInv, BeforeClosing
  <2>3. Rec(run')
    BY <1>1, <2>1
  <2> QED
    BY <1>3, <1>9, <2>1, <2>2, <2>3 DEF HasTailnetRule
<1>13. CASE RemovePublic
  <2>1. /\ user' = Delete(user, PublicSsh) /\ run.pc = "close"
        /\ run' = [run EXCEPT !.pc = "declare private"] /\ UNCHANGED <<declared, recon>>
    BY <1>13 DEF RemovePublic, Continue
  <2>2. HasTailnetRule /\ user \in Seq(UfwRules)
    BY <2>1 DEF LockInv, BeforeClosing
  <2>3. user' \in Seq(UfwRules) /\ In(user', TailnetSsh)
    BY <2>1, <2>2, DeleteKeeps, RulesDiffer DEF HasTailnetRule
  <2> QED
    BY <1>1, <1>3, <2>1, <2>2, <2>3
<1>14. CASE DeclareOpen \/ DeclarePrivate
  <2>1. UNCHANGED <<user, recon>> /\ \E step \in {"restart", "interface", "done"} : run' = [run EXCEPT !.pc = step]
    BY <1>14 DEF DeclareOpen, DeclarePrivate, Declare, Continue
  <2>2. declared' = "any" \/ (declared' = "private" /\ run.pc = "declare private")
    BY <1>14 DEF DeclareOpen, DeclarePrivate, Declare
  <2>3. Rec(run') /\ run'.pc \notin Closing
    BY <1>1, <2>1
  <2>4. declared' = "private" => HasTailnetRule
    BY <2>2 DEF LockInv, BeforeClosing
  <2>5. user' = user /\ user \in Seq(UfwRules) /\ (PublicOpen \/ HasTailnetRule)
    BY <2>1 DEF LockInv, ClosedHasTailnetRule
  <2> QED
    BY <1>3, <2>1, <2>2, <2>3, <2>4, <2>5 DEF PublicOpen, HasTailnetRule
<1>15. CASE Restart
  <2>1. /\ recon' = "idle" /\ user' = Reconciled(Wanted) /\ UNCHANGED declared
        /\ \E step \in {"interface", "done"} : run' = [run EXCEPT !.pc = step]
    BY <1>15 DEF Restart, Continue
  <2>2. Wanted \in BOOLEAN /\ (~Wanted => HasTailnetRule)
    BY DEF Wanted, LockInv, ClosedHasTailnetRule
  <2>3. Rec(run') /\ run'.pc \notin Closing
    BY <1>1, <2>1
  <2> QED
    BY <1>3, <2>1, <2>2, <2>3, ReconciledKeeps
<1>16. CASE Fire
  <2>1. UNCHANGED <<user, declared, run>> /\ recon' = (IF Wanted THEN "open" ELSE "close")
    BY <1>16 DEF Fire, firewall
  <2>2. recon' = "close" => HasTailnetRule
    BY <2>1 DEF Wanted, LockInv, ClosedHasTailnetRule
  <2> QED
    BY <2>1, <2>2 DEF LockInv, ClosedHasTailnetRule, BeforeClosing, HasTailnetRule, PublicOpen
<1>17. CASE Reconcile
  <2>1. user' = Reconciled(recon = "open") /\ recon' = "idle" /\ UNCHANGED <<declared, run>> /\ recon # "idle"
    BY <1>17 DEF Reconcile
  <2>2. recon # "open" => HasTailnetRule
    BY <2>1 DEF LockInv, BeforeClosing
  <2>3. /\ user' \in Seq(UfwRules) /\ (In(user', PublicSsh) \/ In(user', TailnetSsh))
        /\ HasTailnetRule => In(user', TailnetSsh)
    BY <2>1, <2>2, ReconciledKeeps
  <2> QED
    BY <1>3, <2>1, <2>3 DEF LockInv, BeforeClosing
<1>18. CASE NetChange \/ UNCHANGED lockVars
  <2>1. UNCHANGED <<user, declared, run, recon>>
    BY <1>18 DEF NetChange, lockVars, firewall
  <2> QED
    BY <2>1 DEF LockInv, ClosedHasTailnetRule, BeforeClosing, HasTailnetRule, PublicOpen
<1> QED
  BY <1>5, <1>6, <1>7, <1>8, <1>10, <1>11, <1>12, <1>13, <1>14, <1>15, <1>16, <1>17, <1>18
  DEF LockNext, Play

\* Wherever a run stopped, and whatever the reconciler did since: the public
\* rule is gone, or is declared to go, only where the tailnet's own rule is in.
THEOREM ClosedKeepsTailnetRule == LockSpec => []ClosedHasTailnetRule
<1>1. LockInit => LockInv
  BY InitLock
<1>2. LockInv /\ [LockNext]_lockVars => LockInv'
  BY NextLock
<1>3. LockInv => ClosedHasTailnetRule
  BY DEF LockInv
<1> QED
  BY <1>1, <1>2, <1>3, PTL DEF LockSpec

-----------------------------------------------------------------------------
\* The rules that can still come, and the room for them.
Missing(s, r) == IF In(s, r) THEN 0 ELSE 1
Room(s) ==
    Len(s) + (Missing(s, PublicSsh) + Missing(s, TailnetSsh) + Missing(s, BridgeSsh)) <= MaxRules

\* What a task or the reconciler makes of ufw's rules.
Moves(s) ==
    {s, Allow(s, PublicSsh), Allow(s, TailnetSsh), Allow(s, BridgeSsh), Delete(s, PublicSsh)}

\* ufw's rules never outgrow the longest chain.
LEMMA MovesKeepRoom ==
  ASSUME NEW s \in Seq(UfwRules), Room(s)
  PROVE  \A t \in Moves(s) : Room(t)
<1> DEFINE P == PublicSsh
           T == TailnetSsh
           B == BridgeSsh
<1>1. P \in UfwRules /\ T \in UfwRules /\ B \in UfwRules
  BY DEF UfwRules
<1>2. Len(s) \in Nat /\ \A t, r : Missing(t, r) \in {0, 1}
  BY DEF Missing
<1>3. ASSUME NEW r \in {P, T, B} PROVE Room(Allow(s, r))
  <2>1. CASE In(s, r)
    BY <2>1 DEF Allow
  <2>2. CASE ~In(s, r)
    <3> DEFINE t == Allow(s, r)
    <3>1. Len(t) = Len(s) + 1
      BY <1>1, <2>2 DEF Allow
    <3>2. In(t, r) /\ \A x : In(s, x) => In(t, x)
      BY <1>1, AllowKeeps
    <3> HIDE DEF t, P, T, B
    <3>3. Missing(t, r) = 0 /\ Missing(s, r) = 1 /\ \A x : Missing(t, x) <= Missing(s, x)
      BY <2>2, <3>2 DEF Missing
    <3>4. Missing(t, P) + Missing(t, T) + Missing(t, B) + 1
             <= Missing(s, P) + Missing(s, T) + Missing(s, B)
      <4>1. /\ Missing(t, P) <= Missing(s, P) /\ Missing(t, T) <= Missing(s, T)
            /\ Missing(t, B) <= Missing(s, B)
        BY <3>3
      <4>2. /\ Missing(t, P) \in {0, 1} /\ Missing(t, T) \in {0, 1} /\ Missing(t, B) \in {0, 1}
            /\ Missing(s, P) \in {0, 1} /\ Missing(s, T) \in {0, 1} /\ Missing(s, B) \in {0, 1}
        BY <1>2
      <4>3. CASE r = P
        <5>1. Missing(t, P) = 0 /\ Missing(s, P) = 1
          BY <3>3, <4>3
        <5> QED
          BY <4>1, <4>2, <5>1
      <4>4. CASE r = T
        <5>1. Missing(t, T) = 0 /\ Missing(s, T) = 1
          BY <3>3, <4>4
        <5> QED
          BY <4>1, <4>2, <5>1
      <4>5. CASE r = B
        <5>1. Missing(t, B) = 0 /\ Missing(s, B) = 1
          BY <3>3, <4>5
        <5> QED
          BY <4>1, <4>2, <5>1
      <4> QED
        BY <4>3, <4>4, <4>5
    <3>5. Len(s) + (Missing(s, P) + Missing(s, T) + Missing(s, B)) <= MaxRules
      BY DEF Room, P, T, B
    <3>6. Len(t) + (Missing(t, P) + Missing(t, T) + Missing(t, B)) <= MaxRules
      <4>1. /\ Missing(t, P) \in Nat /\ Missing(t, T) \in Nat /\ Missing(t, B) \in Nat
            /\ Missing(s, P) \in Nat /\ Missing(s, T) \in Nat /\ Missing(s, B) \in Nat
        BY <1>2
      <4> QED
        BY <1>2, <3>1, <3>4, <3>5, <4>1, ReachabilityAssumption
    <3> QED
      BY <3>6 DEF Room, P, T, B, t
  <2> QED
    BY <2>1, <2>2
<1>4. Room(Delete(s, P))
  <2>1. CASE ~In(s, P)
    BY <2>1 DEF Delete
  <2>2. CASE In(s, P)
    <3> DEFINE t == Delete(s, P)
    <3>1. t \in Seq(UfwRules) /\ DOMAIN t = 1..(Len(s) - 1) /\ Len(s) >= 1
      BY <1>2, <2>2, DeleteTakesOne
    <3>2. Len(t) = Len(s) - 1
      BY <1>2, <3>1
    <3>3. (In(s, T) => In(t, T)) /\ (In(s, B) => In(t, B))
      BY DeleteKeeps, RulesDiffer
    <3> HIDE DEF t, P, T, B
    <3>4. /\ Missing(s, P) = 0 /\ Missing(t, T) <= Missing(s, T) /\ Missing(t, B) <= Missing(s, B)
          /\ Missing(t, P) \in {0, 1} /\ Missing(t, T) \in {0, 1} /\ Missing(t, B) \in {0, 1}
          /\ Missing(s, T) \in {0, 1} /\ Missing(s, B) \in {0, 1}
      BY <2>2, <3>3 DEF Missing
    <3>5. Len(s) + (Missing(s, P) + Missing(s, T) + Missing(s, B)) <= MaxRules
      BY DEF Room, P, T, B
    <3>6. Len(t) + (Missing(t, P) + Missing(t, T) + Missing(t, B)) <= MaxRules
      BY <1>2, <3>2, <3>4, <3>5, ReachabilityAssumption
    <3> QED
      BY <3>6 DEF Room, P, T, B, t
  <2> QED
    BY <2>1, <2>2
<1> QED
  BY <1>3, <1>4 DEF Moves

\* A list with room is no longer than a chain can be.
LEMMA RoomFits == \A s \in Seq(UfwRules) : Room(s) => Len(s) \in 0..MaxRules
<1> TAKE s \in Seq(UfwRules)
<1>1. /\ Len(s) \in Nat /\ Missing(s, PublicSsh) \in Nat /\ Missing(s, TailnetSsh) \in Nat
      /\ Missing(s, BridgeSsh) \in Nat
  BY DEF Missing
<1> QED
  BY <1>1, ReachabilityAssumption DEF Room

\* The rules of a run accept the packet where they hold, the public rule and
\* the tailnet's surely.
LEMMA SshRules ==
  /\ \A own : RuleMatches(PublicSsh, own) = "yes" /\ RuleMatches(TailnetSsh, own) = "yes"
  /\ \A r \in {PublicSsh, TailnetSsh, BridgeSsh} : r.target = "ACCEPT"
<1>1. ASSUME NEW own, NEW c \in Ssh \cup {Opt("i", {"tailscale0"})}
      PROVE  (IF c.not THEN Negated(Told(c, own)) ELSE Told(c, own)) = "yes"
  <2>1. c \in {Opt("p", {"tcp"}), Opt("dport", {22}), Opt("i", {"tailscale0"})}
    BY DEF Ssh
  <2>2. CASE c = Opt("p", {"tcp"})
    BY <2>2 DEF Opt, Told, SshPacket
  <2>3. CASE c = Opt("dport", {22})
    BY <2>3 DEF Opt, Told, SshPacket
  <2>4. CASE c = Opt("i", {"tailscale0"})
    BY <2>4 DEF Opt, Told, SshPacket
  <2> QED
    BY <2>1, <2>2, <2>3, <2>4
<1>2. ASSUME NEW own, NEW r \in {PublicSsh, TailnetSsh} PROVE RuleMatches(r, own) = "yes"
  <2>1. r.conds \subseteq Ssh \cup {Opt("i", {"tailscale0"})}
    BY DEF PublicSsh, TailnetSsh, Rule
  <2>2. \A v \in Verdicts(r, own) : v = "yes"
    <3> TAKE v \in Verdicts(r, own)
    <3>1. PICK c \in r.conds : v = IF c.not THEN Negated(Told(c, own)) ELSE Told(c, own)
      BY DEF Verdicts
    <3> QED
      BY <1>1, <2>1, <3>1
  <2> QED
    BY <2>2 DEF RuleMatches
<1>3. \A r \in {PublicSsh, TailnetSsh, BridgeSsh} : r.target = "ACCEPT"
  BY DEF PublicSsh, TailnetSsh, BridgeSsh, Rule
<1> QED
  BY <1>2, <1>3

\* A host's firewall around any list of ufw's.
LEMMA FirewallFacts ==
  ASSUME frame \in Frames, NEW f \in Families, NEW s \in Seq(UfwRules), Len(s) \in 0..MaxRules
  PROVE  /\ IsRuleset(Firewall(f, s)) /\ DOMAIN Firewall(f, s).rules = DOMAIN frame[f].rules
         /\ "user" \in DOMAIN frame[f].rules /\ Firewall(f, s).rules["user"] = s
         /\ \A c \in DOMAIN frame[f].rules : c # "user" => Firewall(f, s).rules[c] = frame[f].rules[c]
         /\ Firewall(f, s).policy = frame[f].policy
<1>1. IsRuleset(frame[f]) /\ "user" \in DOMAIN frame[f].rules
  BY LockdownAssumption
<1> DEFINE chains == DOMAIN frame[f].rules
           set == Firewall(f, s)
<1>2. set.rules = [frame[f].rules EXCEPT !["user"] = s] /\ set.policy = frame[f].policy
  BY DEF Firewall
<1> HIDE DEF set
<1>3. /\ DOMAIN set.rules = chains /\ set.rules["user"] = s
      /\ \A c \in chains : c # "user" => set.rules[c] = frame[f].rules[c]
  BY <1>1, <1>2
<1>4. IsRuleset(set)
  <2>1. \A c \in chains : Len(set.rules[c]) \in 0..MaxRules
    BY <1>1, <1>3 DEF IsRuleset
  <2> QED
    BY <1>1, <1>2, <1>3, <2>1 DEF IsRuleset
<1> QED
  BY <1>1, <1>2, <1>3, <1>4 DEF set

\* The chains of a host's firewall the packet may be sent through.
Sent(f, met) ==
    LET chains == DOMAIN frame[f].rules
    IN  /\ met \subseteq chains /\ \A k \in 1..Len(Inbound) : Inbound[k] \in met
        /\ \A c \in met, i \in 1..MaxRules :
              i <= Len(frame[f].rules[c]) /\ Met(frame[f].rules[c], OwnIn(f), i) =>
                  Followed(frame[f].rules[c][i], OwnIn(f), chains, met)
        /\ \A u \in UserRules : \A i \in DOMAIN u : Followed(u[i], OwnIn(f), chains, met)

\* There they are.
LEMMA SentChains ==
  ASSUME NothingPassedOver, frame \in Frames, NEW f \in Families
  PROVE  \E met : Sent(f, met)
<1>1. PICK met \in SUBSET DOMAIN frame[f].rules :
        LET chains == DOMAIN frame[f].rules
        IN  /\ \A k \in 1..Len(Inbound) : Inbound[k] \in met
            /\ \A c \in met, i \in 1..MaxRules :
                  i <= Len(frame[f].rules[c]) /\ Met(frame[f].rules[c], OwnIn(f), i) =>
                      Followed(frame[f].rules[c][i], OwnIn(f), chains, met)
            /\ \A u \in UserRules : \A i \in DOMAIN u : Followed(u[i], OwnIn(f), chains, met)
  BY Zenon DEF NothingPassedOver
<1>2. Sent(f, met)
  BY <1>1, Zenon DEF Sent
<1> QED
  BY <1>2

\* Every rule ufw can hold is one the walk does not pass over.
LEMMA UfwFollowed ==
  ASSUME frame \in Frames, NEW f \in Families, NEW r \in UfwRules, NEW met, Sent(f, met)
  PROVE  Followed(r, OwnIn(f), DOMAIN frame[f].rules, met)
<1>1. CASE r \in {PublicSsh, TailnetSsh, BridgeSsh}
  <2>1. r.target = "ACCEPT" /\ "ACCEPT" \notin DOMAIN frame[f].rules
    BY <1>1, SshRules, LockdownAssumption DEF IsRuleset
  <2> QED
    BY <2>1 DEF Followed
<1>2. CASE r \notin {PublicSsh, TailnetSsh, BridgeSsh}
  <2>1. PICK u \in UserRules : \E i \in DOMAIN u : r = u[i]
    BY <1>2 DEF UfwRules
  <2> QED
    BY <2>1 DEF Sent
<1> QED
  BY <1>1, <1>2

\* The walk is right about the firewall it walked.
LEMMA WalkRight ==
  ASSUME NothingPassedOver, frame \in Frames, NEW f \in Families, NEW s \in Seq(UfwRules),
         Len(s) \in 0..MaxRules, Walk(Firewall(f, s), OwnIn(f))
  PROVE  KernelAccepts(Firewall(f, s), OwnIn(f))
<1> DEFINE set == Firewall(f, s)
           chains == DOMAIN frame[f].rules
           own == OwnIn(f)
           upto == [c \in chains |-> MaxRules + 1]
<1>1. /\ IsRuleset(set) /\ DOMAIN set.rules = chains /\ "user" \in chains /\ set.rules["user"] = s
      /\ \A c \in chains : c # "user" => set.rules[c] = frame[f].rules[c]
  BY FirewallFacts
<1>2. Walk(set, own)
  OBVIOUS
<1>m. PICK met : Sent(f, met)
  BY SentChains
<1>w. /\ met \subseteq chains /\ \A k \in 1..Len(Inbound) : Inbound[k] \in met
      /\ \A c \in met, i \in 1..MaxRules :
            i <= Len(frame[f].rules[c]) /\ Met(frame[f].rules[c], own, i) =>
                Followed(frame[f].rules[c][i], own, chains, met)
  BY <1>m DEF Sent
<1>u. \A r \in UfwRules : Followed(r, own, chains, met)
  BY <1>m, UfwFollowed
<1>n. MaxRules + 1 \in 0..MaxRules + 1 /\ ~(MaxRules + 1 <= MaxRules)
  BY ReachabilityAssumption
<1> HIDE DEF set, own
<1>3. ASSUME NEW c \in met, NEW i \in 1..MaxRules + 1, ~(i > Len(set.rules[c]))
      PROVE  /\ i <= Len(set.rules[c])
             /\ Met(set.rules[c], own, i) => Followed(set.rules[c][i], own, chains, met)
  <2>1. Len(set.rules[c]) \in 0..MaxRules /\ i <= Len(set.rules[c]) /\ i \in 1..MaxRules
    BY <1>1, <1>3, <1>w, ReachabilityAssumption DEF IsRuleset
  <2>2. CASE c = "user"
    <3>1. s[i] \in UfwRules /\ set.rules[c][i] = s[i]
      BY <1>1, <2>1, <2>2
    <3> QED
      BY <1>u, <2>1, <3>1
  <2>3. CASE c # "user"
    BY <1>1, <1>w, <2>1, <2>3
  <2> QED
    BY <2>2, <2>3
<1>4. \A c \in met : Agrees(set, set, own, met, c, MaxRules + 1)
  BY <1>1, <1>3, <1>n DEF Agrees
<1>5. Alike(set, set, own, met, upto)
  BY <1>1, <1>4, <1>w DEF Alike
<1> HIDE DEF upto
<1>6. KernelAccepts(set, own)
  BY <1>1, <1>2, <1>5, AlikeAccepted
<1> QED
  BY <1>6 DEF set, own

-----------------------------------------------------------------------------
\* The first n rules of a host's own list stay in front, whatever the runs do;
\* behind them, no rule keeps the packet out.
Splits(u, n) == n \in 0..Len(u) /\ \A k \in 1..n : u[k] \notin {PublicSsh, TailnetSsh}
Begins(u, n, s) ==
    /\ n <= Len(s) /\ \A k \in 1..n : s[k] = u[k]
    /\ \A k \in (n + 1)..Len(s) : LetsOn(s[k])

\* Where one list passed the walk, the kernel lets SSH in through any other.
LEMMA WalkCarries ==
  ASSUME NothingPassedOver, frame \in Frames, NEW f \in Families,
         NEW u \in UserRules, NEW n \in Nat, Splits(u, n),
         NEW s \in Seq(UfwRules), Len(s) \in 0..MaxRules, Begins(u, n, s),
         NEW t \in Seq(UfwRules), Len(t) \in 0..MaxRules, Begins(u, n, t),
         In(t, PublicSsh) \/ In(t, TailnetSsh), Walk(Firewall(f, s), OwnIn(f))
  PROVE  KernelAccepts(Firewall(f, t), OwnIn(f))
<1> DEFINE w == Firewall(f, s)
           k == Firewall(f, t)
           chains == DOMAIN frame[f].rules
           own == OwnIn(f)
           upto == [c \in chains |-> IF c = "user" THEN n ELSE MaxRules + 1]
<1>1. /\ IsRuleset(w) /\ DOMAIN w.rules = chains /\ "user" \in chains /\ w.rules["user"] = s
      /\ \A c \in chains : c # "user" => w.rules[c] = frame[f].rules[c]
      /\ IsRuleset(k) /\ DOMAIN k.rules = chains /\ k.rules["user"] = t
      /\ \A c \in chains : c # "user" => k.rules[c] = frame[f].rules[c]
      /\ w.policy = k.policy
  BY FirewallFacts
<1>2. Walk(w, own)
  OBVIOUS
<1>m. PICK met : Sent(f, met)
  BY SentChains
<1>w. /\ met \subseteq chains /\ \A j \in 1..Len(Inbound) : Inbound[j] \in met
      /\ \A c \in met, i \in 1..MaxRules :
            i <= Len(frame[f].rules[c]) /\ Met(frame[f].rules[c], own, i) =>
                Followed(frame[f].rules[c][i], own, chains, met)
  BY <1>m DEF Sent
<1>u. \A r \in UfwRules : Followed(r, own, chains, met)
  BY <1>m, UfwFollowed
<1>l. \A r : LetsOn(r) => Lets(r, own, chains)
  BY DEF LetsOn, Lets
<1>n. /\ MaxRules + 1 \in 0..MaxRules + 1 /\ ~(MaxRules + 1 <= MaxRules)
      /\ n \in 0..MaxRules + 1 /\ n <= Len(s) /\ n <= Len(t)
  BY ReachabilityAssumption DEF Begins
<1> HIDE DEF w, k, own
<1>3. ASSUME NEW c \in met, c # "user" PROVE Agrees(w, k, own, met, c, upto[c])
  <2>1. upto[c] = MaxRules + 1 /\ w.rules[c] = k.rules[c] /\ k.rules[c] = frame[f].rules[c]
    BY <1>1, <1>3, <1>w
  <2>2. ASSUME NEW i \in 1..MaxRules + 1, ~(i > Len(k.rules[c]))
        PROVE  /\ i <= Len(k.rules[c])
               /\ Met(k.rules[c], own, i) => Followed(k.rules[c][i], own, chains, met)
    <3>1. Len(k.rules[c]) \in 0..MaxRules
      BY <1>1, <1>w DEF IsRuleset
    <3>2. i <= Len(k.rules[c]) /\ i \in 1..MaxRules
      BY <2>2, <3>1, ReachabilityAssumption
    <3> QED
      BY <1>w, <2>1, <3>2
  <2> HIDE DEF upto
  <2> QED
    BY <1>1, <1>n, <2>1, <2>2 DEF Agrees
<1>4. Sure(k, own, "user", n + 1)
  <2>1. \A j \in (n + 1)..Len(t) : Lets(t[j], own, chains)
    BY <1>l DEF Begins
  <2>2. PICK j \in 1..Len(t) : t[j] \in {PublicSsh, TailnetSsh}
    BY DEF In
  <2>3. ~(j <= n)
    <3> SUFFICES ASSUME j <= n PROVE FALSE
      OBVIOUS
    <3>1. j \in 1..n
      OBVIOUS
    <3> QED
      BY <2>2, <3>1 DEF Begins, Splits
  <2>4. j \in (n + 1)..Len(t)
    BY <2>3
  <2>5. RuleMatches(t[j], own) = "yes" /\ t[j].target = "ACCEPT"
    BY <2>2, SshRules
  <2> QED
    BY <1>1, <2>1, <2>4, <2>5 DEF Sure
<1>5. Agrees(w, k, own, met, "user", n)
  <2>1. ASSUME NEW i \in 1..n
        PROVE  i <= Len(s) /\ i <= Len(t) /\ s[i] = t[i] /\ Followed(t[i], own, chains, met)
    <3>1. i <= Len(s) /\ i <= Len(t) /\ s[i] = t[i]
      BY <1>n DEF Begins
    <3>2. t[i] \in UfwRules
      BY <3>1
    <3> QED
      BY <1>u, <3>1, <3>2
  <2> QED
    BY <1>1, <1>4, <1>n, <2>1 DEF Agrees
<1>6. Alike(w, k, own, met, upto)
  <2>1. upto["user"] = n
    BY <1>1
  <2> HIDE DEF upto
  <2> QED
    BY <1>1, <1>3, <1>5, <1>w, <2>1 DEF Alike
<1> HIDE DEF upto
<1>7. KernelAccepts(k, own)
  BY <1>1, <1>2, <1>6, AlikeAccepted
<1> QED
  BY <1>7 DEF k, own

\* A list that begins so goes on to.
LEMMA MovesBegin ==
  ASSUME NEW u, NEW n \in Nat, Splits(u, n), NEW s \in Seq(UfwRules), Begins(u, n, s)
  PROVE  \A t \in Moves(s) : t \in Seq(UfwRules) /\ Begins(u, n, t)
<1>1. ASSUME NEW r \in {PublicSsh, TailnetSsh, BridgeSsh}
      PROVE  Allow(s, r) \in Seq(UfwRules) /\ Begins(u, n, Allow(s, r))
  <2>1. r \in UfwRules
    BY DEF UfwRules
  <2>2. CASE In(s, r)
    BY <2>2 DEF Allow
  <2>3. CASE ~In(s, r)
    <3> DEFINE t == Allow(s, r)
    <3>1. /\ t \in Seq(UfwRules) /\ Len(t) = Len(s) + 1 /\ t[Len(s) + 1] = r /\ Len(s) \in Nat
          /\ \A k \in 1..Len(s) : t[k] = s[k]
      BY <2>1, <2>3 DEF Allow
    <3>2. LetsOn(r)
      <4>1. r.target = "ACCEPT" /\ \A fr \in Frames, f \in Families : "ACCEPT" \notin DOMAIN fr[f].rules
        BY SshRules, LockdownAssumption DEF IsRuleset
      <4> QED
        BY <4>1 DEF LetsOn
    <3> HIDE DEF t
    <3>3. n <= Len(s) /\ \A k \in 1..n : k \in 1..Len(s) /\ s[k] = u[k]
      BY <3>1 DEF Begins
    <3>4. ASSUME NEW k \in (n + 1)..Len(t) PROVE LetsOn(t[k])
      <4>1. CASE k = Len(s) + 1
        BY <3>1, <3>2, <4>1
      <4>2. CASE k # Len(s) + 1
        <5>1. k \in (n + 1)..Len(s) /\ k \in 1..Len(s)
          BY <3>1, <4>2
        <5> QED
          BY <3>1, <5>1 DEF Begins
      <4> QED
        BY <4>1, <4>2
    <3>5. Begins(u, n, t)
      <4>1. n <= Len(t)
        BY <3>1, <3>3
      <4> QED
        BY <3>1, <3>3, <3>4, <4>1 DEF Begins
    <3> QED
      BY <3>1, <3>5 DEF t
  <2> QED
    BY <2>2, <2>3
<1>2. Delete(s, PublicSsh) \in Seq(UfwRules) /\ Begins(u, n, Delete(s, PublicSsh))
  <2>1. CASE ~In(s, PublicSsh)
    BY <2>1 DEF Delete
  <2>2. CASE In(s, PublicSsh)
    <3> DEFINE t == Delete(s, PublicSsh)
               m == Len(s)
    <3>1. PICK i \in 1..m :
             /\ s[i] = PublicSsh /\ t \in Seq(UfwRules) /\ DOMAIN t = 1..(m - 1)
             /\ \A k \in 1..(i - 1) : t[k] = s[k]
             /\ \A k \in i..(m - 1) : t[k] = s[k + 1]
      BY <2>2, DeleteTakesOne
    <3>2. m \in Nat
      OBVIOUS
    <3>3. Len(t) = m - 1
      BY <3>1, <3>2
    <3> HIDE DEF t, m
    <3>4. n < i
      <4> SUFFICES ASSUME ~(n < i) PROVE FALSE
        OBVIOUS
      <4>1. i \in 1..n
        BY <3>2
      <4> QED
        BY <3>1, <4>1 DEF Begins, Splits
    <3>5. \A k \in 1..n : k \in 1..(i - 1) /\ s[k] = u[k]
      BY <3>4 DEF Begins
    <3>6. ASSUME NEW k \in (n + 1)..(m - 1) PROVE LetsOn(t[k])
      <4>1. CASE k < i
        <5>1. k \in 1..(i - 1) /\ k \in (n + 1)..m
          BY <3>2, <4>1
        <5> QED
          BY <3>1, <5>1 DEF Begins, m
      <4>2. CASE ~(k < i)
        <5>1. k \in i..(m - 1) /\ k + 1 \in (n + 1)..m
          BY <3>2, <4>2
        <5> QED
          BY <3>1, <5>1 DEF Begins, m
      <4> QED
        BY <4>1, <4>2
    <3>7. n <= m - 1
      BY <3>2, <3>4
    <3>8. Begins(u, n, t)
      BY <3>1, <3>3, <3>5, <3>6, <3>7 DEF Begins
    <3> QED
      BY <3>1, <3>8 DEF t
  <2> QED
    BY <2>1, <2>2
<1> QED
  BY <1>1, <1>2 DEF Moves

-----------------------------------------------------------------------------
WalkInv == LockInv /\ frame \in Frames /\ Room(user)

\* The frame stays, and ufw's rules change by one rule of a run.
LEMMA UserMoves == ASSUME [LockNext]_lockVars PROVE frame' = frame /\ user' \in Moves(user)
<1> USE DEF firewall, Moves
<1>1. ASSUME NEW close \in BOOLEAN, NEW open \in BOOLEAN, NEW tailnet \in BOOLEAN,
             Apply(close, open, tailnet)
      PROVE  frame' = frame /\ user' = user
  BY <1>1 DEF Apply
<1>2. CASE \/ Join \/ AskControl \/ Ping \/ Policy \/ WalkFirewall \/ Refused \/ Lock
           \/ Interface \/ Done \/ Fail
  BY <1>2 DEF Join, AskControl, Ping, Policy, WalkFirewall, Refused, Lock, Interface, Done, Fail
<1>3. CASE AllowPublic \/ AllowTailnet \/ AllowBridges \/ RemovePublic
  BY <1>3 DEF AllowPublic, AllowTailnet, AllowBridges, RemovePublic
<1>4. CASE DeclareOpen \/ DeclarePrivate
  BY <1>4 DEF DeclareOpen, DeclarePrivate, Declare
<1>5. CASE Restart \/ Reconcile
  BY <1>5 DEF Restart, Reconcile, Reconciled
<1>6. CASE Fire \/ NetChange \/ UNCHANGED lockVars
  BY <1>6 DEF Fire, NetChange, lockVars
<1> QED
  BY <1>1, <1>2, <1>3, <1>4, <1>5, <1>6 DEF LockNext, Play

\* A host's first list leaves room for the rules of a run.
LEMMA InitWalk == LockInit => WalkInv
<1> SUFFICES ASSUME LockInit PROVE WalkInv
  OBVIOUS
<1>1. LockInv /\ frame \in Frames /\ user \in UserRules
  BY InitLock DEF LockInit
<1>2. Missing(user, PublicSsh) = 0 /\ Len(user) + 2 <= MaxRules /\ Len(user) \in Nat
  <2>1. In(user, PublicSsh) /\ Len(user) + 2 <= MaxRules
    BY <1>1, LockdownAssumption
  <2>2. Len(user) \in Nat
    BY <1>1 DEF LockInv
  <2> QED
    BY <2>1, <2>2 DEF Missing
<1>3. Missing(user, TailnetSsh) \in {0, 1} /\ Missing(user, BridgeSsh) \in {0, 1}
  BY DEF Missing
<1>4. Room(user)
  BY <1>2, <1>3, ReachabilityAssumption DEF Room
<1> QED
  BY <1>1, <1>4 DEF WalkInv

\* Every step keeps the frame, and room in the user chain.
LEMMA NextWalk == ASSUME WalkInv, [LockNext]_lockVars PROVE WalkInv'
<1>1. LockInv'
  BY NextLock DEF WalkInv
<1>2. frame' = frame /\ user' \in Moves(user) /\ user \in Seq(UfwRules) /\ Room(user)
  BY UserMoves DEF WalkInv, LockInv
<1>3. \A t \in Moves(user) : Room(t)
  BY <1>2, MovesKeepRoom
<1>4. Room(user')
  BY <1>2, <1>3
<1> QED
  BY <1>1, <1>2, <1>4 DEF WalkInv, Room, Missing, In

\* For any firewall in which SSH on tailscale0 meets no rule that returns or goes
\* to another chain on a condition the walk cannot decide (the rules behind one
\* that surely ends its chain, as in ufw's before.rules, and the chains nothing
\* sends it to may hold any), wherever the runs left ufw's rules: where
\* walk_inbound reports nothing, the kernel lets SSH in on tailscale0, whatever the
\* rules the walk could not decide do.
THEOREM WalkIsSound == ASSUME NothingPassedOver PROVE LockSpec => []WalkSound
<1>1. LockInit => WalkInv
  BY InitWalk
<1>2. WalkInv /\ [LockNext]_lockVars => WalkInv'
  BY NextWalk
<1>3. WalkInv => WalkSound
  <2> SUFFICES ASSUME WalkInv, NEW f \in Families, Walk(Firewall(f, user), OwnIn(f))
               PROVE  KernelAccepts(Firewall(f, user), OwnIn(f))
    BY DEF WalkSound
  <2>1. user \in Seq(UfwRules) /\ frame \in Frames /\ Len(user) \in 0..MaxRules
    BY RoomFits DEF WalkInv, LockInv
  <2> QED
    BY <2>1, WalkRight
<1> QED
  BY <1>1, <1>2, <1>3, PTL DEF LockSpec

-----------------------------------------------------------------------------
\* What the check asked of the tailnet, and the peers it asked of.
Heard == net.running /\ net.seen
Peers == EligiblePeers(net.online, Tags, Family)
Checking == {"ping", "policy", "walk"}

CheckInv ==
    /\ proved = "asking" /\ run.pc \in Checking => Heard /\ run.peers = Peers
    /\ proved = "asking" /\ run.pc = "walk" => PolicyLets(net.policy, Peers, Own, Family)
    /\ proved = "yes" => Heard /\ PolicyLets(net.policy, Peers, Own, Family)

\* The lists a passed walk answers for.
Covered(u, n) ==
    \A s \in Seq(UfwRules) :
        Len(s) \in 0..MaxRules /\ Begins(u, n, s) /\ (In(s, PublicSsh) \/ In(s, TailnetSsh)) =>
            \A f \in Families : KernelAccepts(Firewall(f, s), OwnIn(f))

ListInv ==
    \E u \in UserRules, n \in Nat :
        Splits(u, n) /\ Begins(u, n, user) /\ (proved = "yes" => Covered(u, n))

\* The check's answers stay true of a tailnet that stands still.
LEMMA NextCheck == ASSUME WalkInv, CheckInv, [LockNext]_lockVars PROVE CheckInv'
<1> USE DEF aux, Checking
<1>0. \A step : [run EXCEPT !.pc = step].pc = step /\ [run EXCEPT !.pc = step].peers = run.peers
  BY RunStep DEF WalkInv
<1>1. ASSUME net' = net, proved' = proved, run'.pc \notin Checking PROVE CheckInv'
  BY <1>1 DEF CheckInv, Heard, Peers
<1>2. ASSUME proved' = "no" PROVE CheckInv'
  BY <1>2 DEF CheckInv
<1>3. ASSUME NEW close \in BOOLEAN, NEW open \in BOOLEAN, NEW tailnet \in BOOLEAN,
             Apply(close, open, tailnet)
      PROVE  CheckInv'
  BY <1>2, <1>3 DEF Apply
<1>4. CASE AskControl
  <2>1. /\ proved' = "asking" /\ net' = net /\ run'.peers = Peers /\ run'.pc \in {"ping", "ask", "refused"}
        /\ run'.pc = "ping" => Heard
    BY <1>4 DEF AskControl, WalkInv, LockInv, Peers, Heard
  <2> QED
    BY <2>1 DEF CheckInv, Peers, Heard
<1>5. CASE Ping
  <2>1. /\ run.pc = "ping" /\ proved' = proved /\ net' = net /\ run'.peers = run.peers
        /\ run'.pc \in {"policy", "ask", "refused"}
    BY <1>0, <1>5 DEF Ping, Continue
  <2> QED
    BY <2>1 DEF CheckInv, Peers, Heard
<1>6. CASE Policy
  <2>1. /\ run.pc = "policy" /\ proved' = proved /\ net' = net /\ run'.peers = run.peers
        /\ run'.pc \in {"walk", "refused"}
        /\ run'.pc = "walk" => PolicyLets(net.policy, run.peers, Own, Family)
    BY <1>0, <1>6 DEF Policy, Continue
  <2> QED
    BY <2>1 DEF CheckInv, Peers, Heard
<1>7. CASE WalkFirewall
  <2>1. /\ run.pc = "walk" /\ net' = net /\ run'.pc \in {"lock", "refused"}
        /\ proved' \in {"yes", "no"} /\ (proved' = "yes" => proved = "asking")
    BY <1>0, <1>7 DEF WalkFirewall, Continue
  <2> QED
    BY <2>1 DEF CheckInv, Peers, Heard
<1>8. CASE Join \/ Lock \/ AllowPublic \/ Interface \/ AllowTailnet \/ AllowBridges \/ RemovePublic
  <2>1. net' = net /\ proved' = proved /\ \E step : step \notin Checking /\ run' = [run EXCEPT !.pc = step]
    BY <1>8 DEF Join, Lock, AllowPublic, Interface, AllowTailnet, AllowBridges, RemovePublic, Continue
  <2> QED
    BY <1>0, <1>1, <2>1
<1>9. CASE DeclareOpen \/ DeclarePrivate \/ Restart
  <2>1. net' = net /\ proved' = proved /\ \E step : step \notin Checking /\ run' = [run EXCEPT !.pc = step]
    BY <1>9 DEF DeclareOpen, DeclarePrivate, Declare, Restart, Continue
  <2> QED
    BY <1>0, <1>1, <2>1
<1>10. CASE Refused \/ Done \/ Fail
  <2>1. net' = net /\ proved' = proved /\ run' = [NoRun EXCEPT !.n = run.n]
    BY <1>10 DEF Refused, Done, Fail, Over
  <2>2. run'.pc = "idle"
    BY <2>1 DEF NoRun
  <2> QED
    BY <1>1, <2>1, <2>2
<1>11. CASE Fire \/ Reconcile \/ UNCHANGED lockVars
  <2>1. net' = net /\ proved' = proved /\ run' = run
    BY <1>11 DEF Fire, Reconcile, lockVars
  <2> QED
    BY <2>1 DEF CheckInv, Peers, Heard
<1>12. CASE NetChange
  BY <1>2, <1>12 DEF NetChange
<1> QED
  BY <1>3, <1>4, <1>5, <1>6, <1>7, <1>8, <1>9, <1>10, <1>11, <1>12 DEF LockNext, Play

\* Only a walk that reports nothing proves anything.
LEMMA ProvedByWalk ==
  ASSUME [LockNext]_lockVars, proved' = "yes"
  PROVE  proved = "yes" \/ \A f \in Families : Walk(Firewall(f, user), OwnIn(f))
<1> USE DEF aux
<1>1. ASSUME NEW close \in BOOLEAN, NEW open \in BOOLEAN, NEW tailnet \in BOOLEAN,
             Apply(close, open, tailnet)
      PROVE  FALSE
  BY <1>1 DEF Apply
<1>2. CASE Join \/ Ping \/ Policy \/ Refused \/ Lock \/ Interface \/ Done \/ Fail
  BY <1>2 DEF Join, Ping, Policy, Refused, Lock, Interface, Done, Fail, Over
<1>3. CASE AllowPublic \/ AllowTailnet \/ AllowBridges \/ RemovePublic \/ Restart \/ Reconcile \/ Fire
  BY <1>3 DEF AllowPublic, AllowTailnet, AllowBridges, RemovePublic, Restart, Reconcile, Fire
<1>4. CASE DeclareOpen \/ DeclarePrivate \/ UNCHANGED lockVars
  BY <1>4 DEF DeclareOpen, DeclarePrivate, Declare, lockVars
<1>5. CASE AskControl \/ NetChange
  BY <1>5 DEF AskControl, NetChange
<1>6. CASE WalkFirewall
  BY <1>6 DEF WalkFirewall
<1> QED
  BY <1>1, <1>2, <1>3, <1>4, <1>5, <1>6 DEF LockNext, Play

\* A host's first list, cut before the first rule that lets SSH in.
LEMMA InitList == ASSUME NothingBehind PROVE LockInit => ListInv
<1> SUFFICES ASSUME LockInit PROVE ListInv
  OBVIOUS
<1>1. user \in UserRules /\ proved = "no"
  BY DEF LockInit
<1>2. In(user, PublicSsh) /\ user \in Seq({user[i] : i \in DOMAIN user})
  BY <1>1, LockdownAssumption
<1>3. Len(user) \in Nat /\ DOMAIN user = 1..Len(user)
  BY <1>2
<1> DEFINE I == {i \in 1..Len(user) : user[i] \in {PublicSsh, TailnetSsh}}
<1>4. I # {} /\ I \in SUBSET Nat
  BY <1>2, <1>3 DEF In
<1> HIDE DEF I
<1>5. PICK x \in I : \A y \in I : x <= y
  BY <1>4, LeastNat
<1>6. x \in 1..Len(user) /\ user[x] \in {PublicSsh, TailnetSsh}
  BY <1>5 DEF I
<1> DEFINE n == x - 1
<1>7. n \in 0..Len(user) /\ n \in Nat /\ n <= Len(user)
  BY <1>3, <1>6
<1>8. Splits(user, n)
  <2> SUFFICES ASSUME NEW k \in 1..n PROVE user[k] \notin {PublicSsh, TailnetSsh}
    BY <1>7 DEF Splits
  <2>1. k \in 1..Len(user) /\ k < x
    BY <1>3, <1>6
  <2>2. k \notin I
    BY <1>3, <1>5, <1>6, <2>1
  <2> QED
    BY <2>1, <2>2 DEF I
<1>9. Begins(user, n, user)
  <2> SUFFICES ASSUME NEW k \in (n + 1)..Len(user) PROVE LetsOn(user[k])
    BY <1>7 DEF Begins
  <2>1. k \in 1..Len(user) /\ (k = x \/ x < k)
    BY <1>3, <1>6
  <2>2. CASE x < k
    BY <1>1, <1>3, <1>6, <2>1, <2>2 DEF NothingBehind
  <2>3. CASE k = x
    <3>1. user[k].target = "ACCEPT" /\ \A fr \in Frames, f \in Families : "ACCEPT" \notin DOMAIN fr[f].rules
      BY <1>6, <2>3, SshRules, LockdownAssumption DEF IsRuleset
    <3> QED
      BY <3>1 DEF LetsOn
  <2> QED
    BY <2>1, <2>2, <2>3
<1> HIDE DEF n
<1> QED
  BY <1>1, <1>7, <1>8, <1>9 DEF ListInv

\* What a passed walk answers for, it goes on to, whatever is done to ufw's rules.
LEMMA NextList ==
  ASSUME NothingPassedOver, WalkInv, ListInv, [LockNext]_lockVars PROVE ListInv'
<1>1. PICK u \in UserRules, n \in Nat :
         Splits(u, n) /\ Begins(u, n, user) /\ (proved = "yes" => Covered(u, n))
  BY DEF ListInv
<1>2. frame' = frame /\ user' \in Moves(user)
  BY UserMoves
<1>3. user \in Seq(UfwRules) /\ frame \in Frames /\ Len(user) \in 0..MaxRules
  BY RoomFits DEF WalkInv, LockInv
<1>4. Begins(u, n, user')
  BY <1>1, <1>2, <1>3, MovesBegin
<1>5. ASSUME proved' = "yes" PROVE Covered(u, n)
  <2>1. CASE proved = "yes"
    BY <1>1, <2>1
  <2>2. CASE \A f \in Families : Walk(Firewall(f, user), OwnIn(f))
    BY <1>1, <1>3, <2>2, WalkCarries DEF Covered
  <2> QED
    BY <1>5, <2>1, <2>2, ProvedByWalk
<1>6. proved' = "yes" => Covered(u, n)'
  BY <1>2, <1>5 DEF Covered, Firewall
<1>7. Splits(u, n)' /\ Begins(u, n, user)'
  BY <1>1, <1>4 DEF Splits, Begins
<1> QED
  BY <1>1, <1>6, <1>7 DEF ListInv

\* For any firewall in which SSH on tailscale0 meets no rule that returns or goes
\* to another chain on a condition the walk cannot decide, and any list of ufw's
\* with nothing behind the rule that lets SSH in that may keep it out: once this run's check passed, and
\* while the tailnet stands still, SSH gets in over it without the public rule.
THEOREM ReachableOverTailnet ==
  ASSUME NothingPassedOver, NothingBehind PROVE LockSpec => []ProofHolds
<1> DEFINE Inv == WalkInv /\ CheckInv /\ ListInv
<1>1. LockInit => Inv
  <2>1. LockInit => CheckInv
    BY DEF LockInit, CheckInv
  <2> QED
    BY <2>1, InitWalk, InitList
<1>2. Inv /\ [LockNext]_lockVars => Inv'
  BY NextWalk, NextCheck, NextList
<1>3. Inv => ProofHolds
  <2> SUFFICES ASSUME Inv, proved = "yes" PROVE
        /\ net.running /\ net.seen
        /\ PolicyLets(net.policy, EligiblePeers(net.online, Tags, Family), Own, Family)
        /\ \A f \in Families : KernelAccepts(Firewall(f, user), OwnIn(f))
    BY DEF ProofHolds
  <2>1. Heard /\ PolicyLets(net.policy, Peers, Own, Family)
    BY DEF CheckInv
  <2>2. user \in Seq(UfwRules) /\ Len(user) \in 0..MaxRules /\ (In(user, PublicSsh) \/ In(user, TailnetSsh))
    BY RoomFits DEF WalkInv, LockInv, ClosedHasTailnetRule, PublicOpen, HasTailnetRule
  <2>3. \A f \in Families : KernelAccepts(Firewall(f, user), OwnIn(f))
    BY <2>2 DEF ListInv, Covered
  <2> QED
    BY <2>1, <2>3 DEF Heard, Peers
<1> HIDE DEF Inv
<1> QED
  BY <1>1, <1>2, <1>3, PTL DEF LockSpec
-----------------------------------------------------------------------------
\* The attempts made, while another may be.
TypesInv ==
    /\ WalkInv /\ net \in Nets
    /\ proved \in {"no", "asking", "yes"} /\ asked \in {"nothing", "open", "close"}
    /\ run.tries \in 0..ATTEMPTS
    /\ run.pc \in {"join", "ask"} => run.tries < ATTEMPTS

\* Every step keeps the types, and tries again only where an attempt is left.
LEMMA NextTypes == ASSUME TypesInv, [LockNext]_lockVars PROVE TypesInv'
<1> DEFINE Tries(r) == r.tries \in 0..ATTEMPTS /\ (r.pc \in {"join", "ask"} => r.tries < ATTEMPTS)
<1> USE DEF aux
<1>0. \A step : [run EXCEPT !.pc = step].pc = step /\ [run EXCEPT !.pc = step].tries = run.tries
  BY RunStep DEF TypesInv, WalkInv
<1>i. WalkInv' /\ ATTEMPTS \in Nat \ {0} /\ Tries(run)
  BY NextWalk, LockdownAssumption DEF TypesInv
<1>1. ASSUME net' \in Nets, proved' \in {"no", "asking", "yes"},
             asked' \in {"nothing", "open", "close"}, Tries(run')
      PROVE  TypesInv'
  BY <1>1, <1>i DEF TypesInv
<1>2. net \in Nets /\ proved \in {"no", "asking", "yes"} /\ asked \in {"nothing", "open", "close"}
  BY DEF TypesInv
<1>3. ASSUME NEW step, run' = [run EXCEPT !.pc = step], step \notin {"join", "ask"} PROVE Tries(run')
  BY <1>0, <1>3, <1>i
<1>4. ASSUME NEW close \in BOOLEAN, NEW open \in BOOLEAN, NEW tailnet \in BOOLEAN,
             Apply(close, open, tailnet)
      PROVE  TypesInv'
  <2>1. net' = net /\ proved' = "no" /\ asked' = "nothing" /\ run'.tries = 0
    BY <1>4 DEF Apply, NoRun
  <2> QED
    BY <1>1, <1>2, <1>i, <2>1
<1>5. CASE Join
  <2>1. UNCHANGED <<net, proved, asked>> /\ run.pc = "join" /\ run'.tries = run.tries
    BY <1>0, <1>5 DEF Join, Continue
  <2> QED
    BY <1>1, <1>2, <1>i, <2>1
<1>6. CASE AskControl
  <2>1. /\ net' = net /\ proved' = "asking" /\ asked' = asked /\ run.pc = "ask"
        /\ run'.tries = run.tries + 1 /\ run'.pc \in {"ping", "ask", "refused"}
        /\ run'.pc = "ask" => run.tries + 1 < ATTEMPTS
    BY <1>6 DEF AskControl, TypesInv, WalkInv, LockInv
  <2>2. run.tries < ATTEMPTS
    BY <1>i, <2>1
  <2>3. Tries(run')
    BY <1>i, <2>1, <2>2
  <2> QED
    BY <1>1, <1>2, <2>1, <2>3
<1>7. CASE Ping
  <2>1. /\ UNCHANGED <<net, proved, asked>> /\ run'.tries = run.tries
        /\ run'.pc \in {"policy", "ask", "refused"} /\ (run'.pc = "ask" => run.tries < ATTEMPTS)
    BY <1>0, <1>7 DEF Ping, Continue
  <2> QED
    BY <1>1, <1>2, <1>i, <2>1
<1>8. CASE Policy \/ Lock \/ AllowPublic \/ Interface \/ AllowTailnet \/ AllowBridges \/ RemovePublic
  <2>1. /\ UNCHANGED <<net, proved, asked>>
        /\ \E step : step \notin {"join", "ask"} /\ run' = [run EXCEPT !.pc = step]
    BY <1>8 DEF Policy, Lock, AllowPublic, Interface, AllowTailnet, AllowBridges, RemovePublic, Continue
  <2> QED
    BY <1>1, <1>2, <1>3, <2>1
<1>9. CASE DeclareOpen \/ DeclarePrivate \/ Restart
  <2>1. /\ UNCHANGED <<net, proved, asked>>
        /\ \E step : step \notin {"join", "ask"} /\ run' = [run EXCEPT !.pc = step]
    BY <1>9 DEF DeclareOpen, DeclarePrivate, Declare, Restart, Continue
  <2> QED
    BY <1>1, <1>2, <1>3, <2>1
<1>10. CASE WalkFirewall
  <2>1. /\ UNCHANGED <<net, asked>> /\ proved' \in {"yes", "no"}
        /\ \E step : step \notin {"join", "ask"} /\ run' = [run EXCEPT !.pc = step]
    BY <1>10 DEF WalkFirewall, Continue
  <2> QED
    BY <1>1, <1>2, <1>3, <2>1
<1>11. CASE Refused \/ Done \/ Fail
  <2>1. /\ UNCHANGED <<net, proved>> /\ run' = [NoRun EXCEPT !.n = run.n]
        /\ asked' \in {"nothing", "open", "close"}
    BY <1>11 DEF Refused, Done, Fail, Over
  <2>2. run'.tries = 0
    BY <2>1 DEF NoRun
  <2> QED
    BY <1>1, <1>2, <1>i, <2>1, <2>2
<1>12. CASE Fire \/ Reconcile \/ UNCHANGED lockVars
  <2>1. UNCHANGED <<net, proved, asked, run>>
    BY <1>12 DEF Fire, Reconcile, lockVars
  <2> QED
    BY <1>1, <1>2, <1>i, <2>1
<1>13. CASE NetChange
  <2>1. net' \in Nets /\ proved' = "no" /\ UNCHANGED <<asked, run>>
    BY <1>13 DEF NetChange
  <2> QED
    BY <1>1, <1>2, <1>i, <2>1
<1> QED
  BY <1>4, <1>5, <1>6, <1>7, <1>8, <1>9, <1>10, <1>11, <1>12, <1>13 DEF LockNext, Play

\* The types of a lockdown's state: the check makes no more than ATTEMPTS attempts,
\* and ufw's rules fit a chain, however many runs there are.
THEOREM LockdownTypes == LockSpec => []LockTypeOK
<1>1. LockInit => TypesInv
  <2> SUFFICES ASSUME LockInit PROVE TypesInv
    OBVIOUS
  <2>1. WalkInv /\ run.tries = 0 /\ run.pc = "idle"
    BY InitWalk DEF LockInit, NoRun
  <2> QED
    BY <2>1, LockdownAssumption DEF LockInit, TypesInv
<1>2. TypesInv /\ [LockNext]_lockVars => TypesInv'
  BY NextTypes
<1>3. TypesInv => LockTypeOK
  <2> SUFFICES ASSUME TypesInv PROVE LockTypeOK
    OBVIOUS
  <2>1. WalkInv /\ run.tries <= ATTEMPTS
    BY LockdownAssumption DEF TypesInv
  <2>2. Len(user) <= MaxRules
    BY <2>1, RoomFits, ReachabilityAssumption DEF WalkInv, LockInv
  <2> QED
    BY <2>1, <2>2 DEF TypesInv, WalkInv, LockInv, LockTypeOK
<1> QED
  BY <1>1, <1>2, <1>3, PTL DEF LockSpec
=============================================================================
