--------------------------- MODULE ConvergeProofs ---------------------------
(***************************************************************************)
(* What a converge puts on a host, for every release: the tree it is       *)
(* unpacked from (ImageLayers), the files it prunes (ConvergeFiles, as C), *)
(* the images it runs (ImagePin) and the panel's service (ServiceDrift).   *)
(*                                                                         *)
(* The prune keeps its three rules where every declared path is installed  *)
(* and no one else writes while a converge runs.  Without the first        *)
(* hypothesis TLC finds the run converge_files.                            *)
(***************************************************************************)
EXTENDS ImageLayers, Integers, TLAPS

CONSTANTS
    NONE,
    Repos, Digests,                                            \* ImagePin
    Fields, HealthFields, Reported(_),                         \* ServiceDrift
    HostPaths, Contents, Releases, Declares, Bytes,            \* ConvergeFiles
    FeaturesOff, OthersOverlap

VARIABLES disk, manifest, payload, run, wrote                  \* ConvergeFiles

INSTANCE ImagePin
INSTANCE ServiceDrift
C == INSTANCE ConvergeFiles WITH Paths <- HostPaths

-----------------------------------------------------------------------------
(* The inductive invariant: types, whose each entry is, and, while a       *)
(* layer's whiteouts are read, that those read so far cover what is below. *)
TypesOK ==
    /\ kind \in [Paths -> {"none", "dir", "file", "link"}] /\ by \in [Paths -> Nat]
    /\ layer \in Nat \ {0} /\ pass \in {1, 2} /\ pos \in Nat \ {0}
    /\ status \in {"unpacking", "refused", "vetted"}

Whose == \A p \in Paths : There(p) => by[p] <= layer /\ (pass = 1 => by[p] < layer)

Covered ==
    layer <= Len(Layers) =>
        \A p \in Paths, i \in 1..Len(Layers[layer]) :
            /\ pass = 2 \/ i < pos
            /\ There(p) /\ Reaches(Layers[layer][i], p)
            => by[p] = layer

IInv == TypesOK /\ Closed /\ Confined /\ Whose /\ Covered /\ VettedWhole

(* Under is a partial order of the paths.                                  *)
LEMMA UnderOrder ==
    ASSUME NEW p \in Seq(Names), NEW q \in Seq(Names), NEW r \in Seq(Names)
    PROVE  /\ Under(p, p)
           /\ Under(p, q) /\ Under(q, r) => Under(p, r)
           /\ Under(p, q) /\ Under(q, p) => p = q
           /\ Under(p, q) /\ Under(p, r) => Under(q, r) \/ Under(r, q)
<1>1. Len(p) \in Nat /\ Len(q) \in Nat /\ Len(r) \in Nat
  OBVIOUS
<1>2. Under(p, q) /\ Under(q, p) => p = q
  BY <1>1 DEF Under
<1> QED
  BY <1>1, <1>2 DEF Under

(* The member of the layer the pass is at.                                 *)
LEMMA MemberType ==
    ASSUME ConstantsOK, TypesOK, layer <= Len(Layers), pos <= Len(Layers[layer])
    PROVE  Member \in Members /\ Member.path \in Seq(Names) /\ pos \in 1..Len(Layers[layer])
<1>1. Layers[layer] \in Seq(Members)
  BY DEF ConstantsOK, TypesOK
<1>2. pos \in 1..Len(Layers[layer])
  BY <1>1 DEF TypesOK
<1>3. Member \in Members
  BY <1>1, <1>2 DEF Member
<1> QED
  BY <1>2, <1>3 DEF Members

(* The invariant holds of an empty tree.                                   *)
LEMMA InitIInv == ConstantsOK /\ Init => IInv
  BY DEF ConstantsOK, Init, IInv, TypesOK, Closed, Confined, Whose, Covered, VettedWhole, There

(* A member of the pass over the whiteouts keeps the invariant.            *)
LEMMA WhiteoutsIInv == ASSUME ConstantsOK, IInv, Whiteouts PROVE IInv'
<1> DEFINE m == Member
<1>1. m \in Members /\ m.path \in Seq(Names) /\ pos \in 1..Len(Layers[layer])
  BY MemberType DEF IInv, Whiteouts, At
<1>2. CASE m.what = "bad"
  BY <1>2 DEF Whiteouts, Refuse, IInv, TypesOK, Closed, Confined, Whose, Covered, VettedWhole, There, RealDir
<1>3. CASE m.what # "bad"
  <2>1. /\ kind' = [p \in Paths |-> IF p \in Reached(m) THEN "none" ELSE kind[p]]
        /\ pos' = pos + 1 /\ by' = by /\ layer' = layer /\ pass' = pass /\ status' = status
        /\ pass = 1 /\ status = "unpacking"
    BY <1>3 DEF Whiteouts, At
  <2>2. TypesOK'
    BY <2>1 DEF IInv, TypesOK
  <2>3. \A p \in Paths : There(p)' => There(p) /\ kind'[p] = kind[p] /\ p \notin Reached(m)
    BY <2>1 DEF There
  (* What is in a whiteout's reach is reached: the way to it is real.      *)
  <2>4. ASSUME NEW p \in Paths, There(p), Reaches(m, p) PROVE p \in Reached(m)
    <3>1. ASSUME NEW q \in Paths, Below(p, m.path), Under(m.path, q) PROVE kind[q] = "dir"
      <4>1. Below(p, q)
        BY <1>1, <3>1, UnderOrder DEF Below, ConstantsOK
      <4> QED
        BY <2>4, <4>1 DEF IInv, Closed
    <3>2. ASSUME NEW q \in Paths, Under(p, m.path), Below(m.path, q) PROVE kind[q] = "dir"
      <4>1. Below(p, q)
        BY <1>1, <3>2, UnderOrder DEF Below, ConstantsOK
      <4> QED
        BY <2>4, <4>1 DEF IInv, Closed
    <3> QED
      BY <2>4, <3>1, <3>2 DEF Reached, Reaches, RealDir, RealParent
  <2>5. Closed'
    <3> SUFFICES ASSUME NEW p \in Paths, NEW q \in Paths, There(p)', Below(p, q)
                 PROVE  kind'[q] = "dir"
      BY DEF Closed
    <3>1. kind[q] = "dir" /\ There(p) /\ p \notin Reached(m)
      BY <2>3 DEF IInv, Closed
    <3>2. q \notin Reached(m)
      <4>1. ASSUME Reaches(m, q) PROVE Reaches(m, p)
        BY <1>1, <4>1, UnderOrder DEF Reaches, Below, ConstantsOK
      <4> QED
        BY <2>4, <3>1, <4>1 DEF Reached
    <3> QED
      BY <2>1, <3>1, <3>2
  <2>6. Confined'
    BY <2>3 DEF IInv, Confined
  <2>7. Whose'
    BY <2>1, <2>3 DEF IInv, Whose
  <2>8. Covered'
    <3> SUFFICES ASSUME layer <= Len(Layers), NEW p \in Paths, NEW i \in 1..Len(Layers[layer]),
                        i < pos + 1, There(p)', Reaches(Layers[layer][i], p)
                 PROVE  by[p] = layer
      BY <2>1 DEF Covered, Reaches
    <3>1. There(p) /\ p \notin Reached(m)
      BY <2>3
    <3>2. CASE i < pos
      BY <3>1, <3>2 DEF IInv, Covered
    <3>3. CASE i = pos
      BY <2>4, <3>1, <3>3 DEF Member
    <3> QED
      BY <1>1, <3>2, <3>3
  <2>9. VettedWhole'
    BY <2>1 DEF VettedWhole
  <2> QED
    BY <2>2, <2>5, <2>6, <2>7, <2>8, <2>9 DEF IInv
<1> QED
  BY <1>2, <1>3

(* A member of the pass that writes keeps the invariant.                   *)
LEMMA WriteIInv == ASSUME ConstantsOK, IInv, Write PROVE IInv'
<1> DEFINE m == Member
<1>1. m \in Members /\ m.path \in Seq(Names)
  BY MemberType DEF IInv, Write, At
<1>2. CASE UNCHANGED <<kind, by, layer, pass>> /\ status' \in {status, "refused"} /\ pos' \in {pos, pos + 1}
  BY <1>2 DEF Write, At, IInv, TypesOK, Closed, Confined, Whose, Covered, VettedWhole, There, RealDir
<1>3. CASE /\ Wanted(m) /\ ~ThroughLink(m) /\ (m.what = "hardlink" => Linkable(m))
           /\ Written(m) /\ pos' = pos + 1 /\ UNCHANGED <<layer, pass, status>>
  <2> DEFINE keeps == Kept(m)
             leaf == Leaf(m)
  <2>1. /\ leaf \in {"dir", "file", "link"} /\ m.path \in Paths
        /\ \E f \in Prefixes : Under(m.path, f)
    BY <1>3 DEF Wanted, Leaf, Linkable
  <2>2. keeps => \A q \in Paths : Under(m.path, q) => kind[q] = "dir"
    BY DEF Kept, RealDir
  <2>3. /\ kind' = [p \in Paths |-> IF Below(m.path, p) THEN "dir"
                                    ELSE IF ~Under(p, m.path) \/ keeps THEN kind[p]
                                    ELSE IF p = m.path THEN leaf ELSE "none"]
        /\ by' = [p \in Paths |-> IF \/ Below(m.path, p) /\ kind[p] # "dir"
                                     \/ p = m.path /\ ~keeps
                                  THEN layer ELSE by[p]]
        /\ layer' = layer /\ pass' = pass /\ status' = status /\ pos' = pos + 1
        /\ pass = 2 /\ status = "unpacking"
    BY <1>3 DEF Written, Write, At
  <2> HIDE DEF m, keeps, leaf
  <2>4. TypesOK'
    BY <2>1, <2>3 DEF IInv, TypesOK
  (* What is there: on the way, the member, what a kept directory holds,   *)
  (* or something elsewhere.                                               *)
  <2>5. ASSUME NEW p \in Paths, There(p)'
        PROVE  \/ Below(m.path, p) /\ kind'[p] = "dir"
               \/ p = m.path /\ ~keeps /\ by'[p] = layer
               \/ There(p) /\ kind'[p] = kind[p] /\ by'[p] = by[p] /\ (~Under(p, m.path) \/ keeps)
    BY <2>3, <2>5 DEF There, Below
  <2>6. Closed'
    <3> SUFFICES ASSUME NEW p \in Paths, NEW q \in Paths, There(p)', Below(p, q)
                 PROVE  kind'[q] = "dir"
      BY DEF Closed
    <3>1. CASE Below(m.path, q)
      BY <2>3, <3>1
    <3>2. CASE ~Below(m.path, q)
      <4>1. ~Below(m.path, p) /\ p # m.path
        BY <1>1, <3>2, UnderOrder DEF Below, ConstantsOK
      <4>2. kind[q] = "dir" /\ (~Under(p, m.path) \/ keeps)
        BY <2>5, <4>1 DEF IInv, Closed
      <4>3. Under(q, m.path) => Under(p, m.path)
        BY <1>1, UnderOrder DEF Below, ConstantsOK
      <4> QED
        BY <2>3, <3>2, <4>2, <4>3
    <3> QED
      BY <3>1, <3>2
  <2>7. Confined'
    <3> SUFFICES ASSUME NEW p \in Paths, There(p)'
                 PROVE  \E f \in Prefixes : Under(p, f) \/ (Under(f, p) /\ kind'[p] = "dir")
      BY DEF Confined
    <3>1. PICK f \in Prefixes : Under(m.path, f)
      BY <2>1
    <3>2. CASE Below(m.path, p) /\ kind'[p] = "dir"
      <4>1. Under(p, f) \/ Under(f, p)
        BY <1>1, <3>1, <3>2, UnderOrder DEF Below, ConstantsOK
      <4> QED
        BY <3>2, <4>1
    <3>3. CASE p = m.path
      BY <3>1, <3>3
    <3>4. CASE There(p) /\ kind'[p] = kind[p]
      BY <3>4 DEF IInv, Confined
    <3> QED
      BY <2>5, <3>2, <3>3, <3>4
  <2>8. ASSUME NEW p \in Paths, There(p)' PROVE by'[p] = layer \/ (There(p) /\ by'[p] = by[p])
    BY <2>3, <2>5, <2>8 DEF There
  <2>9. Whose'
    <3> SUFFICES ASSUME NEW p \in Paths, There(p)' PROVE by'[p] <= layer
      BY <2>3 DEF Whose
    <3>1. by[p] \in Nat /\ layer \in Nat
      BY DEF IInv, TypesOK
    <3> QED
      BY <2>8, <3>1 DEF IInv, Whose
  <2>10. Covered'
    <3> SUFFICES ASSUME layer <= Len(Layers), NEW p \in Paths, NEW i \in 1..Len(Layers[layer]),
                        There(p)', Reaches(Layers[layer][i], p)
                 PROVE  by'[p] = layer
      BY <2>3 DEF Covered, Reaches
    <3> QED
      BY <2>3, <2>8 DEF IInv, Covered
  <2>11. VettedWhole'
    BY <2>3 DEF VettedWhole
  <2> QED
    BY <2>4, <2>6, <2>7, <2>9, <2>10, <2>11 DEF IInv
<1> QED
  BY <1>2, <1>3 DEF Write, Refuse

(* The next pass, or layer, keeps the invariant.                           *)
LEMMA NextPassIInv == ASSUME ConstantsOK, IInv, NextPass PROVE IInv'
<1>1. /\ kind' = kind /\ by' = by /\ status' = status /\ status = "unpacking" /\ pos' = 1
      /\ \/ pass = 1 /\ pass' = 2 /\ layer' = layer /\ layer <= Len(Layers) /\ pos > Len(Layers[layer])
         \/ pass = 2 /\ pass' = 1 /\ layer' = layer + 1
  BY DEF NextPass, IInv, TypesOK
<1>2. TypesOK' /\ Closed' /\ Confined' /\ VettedWhole'
  BY <1>1 DEF IInv, TypesOK, Closed, Confined, VettedWhole, There
<1>3. Whose'
  BY <1>1 DEF IInv, TypesOK, Whose, There
<1>4. Covered'
  BY <1>1 DEF IInv, TypesOK, Covered, There, Reaches, Below
<1> QED
  BY <1>2, <1>3, <1>4 DEF IInv

(* Every step of the unpacking keeps the invariant.                        *)
LEMMA NextIInv == ConstantsOK /\ IInv /\ [Next]_vars => IInv'
<1> SUFFICES ASSUME ConstantsOK, IInv, [Next]_vars PROVE IInv'
  OBVIOUS
<1>1. CASE Vet
  BY <1>1 DEF Vet, Refuse, IInv, TypesOK, Closed, Confined, Whose, Covered, VettedWhole, There, RealDir
<1>2. CASE UNCHANGED vars
  BY <1>2 DEF vars, IInv, TypesOK, Closed, Confined, Whose, Covered, VettedWhole, There, RealDir
<1> QED
  BY <1>1, <1>2, WhiteoutsIInv, WriteIInv, NextPassIInv DEF Next

(* Whatever the layers of an image hold, and in whatever order: nothing is *)
(* put through a link or below a file, nothing is outside the requested    *)
(* prefixes, and what is moved into place is a directory for each prefix.  *)
THEOREM TreeConfined == ASSUME ConstantsOK PROVE Spec => [](Closed /\ Confined /\ VettedWhole)
<1>1. Init => IInv
  BY InitIInv
<1>2. IInv /\ [Next]_vars => IInv'
  BY NextIInv
<1>3. IInv => Closed /\ Confined /\ VettedWhole
  BY DEF IInv
<1> QED
  BY <1>1, <1>2, <1>3, PTL DEF Spec

(* A layer's whiteouts reach all of what the layers below it left, though  *)
(* they may come after the members they stand beside.                      *)
THEOREM WhiteoutsCover == ASSUME ConstantsOK PROVE Spec => []BelowIsCovered
<1>1. Init => IInv
  BY InitIInv
<1>2. IInv /\ [Next]_vars => IInv'
  BY NextIInv
<1>3. IInv => BelowIsCovered
  BY DEF IInv, Covered, BelowIsCovered
<1> QED
  BY <1>1, <1>2, <1>3, PTL DEF Spec

-----------------------------------------------------------------------------
(* The prune of ConvergeFiles.  Its constants:                             *)
FilesOK ==
    /\ NONE \notin Contents
    /\ Declares \in [Releases -> SUBSET HostPaths]
    /\ Bytes \in [Releases -> [HostPaths -> Contents]]
    /\ FeaturesOff = FALSE /\ OthersOverlap = FALSE

OurDigest(p, d) == d # NONE => <<p, d>> \in wrote

(* A path that holds what a converge wrote there.                          *)
Ours(p) == disk[p] # NONE /\ <<p, disk[p]>> \in wrote

FileTypes ==
    /\ disk \in [HostPaths -> Contents \cup {NONE}]
    /\ DOMAIN manifest \subseteq HostPaths
    /\ payload \subseteq HostPaths
    /\ run.pc \in {"idle", "roles", "claims", "stat", "remove", "record"}
    /\ run = [pc |-> run.pc, rel |-> run.rel, left |-> run.left, cand |-> run.cand, ours |-> run.ours]
    /\ run.pc # "idle" => run.rel \in Releases
    /\ DOMAIN run.cand \subseteq HostPaths

(* What was recorded, and what the converge in progress works from, was    *)
(* written by a converge at that path.                                     *)
RecordedOurs ==
    /\ \A p \in DOMAIN manifest : OurDigest(p, manifest[p])
    /\ \A p \in DOMAIN run.cand : OurDigest(p, run.cand[p])

(* From the last role on, every declared path holds a role's file.         *)
Installed ==
    /\ run.pc = "roles" => \A p \in Declares[run.rel] \ run.left : Ours(p)
    /\ run.pc \in {"claims", "stat", "remove"} => \A p \in Declares[run.rel] : Ours(p)

Candidates ==
    /\ run.pc \in {"claims", "stat"} => DOMAIN run.cand \cap Declares[run.rel] = {}
    /\ run.pc = "stat" => DOMAIN run.cand \cap payload = {}

ToRemove ==
    \A p \in run.ours : /\ run.pc = "remove"
                        /\ p \in HostPaths /\ p \notin Declares[run.rel]
                        /\ p \notin payload /\ <<p, disk[p]>> \in wrote

FilesInv == FileTypes /\ RecordedOurs /\ Installed /\ Candidates /\ ToRemove

(* The invariant holds before the first converge.                          *)
LEMMA FilesInit == ASSUME FilesOK PROVE C!Init => FilesInv
  BY DEF FilesOK, C!Init, FilesInv, FileTypes, RecordedOurs, Installed, Candidates,
         ToRemove, OurDigest, Ours, C!NoRun

(* A step that ends, stops or has not begun a converge keeps FilesInv if it    *)
(* keeps the types and what the manifest says.                             *)
LEMMA FilesIdle ==
    ASSUME FileTypes', run'.pc = "idle", DOMAIN run'.cand = {},
           run'.ours = {}, \A p \in DOMAIN manifest' : OurDigest(p, manifest[p])'
    PROVE  FilesInv'
  BY DEF FilesInv, FileTypes, RecordedOurs, Installed, Candidates, ToRemove, OurDigest, Ours

(* Every step of the converge and of the host keeps the invariant.         *)
LEMMA FilesNext == ASSUME FilesOK, FilesInv, [C!Next]_(C!vars) PROVE FilesInv'
<1> USE DEF FilesInv, FilesOK
<1>1. ASSUME NEW r \in Releases, C!Begin(r) PROVE FilesInv'
  <2>1. run' = [pc |-> "roles", rel |-> r, left |-> Declares[r], cand |-> << >>, ours |-> {}]
    BY <1>1 DEF C!Begin, C!NoRun
  <2>2. DOMAIN run'.cand = {}
    BY <2>1
  <2>3. UNCHANGED <<disk, manifest, payload, wrote>>
    BY <1>1 DEF C!Begin
  <2>4. FileTypes'
    BY <2>1, <2>2, <2>3 DEF FileTypes
  <2>5. RecordedOurs'
    BY <2>2, <2>3 DEF RecordedOurs, OurDigest
  <2> QED
    BY <2>1, <2>4, <2>5 DEF Installed, Candidates, ToRemove
<1>2. ASSUME NEW p \in HostPaths, C!CopyFile(p) PROVE FilesInv'
  <2> DEFINE b == Bytes[run.rel][p]
  <2>1. b \in Contents /\ run.rel \in Releases
    BY <1>2 DEF C!CopyFile, FileTypes
  <2>2. disk' = [disk EXCEPT ![p] = b] /\ wrote' = wrote \cup {<<p, b>>}
        /\ run' = [run EXCEPT !.left = @ \ {p}] /\ manifest' = manifest /\ payload' = payload
        /\ run.pc = "roles"
    BY <1>2 DEF C!CopyFile
  <2> HIDE DEF b
  <2>3. run'.pc = "roles" /\ run'.rel = run.rel /\ run'.left = run.left \ {p} /\ run'.cand = run.cand
        /\ run'.ours = {}
    BY <2>2 DEF FileTypes, ToRemove
  <2>4. FileTypes'
    BY <2>1, <2>2 DEF FileTypes
  <2>5. RecordedOurs'
    BY <2>2, <2>3 DEF RecordedOurs, OurDigest
  <2>6. Installed'
    BY <2>1, <2>2, <2>3 DEF Installed, Ours, FileTypes
  <2> QED
    BY <2>3, <2>4, <2>5, <2>6 DEF Candidates, ToRemove
<1>3. ASSUME NEW p \in HostPaths, C!SwitchedOff(p) PROVE FilesInv'
  BY <1>3 DEF C!SwitchedOff
<1>4. ASSUME NEW p \in HostPaths, C!Remove(p) PROVE FilesInv'
  <2>1. /\ run.pc = "remove" /\ p \in run.ours /\ disk' = [disk EXCEPT ![p] = NONE]
        /\ run'.pc = "remove" /\ run'.rel = run.rel /\ run'.ours = run.ours \ {p}
        /\ run'.cand = run.cand /\ manifest' = manifest /\ payload' = payload /\ wrote' = wrote
    BY <1>4 DEF C!Remove, FileTypes
  <2>2. FileTypes'
    BY <1>4, <2>1 DEF FileTypes, C!Remove
  <2>3. Installed'
    BY <2>1 DEF Installed, ToRemove, Ours, FileTypes
  <2>4. ToRemove'
    BY <2>1 DEF ToRemove, FileTypes
  <2> QED
    BY <2>1, <2>2, <2>3, <2>4 DEF RecordedOurs, Candidates, OurDigest
<1>5. ASSUME C!Withdrawn PROVE FilesInv'
  BY <1>5 DEF C!Withdrawn, FileTypes, RecordedOurs, Installed, Candidates, ToRemove, OurDigest, Ours
<1>6. ASSUME C!Unclaimed PROVE FilesInv'
  BY <1>6 DEF C!Unclaimed, FileTypes, RecordedOurs, Installed, Candidates, ToRemove, OurDigest, Ours
<1>7. ASSUME C!Stat PROVE FilesInv'
  BY <1>7 DEF C!Stat, C!Prunable, FileTypes, RecordedOurs, Installed, Candidates, ToRemove, OurDigest, Ours
<1>8. ASSUME NEW unread \in SUBSET HostPaths, C!StatDeclared(unread) PROVE FilesInv'
  BY <1>8 DEF C!StatDeclared, FileTypes, RecordedOurs, Installed, Candidates, ToRemove, OurDigest, Ours
<1>9. ASSUME C!Record PROVE FilesInv'
  <2>1. FileTypes' /\ run'.pc = "idle" /\ DOMAIN run'.cand = {} /\ run'.ours = {}
    BY <1>9 DEF C!Record, C!NoRun, FileTypes
  <2>2. \A p \in DOMAIN manifest' : OurDigest(p, manifest[p])'
    BY <1>9 DEF C!Record, RecordedOurs, OurDigest
  <2> QED
    BY <2>1, <2>2, FilesIdle
<1>10. ASSUME C!Stop PROVE FilesInv'
  <2>1. FileTypes' /\ run'.pc = "idle" /\ DOMAIN run'.cand = {} /\ run'.ours = {}
    BY <1>10 DEF C!Stop, C!NoRun, FileTypes
  <2>2. \A p \in DOMAIN manifest' : OurDigest(p, manifest[p])'
    BY <1>10 DEF C!Stop, RecordedOurs, OurDigest
  <2> QED
    BY <2>1, <2>2, FilesIdle
<1>11. ASSUME NEW entries \in SUBSET HostPaths, NEW c \in Contents, C!PayloadInstall(entries, c)
       PROVE  FilesInv'
  BY <1>11 DEF C!PayloadInstall, FileTypes, RecordedOurs, Installed, Candidates, ToRemove, OurDigest, Ours
<1>12. ASSUME NEW p \in HostPaths, NEW c \in Contents \cup {NONE}, C!SomeoneWrites(p, c)
       PROVE  FilesInv'
  BY <1>12 DEF C!SomeoneWrites, FileTypes, RecordedOurs, Installed, Candidates, ToRemove, OurDigest, Ours
<1>13. CASE UNCHANGED C!vars
  BY <1>13 DEF C!vars, FileTypes, RecordedOurs, Installed, Candidates, ToRemove, OurDigest, Ours
<1> QED
  BY <1>1, <1>2, <1>3, <1>4, <1>5, <1>6, <1>7, <1>8, <1>9, <1>10, <1>11, <1>12, <1>13
     DEF C!Next, C!Converge

(* The three rules of converge_manifest.py hold of every file a prune      *)
(* removes, whatever the releases declare and whoever writes in between:   *)
(* undeclared now, unclaimed by the payload, and a converge's own bytes.   *)
THEOREM PruneIsOurs ==
    ASSUME FilesOK
    PROVE  C!Spec => C!PruneOnlyOurs
<1> DEFINE Step == \A p \in run.ours \ run'.ours :
          run'.pc = "remove" =>
              /\ p \notin Declares[run.rel]
              /\ p \notin payload
              /\ disk[p] = NONE \/ <<p, disk[p]>> \in wrote
<1>1. ASSUME FilesInv, [C!Next]_(C!vars) PROVE [Step]_(C!vars)
  BY <1>1 DEF FilesInv, ToRemove
<1>2. QED
  BY FilesInit, FilesNext, <1>1, PTL DEF C!Spec, C!PruneOnlyOurs

-----------------------------------------------------------------------------
(* The parts of a key are numbers.                                         *)
LEMMA KeyParts == ASSUME NEW t \in Tags PROVE \A i \in 1..6 : Key(t)[i] \in Nat
  BY DEF Key, Tags, TwoPart

(* The order of tuples, spelled out.                                       *)
Spelled(a, b) ==
    \/ a[1] > b[1]
    \/ a[1] = b[1] /\ a[2] > b[2]
    \/ a[1] = b[1] /\ a[2] = b[2] /\ a[3] > b[3]
    \/ a[1] = b[1] /\ a[2] = b[2] /\ a[3] = b[3] /\ a[4] > b[4]
    \/ a[1] = b[1] /\ a[2] = b[2] /\ a[3] = b[3] /\ a[4] = b[4] /\ a[5] > b[5]
    \/ a[1] = b[1] /\ a[2] = b[2] /\ a[3] = b[3] /\ a[4] = b[4] /\ a[5] = b[5] /\ a[6] > b[6]

(* The order of tuples, part by part.                                      *)
LEMMA LaterSpelled == ASSUME NEW a, NEW b PROVE Later(a, b) <=> Spelled(a, b)
<1>1. ASSUME Later(a, b) PROVE Spelled(a, b)
  <2>1. PICK i \in 1..6 : a[i] > b[i] /\ \A j \in 1..(i - 1) : a[j] = b[j]
    BY <1>1 DEF Later
  <2>2. i = 1 \/ i = 2 \/ i = 3 \/ i = 4 \/ i = 5 \/ i = 6
    OBVIOUS
  <2> QED
    BY <2>1, <2>2 DEF Spelled
<1>2. ASSUME Spelled(a, b) PROVE Later(a, b)
  BY <1>2 DEF Spelled, Later
<1> QED
  BY <1>1, <1>2

(* Python's order of the keys is a strict total order.                     *)
LEMMA LaterOrders ==
    ASSUME NEW s \in Tags, NEW t \in Tags, NEW u \in Tags
    PROVE  /\ Later(Key(s), Key(t)) => ~Later(Key(t), Key(s))
           /\ ~Later(Key(t), Key(s)) /\ ~Later(Key(u), Key(t)) => ~Later(Key(u), Key(s))
           /\ ~Later(Key(s), Key(s))
<1> DEFINE a == Key(s)
           b == Key(t)
           c == Key(u)
<1>1. /\ a[1] \in Nat /\ a[2] \in Nat /\ a[3] \in Nat /\ a[4] \in Nat /\ a[5] \in Nat /\ a[6] \in Nat
      /\ b[1] \in Nat /\ b[2] \in Nat /\ b[3] \in Nat /\ b[4] \in Nat /\ b[5] \in Nat /\ b[6] \in Nat
      /\ c[1] \in Nat /\ c[2] \in Nat /\ c[3] \in Nat /\ c[4] \in Nat /\ c[5] \in Nat /\ c[6] \in Nat
  BY KeyParts
<1> HIDE DEF a, b, c
<1>2. /\ Spelled(a, b) => ~Spelled(b, a)
      /\ ~Spelled(b, a) /\ ~Spelled(c, b) => ~Spelled(c, a)
      /\ ~Spelled(a, a)
  BY <1>1 DEF Spelled
<1> QED
  BY <1>2, LaterSpelled DEF a, b, c

(* What Resolve returns, and when it is the floor.                         *)
LEMMA ResolveCases ==
    ASSUME NEW floor \in Refs, NEW pins, NONE \notin Refs,
           \A k \in DOMAIN pins : pins[k] \in Refs
    PROVE  LET r == Resolve(floor, pins)
           IN  /\ r \in Refs
               /\ r = floor \/ (/\ r = Pinned(pins, floor.repo) /\ r.repo = floor.repo
                                /\ NewerTag(r.tag, floor.tag))
  BY DEF Resolve, Pinned

(* "The result is max(floor, pin)", and "a store that could name an        *)
(* arbitrary string could choose what this host runs": a converge runs     *)
(* what it ships or a later version of that repository and that family,    *)
(* whatever the store holds.                                               *)
THEOREM NeverBelowFloor ==
    ASSUME NEW floor \in Refs, NEW pins, NONE \notin Refs,
           \A k \in DOMAIN pins : pins[k] \in Refs
    PROVE  LET r == Resolve(floor, pins)
           IN  r.repo = floor.repo /\ NotOlder(r, floor)
<1> DEFINE r == Resolve(floor, pins)
<1>1. r \in Refs /\ (r = floor \/ (r.repo = floor.repo /\ NewerTag(r.tag, floor.tag)))
  BY ResolveCases
<1>2. r.tag \in Tags /\ floor.tag \in Tags
  BY <1>1 DEF Refs
<1> HIDE DEF r
<1>3. NotOlder(r, floor)
  BY <1>1, <1>2, LaterOrders DEF NotOlder, NewerTag
<1> QED
  BY <1>1, <1>3 DEF r

(* "A converge keeps every managed bump": once the lane has moved a        *)
(* service past what the last converge resolved and recorded it, every     *)
(* later converge of a release that ships nothing newer runs the bump.     *)
THEOREM BumpSurvives ==
    ASSUME NEW floor \in Refs, NEW next \in Refs, NEW pins, NEW bump \in Refs, NONE \notin Refs,
           \A k \in DOMAIN pins : pins[k] \in Refs,
           bump.repo = floor.repo, NewerTag(bump.tag, Resolve(floor, pins).tag),
           next.repo = floor.repo, Comparable(next.tag), NotOlder(floor, next)
    PROVE  Resolve(next, Recorded(pins, bump)) = bump
<1> DEFINE r == Resolve(floor, pins)
           moved == Recorded(pins, bump)
<1>1. r \in Refs /\ NotOlder(r, floor)
  BY ResolveCases, NeverBelowFloor
<1>2. /\ r.tag \in Tags /\ floor.tag \in Tags /\ next.tag \in Tags /\ bump.tag \in Tags
      /\ Comparable(bump.tag)
  BY <1>1 DEF Refs, NewerTag
<1>3. Pinned(moved, next.repo) = bump
  <2>1. moved[floor.repo] = bump /\ floor.repo \in DOMAIN moved
    BY DEF Recorded
  <2> QED
    BY <2>1, <1>2 DEF Pinned
<1>4. NewerTag(bump.tag, r.tag)
  OBVIOUS
<1> HIDE DEF r, moved
<1>5. Family(r.tag) = Family(floor.tag) /\ ~Later(Key(floor.tag), Key(r.tag))
  BY <1>1, <1>2, LaterOrders DEF NotOlder
<1>6. Family(floor.tag) = Family(next.tag) /\ ~Later(Key(next.tag), Key(floor.tag))
  BY <1>2, LaterOrders DEF NotOlder
<1>7. ~Later(Key(next.tag), Key(r.tag))
  BY <1>2, <1>5, <1>6, LaterOrders
<1>8. Later(Key(bump.tag), Key(next.tag))
  <2>1. Later(Key(bump.tag), Key(r.tag))
    BY <1>4 DEF NewerTag
  <2>2. SUFFICES ASSUME ~Later(Key(bump.tag), Key(next.tag)) PROVE FALSE
    OBVIOUS
  <2>3. ~Later(Key(bump.tag), Key(r.tag))
    BY <1>2, <1>7, <2>2, LaterOrders
  <2> QED
    BY <2>1, <2>3
<1>9. NewerTag(bump.tag, next.tag)
  BY <1>2, <1>4, <1>5, <1>6, <1>8 DEF NewerTag
<1> QED
  BY <1>3, <1>9 DEF Resolve, moved

(* "A stale pin" never "beats a release that raised a floor": over one     *)
(* store, a release that ships a version not older than the last one's     *)
(* never takes a host back.                                                *)
THEOREM ReleasesOnlyRaise ==
    ASSUME NEW floor \in Refs, NEW next \in Refs, NEW pins, NONE \notin Refs,
           \A k \in DOMAIN pins : pins[k] \in Refs,
           next.repo = floor.repo, Comparable(next.tag), NotOlder(next, floor)
    PROVE  NotOlder(Resolve(next, pins), Resolve(floor, pins))
<1> DEFINE r == Resolve(floor, pins)
           s == Resolve(next, pins)
           pin == Pinned(pins, floor.repo)
<1>1. s \in Refs /\ NotOlder(s, next) /\ r \in Refs
  BY ResolveCases, NeverBelowFloor
<1>2. /\ r.tag \in Tags /\ s.tag \in Tags /\ floor.tag \in Tags /\ next.tag \in Tags
  BY <1>1 DEF Refs
<1>3. Family(s.tag) = Family(next.tag) /\ ~Later(Key(next.tag), Key(s.tag))
      /\ Family(next.tag) = Family(floor.tag) /\ ~Later(Key(floor.tag), Key(next.tag))
  BY <1>1, <1>2, LaterOrders DEF NotOlder
<1>4. CASE r = floor
  BY <1>2, <1>3, <1>4, LaterOrders DEF NotOlder
<1>5. CASE r = pin /\ NewerTag(r.tag, floor.tag)
  <2>1. CASE NewerTag(pin.tag, next.tag) /\ pin # NONE
    BY <1>5, <2>1 DEF Resolve, NotOlder
  <2>2. CASE ~NewerTag(pin.tag, next.tag)
    <3>1. s = next
      BY <2>2 DEF Resolve
    <3>2. ~Later(Key(r.tag), Key(next.tag)) /\ Family(r.tag) = Family(next.tag)
      BY <1>3, <1>5, <2>2 DEF NewerTag
    <3> QED
      BY <3>1, <3>2 DEF NotOlder
  <2> QED
    BY <1>1, <1>5, <2>1, <2>2
<1> QED
  BY <1>4, <1>5, ResolveCases

-----------------------------------------------------------------------------
(* "The reconcile has to have settled the drift it applied": whatever the  *)
(* live spec was, after an update docker applied the four comparisons find *)
(* nothing, so a converge with nothing to change restarts no task.         *)
THEOREM UpdateSettles ==
    ASSUME NEW live, NEW want, NEW resolved, NEW fallback, Declared(want)
    PROVE  Settled(Updated(live, want, resolved, fallback), want)
<1> DEFINE new == Updated(live, want, resolved, fallback)
           flags == Hardening(live, want)
<1>1. Hardening(new, want).image = FALSE
  BY DEF Updated, Hardening, SameImage
<1>2. Hardening(new, want).fields = {}
  BY DEF Updated, Hardening, Declared
<1>3. Hardening(new, want).rm = {} /\ Hardening(new, want).add = {}
  BY DEF Updated, Hardening
<1>4. Hardening(new, want).health = {}
  BY DEF Updated, Hardening, Declared
<1>5. Hardening(new, want) = NoHardening
  BY <1>1, <1>2, <1>3, <1>4 DEF Hardening, NoHardening
<1>6. EnvAdd(new.env, want.env) = {} /\ EnvRm(new.env, want.env) = {}
  BY DEF Updated, EnvAdd, EnvRm
<1>7. SecretAdd(new.secrets, want.secrets) = {} /\ SecretRm(new.secrets, want.secrets) = {}
  BY DEF Updated, SecretAdd, SecretRm
<1>8. NetworkAdd(new.networks, want.networks) = {} /\ NetworkRm(new.networks, want.networks) = {}
  BY DEF Updated, NetworkAdd, NetworkRm
<1> QED
  BY <1>5, <1>6, <1>7, <1>8 DEF Settled

(* "One dict feeding two renderers is what keeps a fresh service and a     *)
(* converged one identical": the converge after the one that created the   *)
(* service has nothing to update.                                          *)
THEOREM CreatedSettled ==
    ASSUME NEW want, NEW resolved, NEW zero, Declared(want), want.image # NONE
    PROVE  Settled(Created(want, resolved, zero), want)
<1> DEFINE new == Created(want, resolved, zero)
<1>1. Hardening(new, want).image = FALSE
  BY DEF Created, Hardening, SameImage
<1>2. Hardening(new, want).fields = {}
  BY DEF Created, Hardening, Declared
<1>3. Hardening(new, want).rm = {} /\ Hardening(new, want).add = {}
  BY DEF Created, Hardening
<1>4. Hardening(new, want).health = {}
  BY DEF Created, Hardening, Declared
<1>5. Hardening(new, want) = NoHardening
  BY <1>1, <1>2, <1>3, <1>4 DEF Hardening, NoHardening
<1> QED
  BY <1>5 DEF Created, Settled, EnvAdd, EnvRm, SecretAdd, SecretRm, NetworkAdd, NetworkRm

(* What a converge that found nothing to change says of the panel: it runs *)
(* the pinned bytes, with the environment and the networks declared and no *)
(* others, and, where no live secret has another file name than the one    *)
(* declared for it, with exactly the secrets declared.                     *)
THEOREM SettledMeansDeclared ==
    ASSUME NEW live, NEW want, Settled(live, want),
           live.env = [k \in DOMAIN live.env |-> live.env[k]],
           want.env = [k \in DOMAIN want.env |-> want.env[k]],
           live.secrets = [n \in DOMAIN live.secrets |-> live.secrets[n]],
           want.secrets = [n \in DOMAIN want.secrets |-> want.secrets[n]],
           \A n \in DOMAIN live.secrets \cap DOMAIN want.secrets : live.secrets[n] = want.secrets[n]
    PROVE  /\ want.image # NONE /\ want.image.digest # NONE => live.image = want.image
           /\ live.env = want.env
           /\ live.secrets = want.secrets
           /\ live.networks = want.networks
           /\ want.constraints # NONE => live.constraints = want.constraints
<1>1. Hardening(live, want) = NoHardening
  BY DEF Settled
<1>2. /\ Hardening(live, want).image = FALSE /\ Hardening(live, want).rm = {}
      /\ Hardening(live, want).add = {}
  BY <1>1 DEF NoHardening
<1>3. want.image # NONE /\ want.image.digest # NONE => live.image = want.image
  BY <1>2 DEF Hardening, SameImage
<1>4. want.constraints # NONE => live.constraints = want.constraints
  BY <1>2 DEF Hardening
<1>5. DOMAIN live.env = DOMAIN want.env /\ \A k \in DOMAIN want.env : live.env[k] = want.env[k]
  BY DEF Settled, EnvAdd, EnvRm
<1>6. live.env = want.env
  BY <1>5
<1>7. DOMAIN live.secrets = DOMAIN want.secrets
  BY DEF Settled, SecretAdd, SecretRm
<1>8. live.secrets = want.secrets
  BY <1>7
<1>9. live.networks = want.networks
  BY DEF Settled, NetworkAdd, NetworkRm
<1> QED
  BY <1>3, <1>4, <1>6, <1>8, <1>9

(* A rotation replaces the mount: after an update every secret the panel   *)
(* mounts is one declared now, so the prune that follows may remove the    *)
(* one it replaced, and never one the panel or another service reads.      *)
THEOREM PruneSparesMounted ==
    ASSUME NEW live, NEW want, NEW resolved, NEW fallback, NEW others, NEW names,
           NEW bases, NEW baseOf
    PROVE  LET new == Updated(live, want, resolved, fallback)
               gone == Unmounted(names, others \cup {new}, bases, baseOf)
           IN  /\ DOMAIN new.secrets = DOMAIN want.secrets
               /\ gone \cap DOMAIN want.secrets = {}
               /\ \A s \in others : gone \cap DOMAIN s.secrets = {}
<1> DEFINE new == Updated(live, want, resolved, fallback)
<1>1. DOMAIN new.secrets = DOMAIN want.secrets
  BY DEF Updated, SecretAdd, SecretRm
<1> HIDE DEF new
<1> QED
  BY <1>1 DEF new, Unmounted
=============================================================================
