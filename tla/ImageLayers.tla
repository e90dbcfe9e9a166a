---------------------------- MODULE ImageLayers -----------------------------
(***************************************************************************)
(* How fetch_release.py unpacks a release image: layer by layer, member by *)
(* member, into a tree that holds the requested prefixes alone, and what   *)
(* has to hold before the prefixes are moved into place.                   *)
(*                                                                         *)
(* A path is a sequence of names, the tree's root the empty one.  A member *)
(* is [what, path, source]: "opaque" marks the directory path, "whiteout"  *)
(* removes path, "dir", "file", "symlink" and "hardlink" (to source) put   *)
(* something there, "bad" names a path outside the tree, and "other" is a  *)
(* device or a name the passes skip.  Modes and contents are left out.     *)
(***************************************************************************)
EXTENDS Naturals, Sequences

CONSTANTS
    Names, Paths,  \* the paths there can be, the root apart
    Prefixes,      \* the requested paths (_prefixes)
    Layers         \* the image: a sequence of sequences of members

VARIABLES
    kind,          \* what is at each path: "none", "dir", "file" or "link"
    by,            \* the layer that put it there, auxiliary
    layer, pass, pos,  \* the member apply_layer is at
    status         \* "unpacking", "refused", or "vetted"

vars == <<kind, by, layer, pass, pos, status>>

Members == [what : {"opaque", "whiteout", "dir", "file", "symlink", "hardlink", "bad", "other"},
            path : Seq(Names), source : Seq(Names)]

ConstantsOK ==
    /\ Paths \subseteq Seq(Names) \ {<< >>} /\ Prefixes \subseteq Paths
    /\ Layers \in Seq(Seq(Members))

(* _under, and the paths strictly below one.                               *)
Under(p, q) == Len(q) <= Len(p) /\ \A i \in 1..Len(q) : p[i] = q[i]
Below(p, q) == Under(p, q) /\ p # q

(* _real_dir without create: every step of the path is a directory.        *)
RealDir(p) == \A q \in Paths : Under(p, q) => kind[q] = "dir"
RealParent(p) == \A q \in Paths : Below(p, q) => kind[q] = "dir"

Init ==
    /\ kind = [p \in Paths |-> "none"] /\ by = [p \in Paths |-> 0]
    /\ layer = 1 /\ pass = 1 /\ pos = 1
    /\ status = "unpacking"

Refuse == status' = "refused" /\ UNCHANGED <<kind, by, layer, pass, pos>>

(* The next member of this pass.                                           *)
At(n) ==
    /\ status = "unpacking" /\ layer <= Len(Layers) /\ pass = n
    /\ pos <= Len(Layers[layer])

Member == Layers[layer][pos]

Reaches(m, p) == \/ m.what = "opaque" /\ Below(p, m.path)
                 \/ m.what = "whiteout" /\ Under(p, m.path)

(* _empty and _remove, with _clear: nothing where the way is no directory. *)
Reached(m) ==
    {p \in Paths : /\ Reaches(m, p)
                   /\ m.what = "opaque" => RealDir(m.path)
                   /\ m.what = "whiteout" => RealParent(m.path)}

(* The first pass over a layer: its whiteouts.                             *)
Whiteouts ==
    /\ At(1)
    /\ IF Member.what = "bad" THEN Refuse
       ELSE /\ kind' = [p \in Paths |-> IF p \in Reached(Member) THEN "none" ELSE kind[p]]
            /\ pos' = pos + 1
            /\ UNCHANGED <<by, layer, pass, status>>

(* A member the second pass writes.                                        *)
Wanted(m) ==
    /\ m.what \in {"dir", "file", "symlink", "hardlink"}
    /\ m.path \in Paths /\ \E f \in Prefixes : Under(m.path, f)

(* _real_dir meets a symlink on the way to the member's parent.            *)
ThroughLink(m) == \E q \in Paths : Below(m.path, q) /\ kind[q] = "link"

(* A hard link's source is under a prefix and still there, as a file or a  *)
(* link, once the way to the member and its place are cleared.             *)
Linkable(m) ==
    /\ m.source \in Paths /\ \E f \in Prefixes : Under(m.source, f)
    /\ RealParent(m.source) /\ kind[m.source] \in {"file", "link"}
    /\ ~Under(m.source, m.path) /\ ~Below(m.path, m.source)

Leaf(m) == CASE m.what = "dir" -> "dir" [] m.what = "file" -> "file"
             [] m.what = "symlink" -> "link" [] m.what = "hardlink" -> kind[m.source]

(* A directory over a directory keeps what is in it.                       *)
Kept(m) == m.what = "dir" /\ RealDir(m.path)

(* _write: the way to the member is made of directories, what was in its   *)
(* place is cleared, and the member is put there.                          *)
Written(m) ==
    /\ kind' = [p \in Paths |->
                  IF Below(m.path, p) THEN "dir"
                  ELSE IF ~Under(p, m.path) \/ Kept(m) THEN kind[p]
                  ELSE IF p = m.path THEN Leaf(m) ELSE "none"]
    /\ by' = [p \in Paths |->
                IF \/ Below(m.path, p) /\ kind[p] # "dir"
                   \/ p = m.path /\ ~Kept(m)
                THEN layer ELSE by[p]]

(* The second pass: the layer's own members.                               *)
Write ==
    /\ At(2)
    /\ IF ~Wanted(Member)
       THEN pos' = pos + 1 /\ UNCHANGED <<kind, by, layer, pass, status>>
       ELSE IF ThroughLink(Member) \/ (Member.what = "hardlink" /\ ~Linkable(Member)) THEN Refuse
       ELSE Written(Member) /\ pos' = pos + 1 /\ UNCHANGED <<layer, pass, status>>

NextPass ==
    /\ status = "unpacking" /\ layer <= Len(Layers) /\ pos > Len(Layers[layer])
    /\ IF pass = 1 THEN pass' = 2 /\ UNCHANGED layer
                   ELSE pass' = 1 /\ layer' = layer + 1
    /\ pos' = 1
    /\ UNCHANGED <<kind, by, status>>

(* _install: every prefix is a directory, and every link under one, chains *)
(* of links included, stays inside the tree (_check_links), or none of     *)
(* them is moved into place.                                               *)
Vet ==
    /\ status = "unpacking" /\ layer > Len(Layers)
    /\ \/ Refuse
       \/ /\ \A f \in Prefixes : RealDir(f)
          /\ status' = "vetted" /\ UNCHANGED <<kind, by, layer, pass, pos>>

Next == Whiteouts \/ Write \/ NextPass \/ Vet

Spec == Init /\ [][Next]_vars

-----------------------------------------------------------------------------
There(p) == kind[p] # "none"

(* "Root/rel reached through real directories only" (_real_dir): nothing   *)
(* is ever put below a file or through a link a layer placed.              *)
Closed == \A p, q \in Paths : There(p) /\ Below(p, q) => kind[q] = "dir"

(* "Only the prefixes are ever in tree" (apply_layer): a prefix, what is   *)
(* below one, and the directories above one.                               *)
Confined == \A p \in Paths : There(p) =>
    \E f \in Prefixes : Under(p, f) \/ (Under(f, p) /\ kind[p] = "dir")

(* "Its whiteouts first, against what the layers below it left", and "the  *)
(* marker reaches only the layers below" (apply_layer): once a layer's     *)
(* whiteouts are through, and wherever among its members they stand,       *)
(* what is in their reach is the layer's own, and nothing a lower one left.*)
BelowIsCovered ==
    status # "refused" /\ layer <= Len(Layers) /\ pass = 2 =>
        \A p \in Paths, i \in 1..Len(Layers[layer]) :
            There(p) /\ Reaches(Layers[layer][i], p) => by[p] = layer

(* "Once all are vetted" (_install): what is moved into place is a whole   *)
(* directory for every prefix.                                             *)
VettedWhole == status = "vetted" => \A f \in Prefixes : RealDir(f)
=============================================================================
