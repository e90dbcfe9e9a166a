------------------------------ MODULE ImagePin ------------------------------
(***************************************************************************)
(* The image a converge runs, from the version it ships and the pin the    *)
(* panel's update lane recorded (filter_plugins/image_pin.py).             *)
(*                                                                         *)
(* A tag is [kind, major, minor, patch, build, suffix]: "full" for a       *)
(* semver tag, "two" for a two-part one, "other" for what does not         *)
(* compare.  suffix is the rank of the suffix among all strings, 0 for     *)
(* none; patch and build are 0 where the tag has none.  A reference is     *)
(* [repo, tag, digest].                                                    *)
(***************************************************************************)
EXTENDS Integers

CONSTANTS Repos, Digests, NONE

Tags == [kind : {"full", "two", "other"}, major : Nat, minor : Nat, patch : Nat,
         build : Nat, suffix : Nat]
Refs == [repo : Repos, tag : Tags, digest : Digests]

Comparable(t) == t.kind # "other"
TwoPart(t) == t.kind = "two" /\ t.suffix # 0

(* _order: only tags of one family compare.  A two-part tag without a      *)
(* suffix is the release .0, and a pre-release sorts below its release.    *)
Family(t) == IF TwoPart(t) THEN <<"mm", t.major, t.suffix>> ELSE <<"semver", 0, 0>>
Key(t) ==
    IF TwoPart(t) THEN <<t.minor, 0, 0, 0, 0, 0>>
    ELSE IF t.kind = "two" THEN <<t.major, t.minor, 0, 0, 1, 0>>
    ELSE <<t.major, t.minor, t.patch, t.build, IF t.suffix # 0 THEN 0 ELSE 1, t.suffix>>

(* Python's order of tuples.                                               *)
Later(a, b) == \E i \in 1..6 : a[i] > b[i] /\ \A j \in 1..(i - 1) : a[j] = b[j]

(* catena_image_pinned: a pin that names its own repository and a tag that *)
(* compares.                                                               *)
Pinned(pins, repo) ==
    IF repo \in DOMAIN pins /\ pins[repo].repo = repo /\ Comparable(pins[repo].tag)
    THEN pins[repo] ELSE NONE

NewerTag(t, u) == Comparable(t) /\ Comparable(u) /\ Family(t) = Family(u) /\ Later(Key(t), Key(u))

(* catena_image_pin: max(floor, pin), the floor where they do not compare. *)
Resolve(floor, pins) ==
    LET pin == Pinned(pins, floor.repo)
    IN  IF pin # NONE /\ NewerTag(pin.tag, floor.tag) THEN pin ELSE floor

(* The update lane records what it applied.                                *)
Recorded(pins, ref) ==
    [k \in DOMAIN pins \cup {ref.repo} |-> IF k = ref.repo THEN ref ELSE pins[k]]

-----------------------------------------------------------------------------
(* One reference is not older than another: the same, or they compare and  *)
(* it does not come earlier.                                               *)
NotOlder(r, s) ==
    \/ r = s
    \/ Family(r.tag) = Family(s.tag) /\ ~Later(Key(s.tag), Key(r.tag))
=============================================================================
