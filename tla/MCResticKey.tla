---------------------------- MODULE MCResticKey -----------------------------
(* One operation at a time, two destinations, one of another server's keys. *)
EXTENDS ResticKey

CONSTANTS k1, k2, k3, f1
KeyNames == {k1, k2, k3}
ForeignKeys == {f1}
=============================================================================
