----------------------------- MODULE MCSessions -----------------------------
(* Two requests at a time of one user, over three seconds, in which        *)
(* sessions, refresh tokens and list entries expire.                       *)
EXTENDS Sessions, TLC

CONSTANTS u1, c1, c2

mcUsers   == {u1}
mcCallers == {c1, c2}
Symmetry  == Permutations(mcCallers)
=============================================================================
