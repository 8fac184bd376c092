-------------------------- MODULE MCDuplicateScan ---------------------------
(* Instances of DuplicateScan for TLC.                                      *)
EXTENDS DuplicateScan, TLC

CONSTANTS c1, c2, w1, w2

TwoCallers == {c1, c2}
TwoWorkers == {w1, w2}
=============================================================================
