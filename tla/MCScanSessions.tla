--------------------------- MODULE MCScanSessions ---------------------------
(* Instances of ScanSessions for TLC.                                       *)
EXTENDS ScanSessions, TLC

CONSTANTS c1, c2

TwoCallers == {c1, c2}
=============================================================================
