--------------------------- MODULE MCConnections ---------------------------
(* Three conversions for one administrator's connection.                   *)
EXTENDS Connections, TLC

CONSTANTS c1, v1, v2, v3

mcConns == {c1}
mcConvs == {v1, v2, v3}
=============================================================================
