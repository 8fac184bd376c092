------------------------------ MODULE MCPreview ------------------------------
(* Instances of Preview for TLC.                                            *)
EXTENDS Preview, TLC

CONSTANTS b1, b2

TwoBooks  == {b1, b2}
TwoParts  == b1 :> 2 @@ b2 :> 0      \* b2 never passes the gates
TwoChunks == b1 :> 1 @@ b2 :> 0

=============================================================================
