------------------------------ MODULE BuildPool ------------------------------
(***************************************************************************)
(* What the preview promises about cold builds: each book is built by at   *)
(* most one build at a time, a build starts only while fewer than Capacity *)
(* run, and builds end one at a time or all at once (the process stops).   *)
(***************************************************************************)
EXTENDS Naturals, FiniteSets

CONSTANTS Jobs, Capacity
VARIABLE running

Init == running = {}

Begin(j) ==
    /\ j \in Jobs \ running
    /\ Cardinality(running) < Capacity
    /\ running' = running \cup {j}

End(j) == j \in running /\ running' = running \ {j}

Stop == running' = {}

Next == (\E j \in Jobs : Begin(j) \/ End(j)) \/ Stop

Spec == Init /\ [][Next]_running
=============================================================================
