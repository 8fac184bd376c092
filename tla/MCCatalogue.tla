----------------------------- MODULE MCCatalogue -----------------------------
(* Catalogue on a small library: the book c in both archives, each copy    *)
(* older than the md5 column, and d only in the second.                     *)
EXTENDS Catalogue, TLC

CONSTANTS c, d, a1, a2, h1

MCFiles  == a1 :> <<c>> @@ a2 :> <<c, d>>
MCLegacy == <<[what |-> c, home |-> a1], [what |-> c, home |-> a2]>>

=============================================================================
