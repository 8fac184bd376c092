------------------------- MODULE MCConvertedFiles --------------------------
(* One book, which three conversions and two downloads share.              *)
EXTENDS ConvertedFiles, TLC

CONSTANTS b1, v1, v2, v3, d1, d2

mcBooks == {b1}
mcConvs == {v1, v2, v3}
mcLoads == {d1, d2}

\* Conversions are alike, and so are downloads.
Symmetry == Permutations(mcConvs) \cup Permutations(mcLoads)
=============================================================================
