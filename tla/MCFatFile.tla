----------------------------- MODULE MCFatFile -----------------------------
(* Two files with a cluster each, the first full and the second half full.  *)
EXTENDS FatFile

CONSTANTS full, half

MCStartClust == [f \in Files |-> IF f = full THEN 3 ELSE 4]
HandleSymmetry == Permutations(Handles)
MCSize0 == [f \in Files |-> IF f = full THEN ClustSize ELSE 1]
=============================================================================
