--------------------------- MODULE MCDurableWork ---------------------------
(* Model values for TLC's runs of DurableWork.                             *)
EXTENDS DurableWork, TLC

CONSTANTS r1, r2, w1, w2

MCSymmetry == Permutations({r1, r2}) \cup Permutations({w1, w2})
=============================================================================
