--------------------------- MODULE MCConnectionCache ---------------------------
(***************************************************************************)
(* ConnectionCache for TLC, with the symmetry of its goroutines and DSNs.   *)
(***************************************************************************)
EXTENDS ConnectionCache, TLC

Symmetric == Permutations(Goroutines) \cup Permutations(DSNs)
=============================================================================
