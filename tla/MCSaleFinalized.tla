-------------------------- MODULE MCSaleFinalized --------------------------
(* Small instances of SaleFinalized for TLC.                                 *)
EXTENDS SaleFinalized, TLC

\* Goroutines differ only by their names.
Symmetry == Permutations(Proc)
=============================================================================
