------------------------ MODULE MCOrderSettlement ------------------------
(* Small instances of OrderSettlement for TLC: requests are interchangeable. *)
EXTENDS OrderSettlement, TLC

Symmetry == Permutations(Req)
=============================================================================
