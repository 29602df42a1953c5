------------------------ MODULE MCDocumentSequence ------------------------
(* Small instances of the document sequence for TLC.                        *)
EXTENDS DocumentSequence, TLC

\* The callers are interchangeable, and no property of the runs is temporal.
Symmetry == Permutations(Caller)
=============================================================================
