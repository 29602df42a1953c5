---------------------------- MODULE MCPrintQueue ----------------------------
(* Small instances of the print queue for TLC.                               *)
EXTENDS PrintQueue, TLC

\* Jobs differ only by their names, and so do agents.
Symmetry == Permutations(Agent) \cup Permutations(Job)
=============================================================================
