--------------------------- MODULE NumberRegister ---------------------------
(***************************************************************************)
(* What a document sequence promises: a register that hands out the numbers *)
(* one after the other, each at most once, at the instant it moves there.   *)
(* A number may be skipped, never taken back or handed out late.            *)
(***************************************************************************)
EXTENDS Naturals

VARIABLES
    count,   \* the last number reached
    handed   \* the numbers handed out

vars == <<count, handed>>

Init == count = 0 /\ handed = {}

HandOut == count' = count + 1 /\ handed' = handed \cup {count'}

Skip == count' = count + 1 /\ UNCHANGED handed

Spec == Init /\ [][HandOut \/ Skip]_vars
=============================================================================
