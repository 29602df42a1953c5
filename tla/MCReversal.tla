----------------------------- MODULE MCReversal -----------------------------
(* Small instances of the reversals of one sale for TLC: every calm sale of *)
(* two units; sales paid in part on account, and in part not at all, with a *)
(* program or database that fails; and one with overlapping requests.       *)
EXTENDS Reversal

Paid(c, k) == [w \in Row |-> IF w = "cash" THEN k ELSE c]

CalmSales ==
    [paid : { Paid(c, k) : c \in 0 .. 1, k \in 0 .. 1 } \cup { Paid(2, 0), Paid(0, 2) },
     returned : 0 .. 1, fiscalized : BOOLEAN, tracked : BOOLEAN, orderly : {TRUE}, sound : {TRUE},
     failures : {2}]

UnsoundSales ==
    [paid : { Paid(1, 1), Paid(0, 1) }, returned : {0}, fiscalized : {TRUE}, tracked : {TRUE},
     orderly : {TRUE}, sound : {FALSE}, failures : {2}]

BusySales ==
    [paid : { Paid(1, 1) }, returned : {0}, fiscalized : {TRUE}, tracked : {TRUE},
     orderly : {FALSE}, sound : {TRUE}, failures : {0}]

MCSales == CalmSales \cup UnsoundSales \cup BusySales
=============================================================================
