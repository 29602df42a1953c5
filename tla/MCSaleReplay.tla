---------------------------- MODULE MCSaleReplay ----------------------------
(* Small instances of the replayed request for TLC.                          *)
EXTENDS SaleReplay
=============================================================================
