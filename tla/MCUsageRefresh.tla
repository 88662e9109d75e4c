---------------------------- MODULE MCUsageRefresh ----------------------------
(* Two accounts polled one at a time, two callers, two queue workers.          *)
EXTENDS UsageRefresh
=============================================================================
