----------------------------- MODULE MCVAddress -----------------------------
(***************************************************************************)
(* VAddress with a space of 3 addresses and at most 4 nodes in 2 pages.    *)
(* Callers free any range, also around, between and before allocations.    *)
(***************************************************************************)
EXTENDS VAddress

MCAddress == 0 .. 4
MCSize == {0, 1, 2, 4}
==============================================================================
