-------------------------------- MODULE MCPmm --------------------------------
(***************************************************************************)
(* Pmm with pages of 2 bytes, words of 2 bits, control blocks of 2 words   *)
(* (blocks of at most 4 pages, 8 bytes) and at most 3 blocks.              *)
(***************************************************************************)
EXTENDS Pmm

(* A region that is not a whole number of pages, one that is split into a  *)
(* maximal block and a tail (one entry too many with the others), one that *)
(* is dropped as too small, and one split with its tail dropped as well.   *)
MCMemoryMap ==
  { [base |-> 0,  length |-> 5],
    [base |-> 6,  length |-> 12],
    [base |-> 20, length |-> 2],
    [base |-> 24, length |-> 10] }

(* Every page of the map, unmanaged pages and control blocks included, and *)
(* the second byte of two pages.                                           *)
MCAddress == {2 * n : n \in 0 .. 17} \cup {3, 11}
==============================================================================
