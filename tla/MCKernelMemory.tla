---------------------------- MODULE MCKernelMemory ----------------------------
(***************************************************************************)
(* KernelMemory with 3 levels of tables of 4 entries.  The bootloader maps *)
(* the RAM with large pages twice: as it is from address 0 on, and in the  *)
(* higher half (the direct map) from 96 on.  The addresses of test_mmu     *)
(* differ in the second level and those of both tests in the third, as     *)
(* 0x12345000, 0x98765000 and 0x4000 do.  Up to 6 pages to allocate.       *)
(***************************************************************************)
EXTENDS KernelMemory

MCMemory == 0 .. 11
MCPool == 4 .. 9
Table(p) == [page |-> p, bits |-> PM_PERMS]
Large(p) == [page |-> p, bits |-> {"P", "RW", "PS"}]
RamMap == [i \in 0 .. 3 |-> IF i < 3 THEN Large(4 * i) ELSE Zero]

MCBootMemory ==
  [p \in MCMemory |->
     CASE p = 0 -> [i \in 0 .. 3 |-> [page |-> 10, bits |-> {"RW"}]]
       [] p = 1 -> [ZeroTable EXCEPT ![0] = Table(2), ![2] = Table(3)]
       [] p \in {2, 3} -> RamMap
       [] OTHER -> [i \in 0 .. 3 |-> [page |-> 11, bits |-> {"P", "RW"}]]]

(* As words: "Writing " looks like a present entry, the file does not.     *)
MCText == [page |-> 7, bits |-> {"P", "RW", "US"}]
MCFile == [page |-> 4, bits |-> {}]
==============================================================================
