-------------------------------- MODULE MCMmu --------------------------------
(***************************************************************************)
(* Mmu with 3 levels of tables of 4 entries (64 virtual pages, 32 in each  *)
(* half), 5 pages for tables, and what the bootloader leaves: the          *)
(* top-level table, and in the higher half a large page (addresses 96 to   *)
(* 99) and a small one (103) below it.                                     *)
(***************************************************************************)
EXTENDS Mmu

MCMemory == 0 .. 10
MCPool == 4 .. 8
Table(page) == [page |-> page, bits |-> PM_PERMS]

MCBootMemory ==
  [page \in MCMemory |->
     CASE page = 0 -> [i \in 0 .. 3 |-> [page |-> 10, bits |-> {"RW"}]]
       [] page = 1 -> [ZeroTable EXCEPT ![2] = Table(2)]
       [] page = 2 -> [ZeroTable EXCEPT ![0] = [page |-> 0, bits |-> {"P", "RW", "PS"}],
                                        ![1] = Table(3)]
       [] page = 3 -> [ZeroTable EXCEPT ![3] = [page |-> 9, bits |-> {"P", "RW"}]]
       [] OTHER -> ZeroTable]

(* Ranges within one table, across tables of each depth, at the end of the *)
(* lower half, and next to and over what the bootloader has mapped.        *)
MCAddress == {3, 15, 31, 103}
==============================================================================
