----------------------------- MODULE KernelMemory -----------------------------
(***************************************************************************)
(* kernel_main (src/kernel.c) from the end of the messages on, where it    *)
(* uses memory: it removes the mappings of the bootloader from the lower   *)
(* half and runs the self tests of the MMU driver, which map a page of the *)
(* physical allocator, use it through the mappings, unmap it and free it.  *)
(* Page tables, driver and allocator are those of Mmu; what is added is    *)
(* the kernel that calls them and the processor's cache of translations.   *)
(***************************************************************************)
EXTENDS Mmu, Sequences, SequencesExt, FiniteSets

CONSTANTS
  WriteAddress,   \* where test_mmu writes to its page (0x12345000)
  ReadAddress,    \* where it reads from the same page (0x98765000)
  LoadAddress,    \* where test_exe runs its program (0x4000)
  Text, File      \* the first words of what is copied to the pages

TestAddresses == {WriteAddress, ReadAddress, LoadAddress}

ASSUME TestAssumption ==
  /\ TestAddresses \subseteq 0 .. HALF - 1
  /\ WriteAddress # ReadAddress
  /\ Text \in Entry /\ File \in Entry

VARIABLES
  missing,   \* pages of Pool that this machine does not have
  tlb,       \* translations in the cache of the processor
  pc,        \* place in kernel_main
  page,      \* the local variable of the test
  output,    \* what the tests have printed
  faulted,   \* the processor took an exception, which nothing handles
  misled     \* it has used a translation that the page tables did not hold

kernelVars == <<mem, held, halted, missing, tlb, pc, page, output, faulted, misled>>

------------------------------------------------------------------------------
(* kernel_main *)

Op(name) == [op |-> name]
MapPage(flags, at) == [op |-> "map", flags |-> flags, at |-> at]
Unmap(at) == [op |-> "unmap", at |-> at]
Copy(data, at) == [op |-> "copy", data |-> data, at |-> at]
Puts(at) == [op |-> "puts", at |-> at]
Call(at) == [op |-> "call", at |-> at]

TestMmuFreesEarly ==       \* mutant: freed before the second unmap
  << Op("allocate"),
     MapPage({"WRITE"}, WriteAddress), MapPage({}, ReadAddress),
     Copy(Text, WriteAddress), Puts(ReadAddress),
     Unmap(WriteAddress), Puts(ReadAddress),
     Op("free"), Unmap(ReadAddress) >>
TestMmu ==
  << Op("allocate"),
     MapPage({"WRITE"}, WriteAddress), MapPage({}, ReadAddress),
     Copy(Text, WriteAddress), Puts(ReadAddress),
     Unmap(WriteAddress), Puts(ReadAddress),
     Unmap(ReadAddress), Op("free") >>

TestExeKeepsPage ==                      \* mutant: the page is not freed
  << Op("allocate"),
     MapPage({"WRITE"}, LoadAddress), Copy(File, LoadAddress),
     MapPage({"EXEC"}, LoadAddress), Call(LoadAddress),
     Unmap(LoadAddress) >>
TestExeNoExec ==                  \* mutant: not mapped again to be executed
  << Op("allocate"),
     MapPage({"WRITE"}, LoadAddress), Copy(File, LoadAddress),
     Call(LoadAddress), Unmap(LoadAddress), Op("free") >>
TestExe ==
  << Op("allocate"),
     MapPage({"WRITE"}, LoadAddress), Copy(File, LoadAddress),
     MapPage({"EXEC"}, LoadAddress), Call(LoadAddress),
     Unmap(LoadAddress), Op("free") >>

KernelMain == <<Op("clear")>> \o TestMmu \o TestMmu \o TestExe \o TestExe

(* What it should print. *)
Expected == <<Text, Text, Text, Text, File, File>>

Running == ~halted /\ ~faulted /\ pc <= Len(KernelMain)
Step == KernelMain[pc]

------------------------------------------------------------------------------
(* The processor *)

(* The translations the processor may use for an address: one it has       *)
(* cached, or else (it may have dropped any) the one in the page tables.   *)
(* A cached one stays usable when the page tables change: nothing in the   *)
(* kernel removes it (no invlpg, no reload of CR3).                        *)
Usable(v) == {t \in tlb \cup Mapped(mem) : t.virtual = v}

Permits(t, access) ==
  CASE access = "read" -> TRUE
    [] access = "write" -> "RW" \in t.bits
    [] access = "execute" -> "XD" \notin t.bits

(* An access with the translation t, which stays in the cache.             *)
Uses(t) == misled' = (misled \/ t \notin Mapped(mem))

Access(t, access) ==
  /\ Permits(t, access)
  /\ Uses(t)
  /\ tlb' = tlb \cup {t}
  /\ UNCHANGED faulted

Fault(v, access) ==
  /\ \/ Usable(v) = {} /\ UNCHANGED misled
     \/ \E t \in Usable(v) : ~Permits(t, access) /\ Uses(t)
  /\ faulted' = TRUE
  /\ UNCHANGED <<mem, held, halted, missing, tlb, pc, page, output>>

(* The processor may cache a translation at any time, without an access.   *)
Fill ==
  /\ Running
  /\ \E t \in Mapped(mem) : /\ t.virtual \in TestAddresses
                            /\ tlb' = tlb \cup {t}
  /\ UNCHANGED <<mem, held, halted, missing, pc, page, output, faulted, misled>>

------------------------------------------------------------------------------
(* The steps of the kernel *)

Go == pc' = pc + 1

ClearNothing(table) == table                     \* mutant of ClearedTable
ClearedTable(table) ==
  [i \in Index |-> IF i < ENTRIES \div 2 THEN Zero ELSE table[i]]

ClearMapLowerHalf ==
  /\ Running /\ Step.op = "clear"
  /\ mem' = [mem EXCEPT ![Root] = ClearedTable(@)]
  /\ Go
  /\ UNCHANGED <<held, halted, missing, tlb, page, output, faulted, misled>>

(* pmm_allocate_page, whose result the tests do not look at: 0 for none.   *)
TestAllocate ==
  /\ Running /\ Step.op = "allocate"
  /\ page' = IF Free(State) = {} THEN 0 ELSE Min(Free(State))
  /\ held' = held \cup ({page'} \ {0})
  /\ Go
  /\ UNCHANGED <<mem, halted, missing, tlb, output, faulted, misled>>

(* A call of the driver, which may panic; the pages of Pool that are       *)
(* missing are no pages it could get.                                      *)
OnePage(at) == [address |-> at, size |-> 1]

TestMap ==
  /\ Running /\ Step.op = "map"
  /\ MmuAssign(OnePage(Step.at), Step.flags, page)
  /\ Go
  /\ UNCHANGED <<missing, tlb, page, output, faulted, misled>>

TestUnmap ==
  /\ Running /\ Step.op = "unmap"
  /\ MmuRemove(OnePage(Step.at))
  /\ Go
  /\ UNCHANGED <<missing, tlb, page, output, faulted, misled>>

(* memcpy to the first word of the page that the processor finds.          *)
TestCopy ==
  /\ Running /\ Step.op = "copy"
  /\ \/ \E t \in Usable(Step.at) :
          /\ Access(t, "write")
          /\ mem' = [mem EXCEPT ![t.page][0] = Step.data]
          /\ Go
          /\ UNCHANGED <<held, halted, missing, page, output>>
     \/ Fault(Step.at, "write")

(* puts, and the call of the program, print what they find.                *)
TestUse(op, access) ==
  /\ Running /\ Step.op = op
  /\ \/ \E t \in Usable(Step.at) :
          /\ Access(t, access)
          /\ output' = Append(output, mem[t.page][0])
          /\ Go
          /\ UNCHANGED <<mem, held, halted, missing, page>>
     \/ Fault(Step.at, access)

(* pmm_free_page, which ignores 0 and panics for a page that is not held.  *)
TestFree ==
  /\ Running /\ Step.op = "free"
  /\ held' = held \ {page}
  /\ halted' = (page # 0 /\ page \notin held)
  /\ page' = 0
  /\ Go
  /\ UNCHANGED <<mem, missing, tlb, output, faulted, misled>>

KernelStep ==
  \/ ClearMapLowerHalf
  \/ TestAllocate
  \/ TestMap
  \/ TestUnmap
  \/ TestCopy
  \/ TestUse("puts", "read")
  \/ TestUse("call", "execute")
  \/ TestFree

(* The end of kernel_main, a panic and a fault: start.s halts.             *)
Stop == ~Running /\ UNCHANGED kernelVars

(* Machines with memory of every size.  A missing page counts as held: the *)
(* allocator never gives it out.                                           *)
KernelInit ==
  /\ mem = BootMemory
  /\ missing \in {{p \in Pool : p > top} : top \in Memory}
  /\ held = missing
  /\ halted = FALSE
  /\ tlb = {}
  /\ pc = 1
  /\ page = 0
  /\ output = <<>>
  /\ faulted = FALSE
  /\ misled = FALSE

KernelNext == KernelStep \/ Fill \/ Stop

KernelSpec == KernelInit /\ [][KernelNext]_kernelVars

------------------------------------------------------------------------------
(* Properties *)

(* The processor may use translations of mappings that are gone, and what  *)
(* memory holds then depends on them: a stale one of the bootloader leads  *)
(* the memcpy of a test to a foreign page.  What follows is said of the    *)
(* kernel until that happens; SelfTestsPass alone is said without the      *)
(* reserve, and does not hold.                                             *)

(* Types of the state. *)
KernelTypeOK ==
  /\ pc \in 1 .. Len(KernelMain) + 1
  /\ faulted \in BOOLEAN /\ misled \in BOOLEAN
  /\ ~misled => /\ mem \in [Memory -> [Index -> Entry]]
                /\ missing \subseteq held /\ held \subseteq Pool
                /\ \A t \in tlb : t.virtual \in TestAddresses
                /\ page \in {0} \cup Pool
                /\ halted \in BOOLEAN

(* The self tests print what they were written to show: the text is read   *)
(* through the other mapping, still after the first one has gone; the      *)
(* program runs where it was loaded; both a second time, when page tables  *)
(* and pages have been freed and taken again.                              *)
SelfTestsPass == ~faulted /\ IsPrefix(output, Expected)

(* They do when every translation that is used is one of the page tables   *)
(* at that time: what goes wrong with them is never the driver's work.     *)
SelfTestsPassUnlessMisled == ~misled => SelfTestsPass

(* Between two calls the pages in use are the page of the test and the     *)
(* page tables that are linked, and these differ: unmapping and freeing    *)
(* give everything back, also when a panic stops the kernel halfway.       *)
PagesAccounted ==
  ~misled => /\ held \ missing = (Tables \cap Pool) \cup ({page} \ {0})
             /\ page \notin Tables

(* Once the mappings of the bootloader are gone, the page tables lead      *)
(* from no address of the lower half but to the page of the test: never to *)
(* a page that was freed, or that a large page of the bootloader covered.  *)
(* (The cache may: it holds translations of every mapping there was.)      *)
FreedUnreachable ==
  ~misled /\ pc > 1 => \A t \in Mapped(mem) : t.virtual < HALF => t.page = page

(* Only page tables and the page of the test are ever written.  With no    *)
(* memory left the test takes page 0 for its page, and a large page of the *)
(* bootloader looks like a page table; neither of them is written to.      *)
OnlyOwnWrites ==
  [][~misled' => \A p \in Memory : mem'[p] # mem[p] =>
                   p \in Tables \cup Tables' \cup ({page} \ {0})]_kernelVars

(* The pages the tests need at a time: their page, and the tables for the  *)
(* two addresses of test_mmu, one more for each depth where they differ.   *)
PagesNeeded ==
  1 + Cardinality({<<depth, at \div Span(depth)>> :
                     depth \in 0 .. DEPTH_BOTTOM - 1, at \in {WriteAddress, ReadAddress}})

(* So many pages are enough, and are needed, however often the tests are   *)
(* repeated: with them the kernel does not panic, and without them it does *)
(* not get to its end (a test does not go on without its page).            *)
EnoughPages ==
  ~misled =>
    IF Cardinality(Pool \ missing) >= PagesNeeded THEN ~halted
                                                  ELSE pc <= Len(KernelMain)
==============================================================================
