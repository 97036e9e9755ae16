# ukulele in TLA+

ukulele is a small x86-64 kernel: it boots through limine, writes to a serial
port or the framebuffer, manages physical pages, page tables, ranges of virtual
addresses and arenas, runs a few self tests and stops. This directory holds
TLA+ models of its parts, the TLC runs that check them and proofs about them.
The source is under `src/src/`, its documents are `src/*.md`.

The kernel has one thread, runs with interrupts off, and nothing is persistent.
There are no crashes to recover from and no messages to lose. What is hard here is of
another kind: data structures edited while they are walked; arithmetic at the
ends of tables, pages and address spaces; resources that run out half way
through an operation; state that outlives the operation that made it (links in
pages, entries, streams, chip registers); and long sequences of legal calls. Only at the serial port
does something else run beside the processor.

## 1. The system

| Part | Source | State | Operations | Calls |
|---|---|---|---|---|
| Physical memory manager | `memory/pmm.c` | table of control pointers, a bit set per block | `pmm_new`, `pmm_add`, `pmm_allocate_page`, `pmm_free_page`, `pmm_count_pages` | `panic` |
| Virtual address space | `memory/vaddress.c` | list of regions in use, free list and pages of its nodes | `vaddress_space_new`, `vaddress_allocate`, `vaddress_free`, `vaddress_print` | pmm, `panic` |
| MMU driver | `drivers/mmu.c` | page tables in memory | `mmu_assign`, `mmu_remove`, `mmu_lookup_step` | pmm, `panic` |
| Arenas, allocator interface | `memory/arena_allocator.c`, `memory/allocator.c` | chain of pages, offset in the newest | `make_arena_pmm_allocator`, `kalloc`, `krealloc`, `kfree`, deletion | pmm |
| Serial driver | `drivers/serial.c` | registers and FIFOs of the chips | `serial_detect`, `serial_write`, `serial_read` | I/O ports |
| Streams | `libk/stdio.c` | table of 8 streams, `errno` | `fopencookie`, `fwrite`, `fputc`, `fputs`, `puts`, `clearerr`, `fread` | writers of the cookies |
| Formatted output | `libk/vfprintf.c` | none between calls | `vfprintf` | streams, `strnlen` |
| Framebuffer | `drivers/fb32.c`, `fb_cookie_write` | cursor, pixels | `framebuffer_write_at`, lines, a fractal | |
| Strings, errors | `libk/string.c`, `string_x86.s`, `errno.c` | `errno` | as in libc | |
| Kernel | `kernel.c` | `stdout`, `pmm` | boot, self tests | all |
| Panic | `panic.c` | | prints and stops for ever | streams |

Not part of the running kernel: `memory/vmm.c` (not built), `tar.c` (not
linked), `memory/heap.h` (no definition). Boot code, linker script and font data
have no state to model. `PROJECT.json` lists every part with its status.

What makes each part correct:

- **Physical memory manager.** No page is handed out twice; no control page is
  handed out; the cached number of free pages is right; a page freed is the page
  meant; the statistics are exact.
- **Address space.** Ranges handed out do not overlap, freed ranges come back,
  list order and node storage survive every edit, and the loop of a free ends.
- **MMU driver.** A call changes exactly the translations asked for; only page
  tables are written; no table is lost, leaked, shared or freed in use.
- **Arenas.** Blocks are aligned, disjoint and inside their page, deletion gives
  back every page of the arena once and no other. (Deletion does not, when what a
  page held before looks like a link: finding 4.)
- **Serial.** A port that is found is set up; the line carries the output, in
  order, and nothing of the detection; input is the peer's.
- **Streams and formatted output.** Output is what standard C says for the
  format, also when a writer fails; a failure is reported; streams are not
  shared.
- **Framebuffer.** What was printed shows on the screen as far as it lies on it,
  whatever its size; nothing is drawn far outside of it.
- **Kernel.** The self tests show what they were written to show and give back
  all they took; no page table leads to a page that is freed; nothing but page
  tables and the tests' own page is written. (On a processor that uses old
  translations they may fail: finding 3.)

The hazards, each at its line and with the properties that would catch it, are in
`PROJECT.json`. Those without a property have a note: an assumption on callers
keeps them out of the runs, or the properties allow for them.

## 2. The modules

    PageAllocator <-- Pmm      <-- PmmProofs
    AddressSpace  <-- VAddress <-- VAddressProofs
    AddressMap    <-- Mmu      <-- MmuProofs
                      Mmu      <-- KernelMemory
    KernelMemory, MmuProofs    <-- KernelMemoryProofs
                      Arena    <-- ArenaProofs
    Format        <-- Stdio    <-- StdioProofs
    Serial, Framebuffer        <-- Console <-- ConsoleProofs
    Arithmetic    <-- PmmProofs, ArenaProofs, MmuProofs

`A <- B`: B implements A (where A is an abstract specification), or extends it. `MC...` modules give the
constants of each model their values. Each state-machine module has one action per
function of the code, or per turn of a loop or access to a device where
something can be seen in between. A panic sets `halted`, after which nothing
happens (`panic.c` loops for ever). Definitions marked `mutant` are faulty
variants of the one after them; they show that a property can fail and play no
part in the models.

**PageAllocator, Pmm.** `entry` is `pmm->entry`; the control words of a block
are the set of their one bits, `<<word, bit>>`. `PmmAdd` is `pmm_add` with
all its tail calls: the n-th call fills the n-th inactive entry. `todo` is the
rest of the memory map of `print_meminfo`. `PageAllocator` is what `pmm.h` says: an
allocation gives a page nobody holds, or 0 when there is none; a free gives back
the page around the address or stops the kernel. `Pmm` maps to it with
`pool` the pages that have a bit and `held` those whose bit is zero.

**AddressSpace, VAddress.** `allocated` is the linked list as a sequence,
`unused` and `storage` the two places nodes come from. `vaddress_allocate` is one action (first fit);
`vaddress_free` is one action per turn of its loop, with `call` its place in the
list, because the loop edits the list it walks. `AddressSpace` only knows which
addresses are in use; addresses being freed count as free from the call on.
`call.front` remembers for the properties that a call frees the front of a
region whose rest stays, where the code goes wrong (finding 1).

**AddressMap, Mmu.** `mem` is the physical memory seen as tables. The recursive
walk `apply_nodes` is `ApplyNodes`, a function of the depth whose value is a
function from the state a walk starts in to the one it ends in, with the
callbacks `Reserve`, `Leaf` and `Gc`; the loop over the entries of a table is
`Loop`. Indices computed on a `uintptr_t` wrap, and an index past a table reads
the page that follows. `AddressMap` is the set of translations; `Mapped` reads
it off the tables: `Reached` is what steps of `mmu_lookup_step` find from the
top-level table, depth by depth, as the processor does.

**KernelMemory** composes the MMU driver with its caller. `KernelMain` is the
list of steps of `kernel_main` from `clear_map_lower_half` on, with both self
tests twice; driver calls are the actions of `Mmu` with
the page the test holds, `page` the local variable of the test, and `held` the pages both
have from the one allocator. `missing` gives every amount of memory, none included.
The processor (external) uses for an access the translation of the page
tables or one in `tlb`, fills `tlb` when it likes, and faults when the
rights do not suffice, also for writes of the kernel to pages that are read-only.
`tlb` keeps what the tables lose, since no function of the kernel invalidates an
entry. `misled` remembers for the properties that the processor has used a
translation that the tables did not hold: from then on memory may hold anything, and only
`SelfTestsPass` speaks of it. The model goes on after it as the kernel does.

**Arena.** `arena` holds the arena structs that lie at the start of their first
page, `link` the first word of every page, `blocks` what owners may use.
`arena_pmm_del` is a loop, one action per page (`DelPage`). Other users of the
page allocator run in between calls, so that a page freed by mistake is somebody's.
A page begins with any word of `FreshLinks` when it is allocated, and that is the link
of the newest page. `strayed` remembers for the properties that a deletion has
followed such a word; the deletion goes on, but no call after it is modelled.

**Serial.** `serial_detect` is the sequence of its port accesses
(`DetectSteps`), one action each; `kernel_main` runs it for the port of stdout,
prints, and runs it for every port again. Chips (FIFOs, loopback, divisor latch) and
peers are external and move at any time.

**Framebuffer, Console.** `FbCookieWrite` is one turn of the loop of
`fb_cookie_write`: it draws a character into `pixel`, a map from places in
memory to the dots drawn there, and moves `cursor`. Rows are `pitch` apart,
so that a character may be drawn over the start of the next row. `shown` keeps
what was printed since the cursor was in the first row. `Console` is
the stdout of `kernel_main`: `Serial` with every character of its texts given to
the port or, when the command line or the detection says so, to the framebuffer.

**Format, Stdio.** `Format` gives for one conversion the sequence of the writes
it makes. `Stdio` has the stream table and `fread`, and runs a call of `fprintf` or `puts` write by write, against writers that
take all, a part or nothing. Items of a format are given by their parts;
`Spell` writes them out and `Parse` reads them, so that the parser is under test.

## 3. The runs

| Run | States | What it asks |
|---|---|---|
| `pmm` | 29 000 | counts, blocks and statistics of the page allocator; implements PageAllocator |
| `vaddress` | 396 000 | nodes, order and termination; keeps the promise of AddressSpace in every call that does not free only the front of a region |
| `vaddress_front` | violation | implements AddressSpace (finding) |
| `mmu` | 15 000 | tables form a tree that owns its pages; implements AddressMap |
| `mmu_last_slot` | violation | the last entry of the top-level table (finding) |
| `arena` | 172 000 | blocks, chain, pages and deletion, until one strays; whether straying is the one way to a bad free |
| `arena_fresh` | violation | no bad free at all (finding) |
| `kernel_memory` | 35 000 | the self tests on the page tables, the allocator and the processor, until it uses an old translation |
| `kernel_stale` | violation | the self tests pass without that reserve (finding) |
| `console` | 548 000 | detection, output and input beside chips and peers, and the screen |
| `stdio` | 356 000 | output against standard C, failures, the stream table |
| `stdio_strings` | violation | strings printed up to their end (finding) |

Bounds, and why they are enough:

- `pmm`: pages of 2 bytes, words of 2 bits, control blocks of 2 words, 3 control
  pointers. Sizes are small but every boundary occurs: a block with a partial
  last word, a region split over blocks, a tail too small, a table too small for
  the map, addresses in no block, in control pages and inside pages. Every order of
  add, allocate, free (good and bad) and restart is explored.
- `vaddress*`: 3 addresses and 4 nodes in 2 pages give up to 2 separated
  regions, the split of one region, empty regions (size 0), reuse of nodes from
  both places, and no node left. Frees start before, in, between and after regions.
- `mmu*`: 3 levels of 4 entries instead of 4 of 512, 128 virtual pages, so that
  there is a hole of non-canonical addresses and arithmetic that wraps. With 5
  pages for tables, allocation fails at each depth of a walk. Two-page ranges
  cross tables at each depth. Depth 3 has a top, a middle and a bottom level,
  all the cases the walk tells apart.
- `arena*`: 3 pages of 8 bytes, structs of 4 and links of 2 bytes, sizes that
  fit exactly, by one byte, not at all. Three arenas, or one of three pages. A fresh
  page begins with zero or the address of any page, itself included.
- `kernel_*`: the tables of `mmu`, with the RAM mapped twice by large pages as
  the bootloader does. The test addresses share and part their tables at the levels where
  0x12345000, 0x98765000 and 0x4000 do. 0 to 6 pages; `test_mmu` needs 5 at a
  time. The kernel is one sequence of steps: the choices are the memory and what
  the processor caches and uses, of every mapping there was.
- `console`: 3 ports (one without a chip), FIFOs of 2 bytes, 2 bytes from peers.
  Texts are longer than a FIFO, so that bytes are lost. Every byte of output is
  a different one. All combinations of divisor latch, loopback and line format
  the bootloader may leave. Screens of 1 to 3 columns and rows of characters of
  2 by 2 pixels, with a rest of a column or row and a gap behind the rows or without:
  the text wraps at the right and at the bottom, and a newline comes in every column.
- `stdio`: ints of 8 and longs of 12 bits, values at the ends of both and where
  the number of digits changes; widths below, at and above that number; 2 streams.

Deadlock is checked except in `console`, where the kernel comes to its end.

Assumptions on callers and on the environment are constants or named ASSUMEs:

| Name | Says | Why |
|---|---|---|
| `MapAssumption` (Pmm) | usable regions are aligned and disjoint | the limine protocol |
| `CountFits` (Pmm) | a block's page count fits `uint16_t` | holds for 512 words of 64 bits |
| `LastSlot`, `RemoveUnmapped` (Mmu) | the last top-level entry; removal of unmapped ranges | see the finding; otherwise a second `mmu_remove` writes to physical page 0 (hazard) |
| `LayoutAssumption`, `BootAssumption` (Mmu) | an address is wider than what the tables translate; the tables of the bootloader form a tree of existing pages, outside the pool and without page 0 | x86-64; the limine protocol marks their memory as reclaimable, not usable |
| `CallerAssumption` (Mmu) | pages that are mapped exist; no request meets a large page of the bootloader | `mmu_assign` would take its data for a table (hazard at `mmu.c:153`); the kernel clears such pages first, see KernelMemory |
| `TestAssumption` (KernelMemory) | the test addresses are in the lower half, the two of `test_mmu` differ; text and program are some words | constants of `kernel.c` |
| `ScreenAssumption` (Framebuffer) | a row has room for a character; rows do not overlap; the pitch is a number of pixels | a limine framebuffer of 32 bits per pixel |
| `FreshLinks` (Arena) | what pages hold when allocated | see the finding |
| `LayoutAssumption` (Arena) | the structs fit a page, a header is no larger than an arena, twice a page fits an `unsigned` | 32, 8 and 4096 bytes, 32 bits |
| `CallerAssumption` (Arena) | alignment at least that of a header; sizes that fit an `unsigned` | otherwise blocks overrun their page, or are cut off (hazards) |
| `Shrinks` (Arena) | `krealloc` to a smaller size | otherwise the copy overruns the new block (hazard) |
| `PortAssumption` (Serial) | peers do not send the byte of the loopback test | it would pass for the answer |
| `OutputAssumption` (Serial) | what is printed are sequences of bytes | they are strings |
| loopback (Serial) | a byte written in loopback comes back before the next access | as in the emulator of the Makefile; `serial_detect` does not wait for it |
| `StdioAssumption` | every stream has a cookie; formats and strings are sequences | `kstdio.h` says so; they are strings |
| `ConversionsWriteText` (Stdio) | what a conversion writes is a sequence of texts | `Format` is evaluated on every format of the runs |
| formats of `MCStdio` | the kinds of formats in the kernel | the others differ from standard C, below |

**Fairness.** Only two loops need it: `VAddress` has weak fairness on the turns
of `vaddress_free`, `Arena` on those of `arena_pmm_del`. The code justifies both: with one
thread and no interrupts the processor goes on with a loop it has entered.
Nothing says that callers ever call anything.

### Findings

Five runs are expected to fail; each shows a disagreement between the code and
what the repository says of it (`PROJECT.json` quotes it).

1. `vaddress.c:164`: freeing the front of a region keeps the freed part and
   gives up the rest. Every other call keeps the promise, also on the list
   that such a call leaves behind (`KeepsPromise`), but for one thing: it may leave an
   empty region in the middle of a gap, and an allocation then fails that would fit.
2. `mmu.c:131`: under the last top-level entry, where the kernel image lies, the
   end of an entry's part wraps to 0 and far too much is mapped.
3. `kernel.c:303`: no function of the kernel invalidates the translation cache.
   After `clear_map_lower_half` a translation of the bootloader may still be
   used, and after `test_exe` maps its page again to execute it, the old
   translation that does not allow it.
4. `arena_allocator.c:63`: the link of a new page is never initialised, and
   deletion follows it.
5. `string_x86.s:40`: `strlen` and `strnlen` count the terminator, which is
   printed after every string.

In the model, but outside the formats of the `stdio` run, `vfprintf` differs
from standard C in two more ways: the sign of a negative number comes before a
padding of spaces ("%5i"), and the padding of a string is taken off its
precision ("%8.4s" prints no characters, "%9.2s" a negative number of them).

## 4. The proofs

`PmmProofs` proves, for all page, word, block and table sizes, all memory maps
that satisfy `MapAssumption` and all addresses callers may free:

| Theorem | Says |
|---|---|
| `Invariance` | `Spec => []IInv`, the inductive invariant |
| `TypeCorrect` | `Spec => []TypeOK` |
| `FreeCountCorrect` | the cached count is the number of bits, none outside the block |
| `BlocksStayDisjoint` | no two blocks overlap, control pages included |
| `BlocksStayUsable` | every block lies in one region that was added |
| `CountsAreExact` | `Spec => []CountPagesExact` |
| `Refinement` | `Spec => ImplementsPageAllocator` |

`IInv` is the conjunction of the first four invariants of the run. None of the last
three is inductive alone. The bits of a block matter for its count only
if its type bounds them; an allocation keeps the count right because the lowest
bit is one of the set (`LowestBitIsSet`), and a free because division by the page and
word size finds a bit that is not in it (`BitAtIndex`). A new block is disjoint
from older ones because those lie in regions already added (`BlocksAreUsable`,
which mentions `todo`) and regions are disjoint, and from the
others of the same call because the n-th inactive entry gets the n-th chunk
(`InactiveBeforeOrder`, `ChunkBounds`). There is one lemma per action
(`AddKeepsIInv`, `AllocateKeepsIInv`, `FreeKeepsIInv`), and the two that change
one block share `OneBlockKeepsIInv`. For the refinement, each action under `IInv` is mapped to an
action of `PageAllocator`, or to a stutter; that a page has only one bit, over all blocks,
follows from disjointness. `CountPagesExact` is a consequence of `IInv`, but
one over the whole table: `Counted`, the loop of `pmm_count_pages`, is a recursive function,
and by induction on its turns the statistics after n of them are
the numbers of pages of the blocks below slot n, which are disjoint (`CountedSoFar`).
Induction and recursion are lemmas of `Arithmetic` on sets and functions (`Induction`,
`Recursion`), derived from the least element of a set of naturals, since the
theorems of the library on them have operators as parameters.

`VAddressProofs` proves, for all spaces, sizes, nodes and pages of nodes, and any
addresses and sizes callers give:

| Theorem | Says |
|---|---|
| `Invariant` | `Spec => []IInv` |
| `TypeCorrect` | `Spec => []TypeOK` |
| `NodesStayConserved` | every node is at one place, also between the turns of a free |
| `RegionsStayOrdered` | regions stay sorted and disjoint, also between the turns of a free |
| `PromiseKept` | `Spec => KeepsPromise`: but for the two exceptions of finding 1, every step is one of `AddressSpace`, or a stutter |

`IInv` adds to the types: the order of the list, `NodesOK` (no node twice on the
list, twice unused, or both, and all of them taken from storage), `from <= to`, and
`Swept`: behind the place of the loop no region meets the range, and ahead of it
none loses only its front. Without `Swept` the end of a loop does not follow: the promise is that
the whole range is free, and the loop never looks back. Lists are edited in
three ways (an insertion, a removal, a replacement); that each keeps the order
and the nodes, and what it does to the addresses in use, are lemmas on sequences
that the actions cite. That an allocation returns NULL only if nothing fits is
the lemma that every free range lies in one gap of the list.

`ArenaProofs` proves, for all sizes of pages, structs and blocks and any number of
arenas:

| Theorem | Says | If |
|---|---|---|
| `TypeCorrect` | `Spec => []TypeOK` | always |
| `Invariant` | `Spec => []IInv` | always |
| `BlocksStayUsable` | `[]BlocksUsable`: a block is aligned, large enough and inside a page of its arena | `krealloc` does not shrink |
| `BlocksStayDisjoint` | `[]BlocksDisjoint`: no two blocks overlap | always |
| `ChainStaysComplete` | `[]ChainComplete`: the links lead from the first page through all to the newest | always |
| `PagesStayConserved` | `[]PagesConserved`: every page has one owner, also in the middle of a deletion | always |
| `BadFreesAreAstray` | `[]BadFreeOnlyAstray`: a bad free comes only from an unwritten link that was followed | always |

Nothing is assumed of what fresh pages hold. All but the first and the last speak of the
time before `strayed`: `arena_fresh` shows what follows (finding 4), and
the last theorem that nothing else leads there. `~Shrinks` excludes the overrun by `krealloc` that is among
the hazards. `IInv` is the types and, until `strayed`, `PagesInv`, on chains, owners and the
deletion in progress (`DelOK`: what is left of the chain is held, what is behind it
is not), and `BlocksInv`: a block ends below the offset of the newest page
(`BlockOK`) and offsets are aligned and above the header (`OffsetOK`), so that
the next block is apart from all others. `AlignP2` is computed modulo the
width of an unsigned; that it rounds up all the same is `CallerAssumption` with facts on division.

`ConsoleProofs` proves of the ports, for any number of them, chips present, FIFO depths and
texts, and for peers that send at any time:

| Theorem | Says |
|---|---|
| `Invariant` | `Spec => []SerialInv` |
| `TypeCorrect` | `Spec => []TypeOK`; no FIFO overflows |
| `FoundStaysReady` | a port that was found is set up and stays so |
| `OnlyNoiseHidesChips` | a chip is missed only when its peer sent at the wrong moment |
| `InputStaysGenuine` | input is what the peer sent |
| `WireStaysInOrder` | what a peer receives is a subsequence of the output, on the port of stdout only |
| `WireOnlyGetsOutput` | the invariant of the run that follows from it: each two bytes received were printed in that order |

`SerialInv` says of the port under detection what its registers and
FIFOs are before each of the accesses (`Under`), and of every other port
that it is quiet and, if found, ready. Every access is then a lemma from one line of that
table to the next. `WireStaysInOrder` says more than the run: `WireGetsOutput`
compares the bytes received two by two, which is as much as `Subsequence` (the places of
all of them, which TLC cannot enumerate) when all bytes differ, as in the run; `Subsequence` also
counts equal bytes.

Of the screen it proves, for all sizes of font and screens that satisfy
`ScreenAssumption`, all texts of characters (`TextAssumption`) and any ports and
peers:

| Theorem | Says |
|---|---|
| `OverrunIsBounded` | `ConsoleSpec => []OverrunBounded`: how far outside of the screen is drawn |
| `TextIsReadable` | `ConsoleSpec => []TextReadable`: what was printed and lies on the screen shows, but for the first character of a line that ran over |
| `ImplementsSerial` | `ConsoleSpec => Spec` of `Serial` |
| `PortsBehave` | so all that is proved of the ports holds beside the screen |

The strengthening is `CursorAtEnd`: the cursor is behind the last character of
`shown`, and every character of a row was drawn at most at the right edge.
`OverrunBounded` needs only that the cursor is bounded by `>`. `TextReadable`
says nothing of the dots beside and below the screen: the comparisons
with `>` put a part of the last character of a full line there, or all of it, and of
the last row. For the dots on the screen the new character must not touch one of an older one
(`CellsApart`). A dot of the new one is less than two rows of memory from
the start of its row of pixels. If it is in that row, its place determines the row of pixels, the
dot and the cell, three times by `PlaceUnique` (a number has one quotient and
one rest). If it is in the next one, the older dot is in the
same line of text, since the lines above have ended, and in its
first cell: that is the line that ran over. What happens on the
lines of the ports does not touch the screen.

`StdioProofs` proves, for any number of slots and any cookies, formats, strings,
sizes, writers and readers:

| Theorem | Says | If |
|---|---|---|
| `StreamsStayKept` | `Spec => []StreamsKept`: no stream is given out twice | always |
| `Invariant` | `Spec => []IInv` | `ConversionsWriteText` |
| `TypeCorrect` | `Spec => []TypeOK` | `ConversionsWriteText` |
| `FailuresAreReported` | `Spec => FailureReported` | `ConversionsWriteText` |

Slots are given out in order and never taken back, so that `opened` counts them
(`TableInv`). For the failures, `CallInv` keeps that a call which has written
something has a writer and a clear errno, and that the texts of `puts` are not empty: an
empty text is the one thing `fputs` would fail on without a trace. `ConversionsWriteText` stands for the digits of
numbers, which `Format` takes from powers of the base; their number is found by a
search that only an induction shows to succeed. TLC evaluates the hypothesis on every
format of the runs (an ASSUME of `MCStdio`).

`MmuProofs` proves, for all depths and sizes of tables, all RAMs, pools and
tables of the bootloader that satisfy the assumptions, and all ranges, flags and pages
callers pass, if `~LastSlot` and `~RemoveUnmapped`:

| Theorem | Says |
|---|---|
| `TypeCorrect` | `Spec => []TypeOK` |
| `TablesStayOwned` | `Spec => []TablesAreOwned`: the tables are a tree, and its nodes from the pool are the pages held |
| `NoEmptyTablesStay` | `Spec => []NoEmptyTables` |
| `OnlyTablesAreWritten` | `Spec => OnlyTablesWritten` |
| `Refinement` | `Spec => ImplementsAddressMap` |

Both hypotheses are needed: `mmu_last_slot` shows what goes wrong in the last
slot (finding 2), and a hazard what removing unmapped ranges writes to page 0.

1. *Addresses.* A table at depth d covers an aligned range (`Covers`), and the
   loop of `apply_nodes` cuts what is asked for at the ends of its entries
   (`CutsExist`), although all of it is computed modulo the width of an
   address: this is where `~LastSlot` is used.
2. *Trees.* `Tree(m, N)` says that N is the set of page tables of the memory m,
   that they are in different pages, and which entries link them. Such a set is
   unique (`TreeUnique`) and is `TableNodes` (`TreeIs`); `Leads(m, N)`, the
   entries that lead to memory, are what the processor finds (`LeadsAre`).
   `Good` adds that the pages held are the nodes in the pool. A table may be added (`AddTable`)
   or an empty one dropped (`DropTable`).
3. *Walks.* One lemma for the whole walk of each kind, `ReserveWalk`, `PaintWalk` and
   `CollectWalk`: what holds of the tables and leads afterwards, by induction
   on the levels (`...Walk`) and the turns of a loop (`...Turns`), from one
   turn (`...Step`). A reservation adds only empty tables, on the paths of the
   range, and leaves all leads; when pages run out halfway this holds of
   what is there. Painting changes the leads of the range only. A
   collection drops the empty tables of the range, and a table outside of the pool makes it
   stop with a panic.
4. *Calls.* `AssignIs` and `RemoveIs` put two walks together and translate
   leads into `Mapped`.

The inductive invariant `Inv` is `TypeOK`, `TablesAreOwned`, `NoEmptyTables` and that
large pages stay those of the bootloader: `CallerAssumption` speaks of
the latter only. `NoEmptyTables` is inductive because a reservation makes no table without
a page below it to paint, and because a table that loses its last entry is on the
path of the range that is collected.

`KernelMemoryProofs` proves, for the same depths, sizes, RAMs, pools and tables
of the bootloader, all test addresses and words, every amount of memory and a
processor that caches any translation at any time and drops none:

| Theorem | Says |
|---|---|
| `KernelTypes` | `KernelSpec => []KernelTypeOK` |
| `SelfTestsPassOnTables` | `KernelSpec => []SelfTestsPassUnlessMisled`: no access faults, and the output is the expected one |
| `PagesStayAccounted` | `KernelSpec => []PagesAccounted` |
| `FreedPagesUnreachable` | `KernelSpec => []FreedUnreachable`: by the page tables; the cache may lead to a freed page |
| `OnlyOwnPagesWritten` | `KernelSpec => OnlyOwnWrites` |

All of them speak of the time before `misled`, the first use of a translation that the
page tables do not hold (`OnlyOwnWrites` also excepts that step). The code does not
prevent that use, and `kernel_stale` shows a test that fails by it (finding 3): what is
proved is that the tests, the driver and the allocator play their part, and that an old translation
is the only thing that can go wrong. `LastSlot` plays no part, since the test addresses
are in the lower half, nor does `RemoveUnmapped`, since the tests remove what they mapped.

The invariants say nothing of what has been mapped so far, so none is
inductive. `UnlessMisled`, the inductive one, is that `KInv` holds unless `misled`. `KInv` adds, in three layers:

1. `Core`, at every step: the tables are a tree that holds its pages (`Good` of `MmuProofs`,
   with the page of the test and the missing pages as the others that are held), and the output is a beginning of the expected one.
2. `LowerIsOwn`, once the lower half is cleared: there are no large pages left in it, what is
   mapped there is the page of the test, and no table of the lower half is empty.
   The first comes from `ClearTree`: the tables that clearing unlinks belong to the bootloader,
   so that none of the pool is lost with them.
3. `Situation`, until a panic: at each place of the two tests, exactly which translations the
   lower half holds (`AtStep`), how much was printed, and what the page contains.
   `MmuTestStep` and `ExeTestStep` lead from each place to the next one.

The calls are `AssignIs` and `RemoveIs` for one page (`MapOne`, `UnmapOne`). Between two
tests nothing is mapped, and then no table of the lower half is left at all
(`NoneLower`: the deepest would map something). This decides the one subtle
case, a test that got no page: `pmm_allocate_page` had none, the lower half has
no table, and the first `mmu_assign` needs one and panics before page 0 is
mapped (`AssignStarves`).

The facts on division, remainders, induction and least elements that `PmmProofs`, `ArenaProofs`
and `MmuProofs` need are the lemmas of `Arithmetic`.

**Only model-checked**, and why:

- `EnoughPages` (KernelMemory): how many pages the tests need is a count of the tables on the
  paths of two addresses; `AssignIs` says that a call panics only with the tables intact, not when it does.
- `PrintfStandard` (Stdio): digits and numerals are recursions on the value.
- Liveness under fairness: `FreeReturns`, `DeleteReturns`.

## 5. Not modelled, and why

- Lines and the **fractal** of the framebuffer: nothing calls the first, the
  second is numeric code that nothing depends on and that does not return.
- The texts of `print_limine_info` (the text `Report` stands for them),
  `test_vaddr` and `test_arena`, which nothing calls; what they do is among the
  behaviours of `VAddress` and `Arena`.
- `perror`, `memmove`, `tar.c`: nothing in the kernel calls them; `strstr` is
  called twice at boot, to look at the command line.
- `mmu_*` with a table other than the current one, and unaligned arguments,
  which are panics before anything is done.
- Contents of pages and blocks other than tables and links.
- Boot code, the linker script, font data and unused declarations.

## 6. Plan

Written, in this order: Pmm with its proofs, VAddress, Mmu, Arena, Serial,
Format and Stdio, KernelMemory, Framebuffer and Console with its proofs, and the
proofs of VAddress, Arena, Serial, Stdio, Mmu and KernelMemory. Next:

1. `EnoughPages` as a theorem, from when a reservation panics.
2. String functions against their reference definitions.
