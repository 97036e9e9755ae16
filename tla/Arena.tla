-------------------------------- MODULE Arena --------------------------------
(***************************************************************************)
(* Arenas on the physical memory manager, src/memory/arena_allocator.c,    *)
(* called through the wrappers of src/memory/allocator.c.  An arena is a   *)
(* chain of pages: the first begins with the arena itself, the others with *)
(* a link.  Blocks are cut from the newest page and all given back when    *)
(* the arena is deleted.  Other parts of the kernel use the same pages.    *)
(***************************************************************************)
EXTENDS Naturals, Sequences, SequencesExt

CONSTANTS
  PAGE_SIZE,     \* bytes of a page (4096)
  ARENA_SIZE,    \* sizeof (struct arena_pmm) (32)
  HEADER_SIZE,   \* sizeof (struct arena_pmm_page_header) (8)
  UNSIGNED,      \* 2 to the width of an unsigned (2^32)
  Pages,         \* pages of the physical memory manager
  NULL,          \* the null pointer, and no page
  FreshLinks,    \* what the first word of a page may hold before its use
  P2Align,       \* alignments callers ask for
  Size,          \* sizes callers ask for
  Shrinks        \* callers make blocks smaller with krealloc

ASSUME LayoutAssumption ==
  /\ PAGE_SIZE \in Nat
  /\ ARENA_SIZE \in 1 .. PAGE_SIZE - 1
  /\ HEADER_SIZE \in 1 .. ARENA_SIZE
  /\ UNSIGNED \in Nat /\ UNSIGNED > 2 * PAGE_SIZE
  /\ NULL \notin Pages
  /\ FreshLinks \subseteq Pages \cup {NULL}

(* An alignment is at least that of the page header, and the arena struct  *)
(* leaves room on its page.  Sizes fit an unsigned with the alignment.     *)
ASSUME CallerAssumption ==
  /\ \A p2 \in P2Align : /\ p2 \in Nat
                         /\ PAGE_SIZE % (2 ^ p2) = 0
                         /\ HEADER_SIZE <= 2 ^ p2
  /\ Size \subseteq 1 .. UNSIGNED - PAGE_SIZE

VARIABLES
  held,      \* pages allocated and not freed, by anyone
  other,     \* those allocated by the other parts of the kernel
  link,      \* first word of every page: the link of arena pages
  arena,     \* the arenas, by their first page
  blocks,    \* blocks their owners may use
  del,       \* arena_pmm_del in progress: the arena and `page`
  halted,    \* panic() was called
  strayed    \* for the properties only: a deletion has followed the link of
             \*   an arena's newest page, which nothing had written

vars == <<held, other, link, arena, blocks, del, halted, strayed>>

Idle == [arena |-> NULL, page |-> NULL]

(* A call can be made.  What is done with pages that a deletion freed       *)
(* although others use them is not followed any further.                   *)
Running == ~halted /\ ~strayed /\ del = Idle

(* In the width of an unsigned, whatever the width of val.                 *)
AlignP2(val, p2) ==
  LET sum == (val + 2 ^ p2 - 1) % UNSIGNED
  IN  sum - (sum % (2 ^ p2))

(* pmm_allocate_page, with what the page happens to begin with. *)
AllocatePage(page, word) ==
  /\ page \in Pages \ held
  /\ word \in FreshLinks
  /\ held' = held \cup {page}

PageLeft == Pages \ held # {}

------------------------------------------------------------------------------
(* The other parts of the kernel *)

OtherAllocate ==
  /\ Running
  /\ \E page \in Pages, word \in FreshLinks :
       /\ AllocatePage(page, word)
       /\ other' = other \cup {page}
       /\ link' = [link EXCEPT ![page] = word]
  /\ UNCHANGED <<arena, blocks, del, halted, strayed>>

OtherFree(page) ==
  /\ Running
  /\ page \in other
  /\ other' = other \ {page}
  /\ held' = held \ {page}
  /\ UNCHANGED <<link, arena, blocks, del, halted, strayed>>

------------------------------------------------------------------------------
(* The arena *)

(* make_arena_pmm_allocator; `pages` is kept for the properties only.      *)
MakeArena(p2align) ==
  /\ Running
  /\ \E page \in Pages, word \in FreshLinks :
       /\ AllocatePage(page, word)
       /\ link' = [link EXCEPT ![page] = NULL]
       /\ arena' = [a \in DOMAIN arena \cup {page} |->
            IF a = page
            THEN [current_page |-> page,
                  current_offset |-> AlignP2(ARENA_SIZE, p2align),
                  p2align |-> p2align,
                  pages |-> <<page>>]
            ELSE arena[a]]
  /\ UNCHANGED <<other, blocks, del, halted, strayed>>

Block(a, page, offset, size, want, copied) ==
  [arena |-> a, page |-> page, offset |-> offset, size |-> size,
   want |-> want, copied |-> copied]

FitsNotFull(a, want) == arena[a].current_offset < PAGE_SIZE       \* mutant
Fits(a, want) ==
  arena[a].current_offset + AlignP2(want, arena[a].p2align) <= PAGE_SIZE

BumpUnaligned(offset, want, size) == offset + want           \* mutant of Bump
Bump(offset, want, size) == offset + size

(* From the space left on the current page. *)
AllocateHere(a, want, copied, kept) ==
  LET size == AlignP2(want, arena[a].p2align)
      offset == arena[a].current_offset
  IN  /\ Fits(a, want)
      /\ blocks' = kept \cup
           {Block(a, arena[a].current_page, offset, size, want, copied)}
      /\ arena' = [arena EXCEPT ![a].current_offset = Bump(offset, want, size)]
      /\ UNCHANGED <<held, link>>

FirstOffsetNoHeader(p2align) == 0                \* mutant: header not skipped
FirstOffset(p2align) == AlignP2(HEADER_SIZE, p2align)

LinkFirst(a, page, word) ==       \* mutant: linked to the arena's first page
  [link EXCEPT ![a] = page, ![page] = word]

(* The newest page points to the new one, whose own link is left as it is. *)
LinkPage(a, page, word) ==
  [link EXCEPT ![arena[a].current_page] = page, ![page] = word]

(* From a new page. *)
AllocateNext(a, want, copied, kept) ==
  LET size == AlignP2(want, arena[a].p2align)
      offset == FirstOffset(arena[a].p2align)
  IN  /\ ~Fits(a, want)
      /\ \E page \in Pages, word \in FreshLinks :
           /\ AllocatePage(page, word)
           /\ link' = LinkPage(a, page, word)
           /\ blocks' = kept \cup {Block(a, page, offset, size, want, copied)}
           /\ arena' = [arena EXCEPT ![a].current_page = page,
                                     ![a].current_offset = offset + size,
                                     ![a].pages = Append(@, page)]

(* arena_pmm_alloc; a block that fails is a null pointer.                  *)
TooLarge(a, want) == AlignP2(want, arena[a].p2align) >= PAGE_SIZE
AllocFails(a, want) == TooLarge(a, want) \/ (~Fits(a, want) /\ ~PageLeft)
Alloc(a, want, copied, kept) ==
  /\ ~TooLarge(a, want)
  /\ AllocateHere(a, want, copied, kept) \/ AllocateNext(a, want, copied, kept)

Kalloc(a, want) ==
  /\ Running
  /\ \/ /\ Alloc(a, want, 0, blocks)
        /\ UNCHANGED <<other, del, halted, strayed>>
     \/ /\ AllocFails(a, want)
        /\ UNCHANGED vars

(* krealloc on a block, without vtbl->realloc: the whole old block is      *)
(* copied into the new one, and the old one is dropped.                    *)
Krealloc(b, want) ==
  /\ Running
  /\ Shrinks \/ want > b.size
  /\ \/ /\ Alloc(b.arena, want, b.size, blocks \ {b})
        /\ UNCHANGED <<other, del, halted, strayed>>
     \/ /\ AllocFails(b.arena, want)
        /\ UNCHANGED vars

(* kfree, and krealloc to size 0: the arena has no vtbl->free.             *)
Kfree(b) ==
  /\ Running
  /\ blocks' = blocks \ {b}
  /\ UNCHANGED <<held, other, link, arena, del, halted, strayed>>

(* DELETE_IFACE: the owner and the blocks of the arena are gone.           *)
Delete(a) ==
  /\ Running
  /\ del' = [arena |-> a, page |-> a]
  /\ blocks' = {b \in blocks : b.arena # a}
  /\ UNCHANGED <<held, other, link, arena, halted, strayed>>

DelStay(page) == UNCHANGED del                       \* mutant of DelAdvance
DelAdvance(page) == del' = [del EXCEPT !.page = link[page]]

(* The link of the newest page is the word the page began with.            *)
Unwritten(page) == page = arena[del.arena].current_page /\ link[page] # NULL

(* A turn of the loop in arena_pmm_del: the link is read, then the page    *)
(* freed; pmm_free_page panics when nobody holds it.                       *)
DelPage ==
  /\ ~halted
  /\ del.page # NULL
  /\ DelAdvance(del.page)
  /\ held' = held \ {del.page}
  /\ halted' = (del.page \notin held)
  /\ strayed' = (strayed \/ Unwritten(del.page))
  /\ UNCHANGED <<other, link, arena, blocks>>

DelReturn ==
  /\ ~halted
  /\ del # Idle /\ del.page = NULL
  /\ arena' = [a \in DOMAIN arena \ {del.arena} |-> arena[a]]
  /\ del' = Idle
  /\ UNCHANGED <<held, other, link, blocks, halted, strayed>>

(* Nothing happens after a panic, and nothing is followed after straying.  *)
Halt ==
  /\ halted \/ (strayed /\ del = Idle)
  /\ UNCHANGED vars

Init ==
  /\ held = {}
  /\ other = {}
  /\ link = [page \in Pages |-> NULL]
  /\ arena = <<>>
  /\ blocks = {}
  /\ del = Idle
  /\ halted = FALSE
  /\ strayed = FALSE

Next ==
  \/ OtherAllocate
  \/ \E page \in other : OtherFree(page)
  \/ \E p2align \in P2Align : MakeArena(p2align)
  \/ \E a \in DOMAIN arena, want \in Size : Kalloc(a, want)
  \/ \E b \in blocks, want \in Size : Krealloc(b, want)
  \/ \E b \in blocks : Kfree(b)
  \/ \E a \in DOMAIN arena : Delete(a)
  \/ DelPage
  \/ DelReturn
  \/ Halt

(* The processor goes on with a loop it has entered. *)
Fairness == WF_vars(DelPage \/ DelReturn)

Spec == Init /\ [][Next]_vars /\ Fairness

------------------------------------------------------------------------------
(* Properties *)

ArenaStruct ==
  [current_page : Pages, current_offset : 0 .. PAGE_SIZE,
   p2align : P2Align, pages : Seq(Pages)]
Blocks ==
  [arena : Pages, page : Pages, offset : Nat, size : Nat, want : Nat, copied : Nat]

(* Types of the state; an arena never counts past the end of its page.     *)
TypeOK ==
  /\ held \subseteq Pages
  /\ other \subseteq Pages
  /\ link \in [Pages -> Pages \cup {NULL}]
  /\ DOMAIN arena \subseteq Pages
  /\ \A a \in DOMAIN arena : arena[a] \in ArenaStruct
  /\ blocks \subseteq Blocks
  /\ del \in [arena : Pages \cup {NULL}, page : Pages \cup {NULL}]
  /\ halted \in BOOLEAN /\ strayed \in BOOLEAN

(* The link of an arena's newest page is whatever the page began with, and *)
(* once a deletion has followed one the pages of anyone may be freed.  The *)
(* properties say that nothing is wrong before: no other step relies on    *)
(* what a fresh page holds.                                                *)

(* What the owner of a block relies on: it is aligned, as large as it asked *)
(* for, inside a page of its arena and after the arena struct or the link  *)
(* at the beginning of the page, and no copy made by krealloc ends after it. *)
BlocksUsable ==
  ~strayed => \A b \in blocks :
    /\ b.offset % (2 ^ arena[b.arena].p2align) = 0
    /\ b.want <= b.size /\ b.copied <= b.size
    /\ b.page \in ToSet(arena[b.arena].pages)
    /\ b.offset >= (IF b.page = b.arena THEN ARENA_SIZE ELSE HEADER_SIZE)
    /\ b.offset + b.size <= PAGE_SIZE

(* No two blocks in use overlap, over all arenas. *)
BlocksDisjoint ==
  ~strayed => \A b, c \in blocks :
    \/ b = c
    \/ b.page # c.page
    \/ b.offset + b.size <= c.offset
    \/ c.offset + c.size <= b.offset

(* From the first page of an arena the links lead through all of its pages *)
(* to the newest; an arena of one page ends there.                         *)
ChainComplete ==
  ~strayed => \A a \in DOMAIN arena : LET pages == arena[a].pages IN
    /\ Head(pages) = a /\ Last(pages) = arena[a].current_page
    /\ \A i \in 1 .. Len(pages) - 1 : link[pages[i]] = pages[i + 1]
    /\ Len(pages) = 1 => link[a] = NULL

(* Pages an arena has not given back. *)
Owned(a) ==
  LET pages == arena[a].pages
      pos == IF del.arena # a THEN 1
             ELSE IF del.page = NULL THEN Len(pages) + 1
             ELSE CHOOSE i \in DOMAIN pages : pages[i] = del.page
  IN  {pages[i] : i \in pos .. Len(pages)}

(* Deleting an arena gives back all of its pages, each once, and no page   *)
(* of another arena or of other parts of the kernel.                       *)
PagesConserved ==
  ~strayed =>
    /\ held = other \cup UNION {Owned(a) : a \in DOMAIN arena}
    /\ \A a \in DOMAIN arena : Owned(a) \cap other = {}
    /\ \A a, b \in DOMAIN arena : a # b => Owned(a) \cap Owned(b) = {}

(* Only pages that pmm_allocate_page has handed out are freed: deleting an *)
(* arena does not end in the panic of pmm_free_page.                       *)
NoBadFree == ~halted

(* It does so in one way only: a page that nobody holds is freed after a   *)
(* deletion has followed a link that nothing had written.                  *)
BadFreeOnlyAstray == halted => strayed

(* arena_pmm_del comes back, or strays and stops the kernel: also a link   *)
(* into the arena itself or into another one does not keep it going.       *)
DeleteReturns == del # Idle ~> del = Idle \/ (strayed /\ halted)
==============================================================================
