----------------------------- MODULE ArenaProofs -----------------------------
(***************************************************************************)
(* Arenas, proved for every layout, number of pages and arguments of the   *)
(* callers, and whatever fresh pages hold: types, and, until a deletion    *)
(* follows a link that nothing had written, that blocks are usable and     *)
(* apart, that links lead through all pages of an arena, and that deletion *)
(* gives back these and no other.  First sizes and offsets, then the pages *)
(* that an arena owns, then one lemma for each operation.                  *)
(***************************************************************************)
EXTENDS Arena, Arithmetic, SequenceTheorems

------------------------------------------------------------------------------
(* Sizes and offsets *)

Unit(p2) == 2 ^ p2

LEMMA Layout ==
  /\ PAGE_SIZE \in Nat /\ ARENA_SIZE \in Nat /\ HEADER_SIZE \in Nat
  /\ 1 <= HEADER_SIZE /\ HEADER_SIZE <= ARENA_SIZE /\ ARENA_SIZE < PAGE_SIZE
  /\ UNSIGNED \in Nat /\ 2 * PAGE_SIZE < UNSIGNED
  /\ NULL \notin Pages
BY LayoutAssumption

(* Alignments divide the page. *)
LEMMA UnitFits ==
  ASSUME NEW p2 \in P2Align
  PROVE  /\ Unit(p2) \in Nat \ {0} /\ HEADER_SIZE <= Unit(p2)
         /\ PAGE_SIZE % Unit(p2) = 0 /\ Unit(p2) <= PAGE_SIZE
<1>1. 2 ^ p2 \in Nat /\ HEADER_SIZE <= 2 ^ p2 /\ PAGE_SIZE % (2 ^ p2) = 0
  BY LayoutAssumption, CallerAssumption
<1> DEFINE k == 2 ^ p2
<1>2. k \in Nat \ {0} BY <1>1, Layout
<1> HIDE DEF k
<1>3. k <= PAGE_SIZE
  <2>1. 0 % k = 0
    <3>1. 0 \in 0 .. k - 1 /\ k * 0 + 0 = 0 BY <1>2
    <3>2. (k * 0 + 0) % k = 0 BY <1>2, <3>1, DivModUnique
    <3> QED BY <3>1, <3>2
  <2>2. PAGE_SIZE % k = 0 BY <1>1 DEF k
  <2>3. 0 + k <= PAGE_SIZE BY <1>2, <2>1, <2>2, Layout, MultiplesApart
  <2> QED BY <1>2, <2>3
<1> QED BY <1>1, <1>2, <1>3 DEF k, Unit

(* ALIGN_P2 rounds up; no sum of a size and an alignment wraps.            *)
LEMMA AlignsUp ==
  ASSUME NEW p2 \in P2Align, NEW val \in Nat, val + PAGE_SIZE <= UNSIGNED
  PROVE  /\ AlignP2(val, p2) \in Nat /\ AlignP2(val, p2) % Unit(p2) = 0
         /\ val <= AlignP2(val, p2) /\ AlignP2(val, p2) < val + Unit(p2)
<1> DEFINE k == Unit(p2)
           s == val + k - 1
<1>1. k \in Nat \ {0} /\ k <= PAGE_SIZE BY UnitFits
<1>2. AlignP2(val, p2) = ((val + k - 1) % UNSIGNED) - (((val + k - 1) % UNSIGNED) % k)
  BY DEF AlignP2, Unit
<1> HIDE DEF k
<1>3. s % UNSIGNED = s
  <2>1. s \in 0 .. UNSIGNED - 1 BY <1>1, Layout
  <2> HIDE DEF s
  <2>2. UNSIGNED * 0 + s = s BY <2>1, Layout
  <2>3. (UNSIGNED * 0 + s) % UNSIGNED = s BY <2>1, Layout, DivModUnique
  <2> QED BY <2>2, <2>3
<1>4. AlignP2(val, p2) = s - (s % k) BY <1>2, <1>3
<1> QED BY <1>1, <1>4, RoundsUp DEF k

(* The size of a block that is not too large leaves room for the header,   *)
(* which takes at most one unit.                                           *)
LEMMA BlockSize ==
  ASSUME NEW a, arena[a].p2align \in P2Align, NEW want \in Size, ~TooLarge(a, want)
  PROVE  LET p2 == arena[a].p2align  size == AlignP2(want, p2) IN
         /\ want \in Nat /\ size \in Nat /\ want <= size /\ size % Unit(p2) = 0
         /\ size + Unit(p2) <= PAGE_SIZE
<1> DEFINE p2 == arena[a].p2align  size == AlignP2(want, p2)
<1>1. want \in Nat /\ want + PAGE_SIZE <= UNSIGNED
  BY CallerAssumption, Layout
<1>2. size \in Nat /\ size % Unit(p2) = 0 /\ want <= size
  BY <1>1, AlignsUp
<1>3. size < PAGE_SIZE
  BY <1>2, Layout DEF TooLarge
<1>4. size + Unit(p2) <= PAGE_SIZE
  <2> HIDE DEF size, p2
  <2>1. Unit(p2) \in Nat \ {0} /\ PAGE_SIZE % Unit(p2) = 0 BY UnitFits DEF p2
  <2> QED BY <1>2, <1>3, <2>1, Layout, MultiplesApart
<1> QED BY <1>1, <1>2, <1>4

LEMMA FirstOffsetFits ==
  ASSUME NEW p2 \in P2Align
  PROVE  /\ FirstOffset(p2) \in Nat /\ FirstOffset(p2) % Unit(p2) = 0
         /\ HEADER_SIZE <= FirstOffset(p2) /\ FirstOffset(p2) <= Unit(p2)
<1> DEFINE f == FirstOffset(p2)  k == Unit(p2)
<1>1. k \in Nat \ {0} /\ HEADER_SIZE <= k BY UnitFits
<1>2. f \in Nat /\ f % k = 0 /\ HEADER_SIZE <= f /\ f < HEADER_SIZE + k
  BY AlignsUp, Layout DEF FirstOffset
<1>3. k % k = 0
  <2> HIDE DEF k
  <2>1. k = k * 1 /\ k \in Nat BY <1>1
  <2> QED BY <1>1, <2>1, MultipleIs
<1> HIDE DEF f, k
<1>4. ~(k < f)
  <2> SUFFICES ASSUME k < f PROVE FALSE OBVIOUS
  <2>1. k + k <= f BY <1>1, <1>2, <1>3, MultiplesApart
  <2> QED BY <1>1, <1>2, <2>1, Layout
<1> QED BY <1>1, <1>2, <1>4 DEF f, k

LEMMA ArenaOffsetFits ==
  ASSUME NEW p2 \in P2Align
  PROVE  LET offset == AlignP2(ARENA_SIZE, p2) IN
         /\ offset \in 0 .. PAGE_SIZE /\ offset % Unit(p2) = 0 /\ ARENA_SIZE <= offset
<1> DEFINE f == AlignP2(ARENA_SIZE, p2)  k == Unit(p2)
<1>1. k \in Nat \ {0} /\ PAGE_SIZE % k = 0 BY UnitFits
<1>2. f \in Nat /\ f % k = 0 /\ ARENA_SIZE <= f /\ f < ARENA_SIZE + k
  BY AlignsUp, Layout
<1> HIDE DEF f, k
<1>3. ~(PAGE_SIZE < f)
  <2> SUFFICES ASSUME PAGE_SIZE < f PROVE FALSE OBVIOUS
  <2>1. PAGE_SIZE + k <= f BY <1>1, <1>2, Layout, MultiplesApart
  <2> QED BY <1>1, <1>2, <2>1, Layout
<1> QED BY <1>2, <1>3, Layout DEF f, k

------------------------------------------------------------------------------
(* The pages of an arena *)

(* The links of sequence p lead from a to cur, and stop if that is a; no   *)
(* page comes twice.                                                       *)
IsChain(p, a, cur, links) ==
  /\ p \in Seq(Pages) /\ Len(p) > 0 /\ p[1] = a /\ p[Len(p)] = cur
  /\ \A i, j \in 1 .. Len(p) : p[i] = p[j] => i = j
  /\ \A i \in 1 .. Len(p) - 1 : links[p[i]] = p[i + 1]
  /\ Len(p) = 1 => links[a] = NULL

LEMMA ChainPages ==
  ASSUME NEW p, NEW a, NEW cur, NEW links, IsChain(p, a, cur, links)
  PROVE  /\ Len(p) \in Nat \ {0} /\ DOMAIN p = 1 .. Len(p)
         /\ \A x : x \in ToSet(p) <=> \E i \in 1 .. Len(p) : x = p[i]
         /\ a \in ToSet(p) /\ cur \in ToSet(p) /\ ToSet(p) \subseteq Pages
<1>1. Len(p) \in Nat \ {0} /\ DOMAIN p = 1 .. Len(p) BY DEF IsChain
<1>2. \A x : x \in ToSet(p) <=> \E i \in 1 .. Len(p) : x = p[i]
  BY <1>1 DEF ToSet
<1>3. 1 \in 1 .. Len(p) /\ Len(p) \in 1 .. Len(p) BY <1>1
<1>4. \A i \in 1 .. Len(p) : p[i] \in Pages BY DEF IsChain
<1> QED BY <1>1, <1>2, <1>3, <1>4 DEF IsChain

LEMMA SetOfAppend ==
  ASSUME NEW p \in Seq(Pages), NEW page
  PROVE  \A x : x \in ToSet(Append(p, page)) <=> x \in ToSet(p) \/ x = page
<1> DEFINE q == Append(p, page)  n == Len(p)
<1>1. /\ n \in Nat /\ DOMAIN p = 1 .. n /\ DOMAIN q = 1 .. n + 1
      /\ q[n + 1] = page /\ \A i \in 1 .. n : q[i] = p[i]
  OBVIOUS
<1>2. ToSet(q) = {q[i] : i \in 1 .. n + 1} /\ ToSet(p) = {p[i] : i \in 1 .. n}
  BY <1>1 DEF ToSet
<1> HIDE DEF q, n
<1>3. \A x : (\E i \in 1 .. n + 1 : x = q[i]) <=> (\E i \in 1 .. n : x = p[i]) \/ x = page
  <2> TAKE x
  <2>1. ASSUME NEW i \in 1 .. n + 1, x = q[i]
        PROVE  (\E j \in 1 .. n : x = p[j]) \/ x = page
    BY <1>1, <2>1
  <2>2. ASSUME NEW i \in 1 .. n, x = p[i] PROVE \E j \in 1 .. n + 1 : x = q[j]
    BY <1>1, <2>2
  <2>3. n + 1 \in 1 .. n + 1 BY <1>1
  <2> QED BY <1>1, <2>1, <2>2, <2>3
<1> QED BY <1>2, <1>3 DEF q

(* Links of other pages do not matter. *)
LEMMA ChainKept ==
  ASSUME NEW p, NEW a, NEW cur, NEW links, IsChain(p, a, cur, links),
         NEW new, \A x \in ToSet(p) : new[x] = links[x]
  PROVE  IsChain(p, a, cur, new)
<1>1. /\ Len(p) \in Nat \ {0}
      /\ \A i \in 1 .. Len(p) : p[i] \in ToSet(p)
  BY ChainPages
<1>2. Len(p) \in 1 .. Len(p) /\ \A i \in 1 .. Len(p) - 1 : i \in 1 .. Len(p)
  BY <1>1
<1> QED BY <1>1, <1>2 DEF IsChain

(* A page put behind the last one. *)
LEMMA ChainGrows ==
  ASSUME NEW p, NEW a, NEW cur, NEW links, IsChain(p, a, cur, links),
         NEW page \in Pages, page \notin ToSet(p),
         NEW new, new[cur] = page,
         \A x \in ToSet(p) : x # cur => new[x] = links[x]
  PROVE  IsChain(Append(p, page), a, page, new)
<1> DEFINE n == Len(p)
           q == Append(p, page)
<1>1. /\ p \in Seq(Pages) /\ n \in Nat \ {0} /\ p[1] = a /\ p[n] = cur
      /\ \A i, j \in 1 .. n : p[i] = p[j] => i = j
      /\ \A i \in 1 .. n - 1 : links[p[i]] = p[i + 1]
      /\ \A i \in 1 .. n : p[i] \in ToSet(p) /\ p[i] # page
  BY ChainPages DEF IsChain
<1>2. /\ q \in Seq(Pages) /\ Len(q) = n + 1 /\ q[n + 1] = page
      /\ \A i \in 1 .. n : q[i] = p[i]
  BY <1>1, AppendProperties
<1> HIDE DEF n, q
<1>3. \A i, j \in 1 .. n + 1 : q[i] = q[j] => i = j
  <2> SUFFICES ASSUME NEW i \in 1 .. n + 1, NEW j \in 1 .. n + 1, q[i] = q[j]
               PROVE  i = j
    OBVIOUS
  <2>1. CASE i \in 1 .. n /\ j \in 1 .. n BY <1>1, <1>2, <2>1
  <2>2. CASE i = n + 1 /\ j \in 1 .. n BY <1>1, <1>2, <2>2
  <2>3. CASE i \in 1 .. n /\ j = n + 1 BY <1>1, <1>2, <2>3
  <2> QED BY <1>1, <2>1, <2>2, <2>3
<1>4. ASSUME NEW i \in 1 .. n
      PROVE  new[q[i]] = q[i + 1]
  <2>1. CASE i = n BY <1>1, <1>2, <2>1
  <2>2. CASE i < n
    <3>1. i \in 1 .. n - 1 /\ i + 1 \in 1 .. n /\ n \in 1 .. n /\ i # n BY <1>1, <2>2
    <3>2. p[i] # cur BY <1>1, <3>1
    <3>3. new[p[i]] = p[i + 1] BY <1>1, <3>1, <3>2
    <3> QED BY <1>2, <3>1, <3>3
  <2> QED BY <1>1, <2>1, <2>2
<1>5. 1 \in 1 .. n /\ (n + 1) - 1 = n BY <1>1
<1> QED BY <1>1, <1>2, <1>3, <1>4, <1>5 DEF IsChain, q

(* Owned, of any arenas A and deletion d. *)
OwnedBy(A, d, a) ==
  LET pages == A[a].pages
      pos == IF d.arena # a THEN 1
             ELSE IF d.page = NULL THEN Len(pages) + 1
             ELSE CHOOSE i \in DOMAIN pages : pages[i] = d.page
  IN  {pages[i] : i \in pos .. Len(pages)}

LEMMA OwnedWhole ==
  ASSUME NEW A, NEW d, NEW a, A[a].pages \in Seq(Pages), d.arena # a
  PROVE  OwnedBy(A, d, a) = ToSet(A[a].pages)
BY DEF OwnedBy, ToSet

LEMMA OwnedNone ==
  ASSUME NEW A, NEW d, NEW a, A[a].pages \in Seq(Pages), d.arena = a, d.page = NULL
  PROVE  OwnedBy(A, d, a) = {}
<1> DEFINE n == Len(A[a].pages)
<1>1. n \in Nat OBVIOUS
<1>2. OwnedBy(A, d, a) = {A[a].pages[i] : i \in n + 1 .. n} BY DEF OwnedBy
<1> HIDE DEF n
<1>3. n + 1 .. n = {} BY <1>1
<1> QED BY <1>2, <1>3

Suffix(p, k) == {p[i] : i \in k .. Len(p)}

LEMMA OwnedFrom ==
  ASSUME NEW A, NEW d, NEW a, NEW p, NEW cur, NEW links, NEW k,
         A[a].pages = p, IsChain(p, a, cur, links),
         d.arena = a, d.page # NULL, k \in DOMAIN p, p[k] = d.page
  PROVE  OwnedBy(A, d, a) = Suffix(p, k)
<1> DEFINE pos == CHOOSE i \in DOMAIN p : p[i] = d.page
<1>1. /\ DOMAIN p = 1 .. Len(p)
      /\ \A i, j \in 1 .. Len(p) : p[i] = p[j] => i = j
  BY DEF IsChain
<1>2. pos \in DOMAIN p /\ p[pos] = d.page BY <1>1
<1>3. OwnedBy(A, d, a) = {p[i] : i \in pos .. Len(p)} BY DEF OwnedBy
<1> HIDE DEF pos
<1>4. pos = k BY <1>1, <1>2
<1> QED BY <1>3, <1>4 DEF Suffix

(* PagesConserved, of any state. *)
ConservedBy(h, o, A, d) ==
  /\ \A x : x \in h <=> x \in o \/ \E a \in DOMAIN A : x \in OwnedBy(A, d, a)
  /\ \A a \in DOMAIN A : \A x \in OwnedBy(A, d, a) : x \notin o
  /\ \A a, b \in DOMAIN A : a # b =>
       \A x \in OwnedBy(A, d, a) : x \notin OwnedBy(A, d, b)

LEMMA ConservedIs == PagesConserved <=> strayed \/ ConservedBy(held, other, arena, del)
<1>1. \A a : Owned(a) = OwnedBy(arena, del, a) BY DEF Owned, OwnedBy
<1> QED BY <1>1 DEF PagesConserved, ConservedBy

------------------------------------------------------------------------------
(* Types *)

(* Blocks belong to arenas, none to one that is being deleted. *)
BlocksOwned == \A b \in blocks : b.arena \in DOMAIN arena /\ b.arena # del.arena

TypeInv == TypeOK /\ BlocksOwned

(* What an allocation does: a block of the given offset and size on page   *)
(* cur, either the current page or a new one.                              *)
Updated(a, cur, offset, pages) ==
  /\ DOMAIN arena' = DOMAIN arena
  /\ arena'[a] = [current_page |-> cur, current_offset |-> offset,
                  p2align |-> arena[a].p2align, pages |-> pages]
  /\ \A c \in DOMAIN arena : c # a => arena'[c] = arena[c]

Placed(a, want, cur, offset, size) ==
  /\ cur \in Pages /\ offset \in Nat /\ size \in Nat /\ want \in Nat
  /\ want <= size /\ size % Unit(arena[a].p2align) = 0
  /\ offset + size <= PAGE_SIZE

Here(a, cur, offset, size) ==
  /\ cur = arena[a].current_page /\ offset = arena[a].current_offset
  /\ Updated(a, cur, offset + size, arena[a].pages)
  /\ UNCHANGED <<held, link>>

There(a, cur, offset, size) ==
  /\ cur \in Pages \ held
  /\ offset % Unit(arena[a].p2align) = 0 /\ HEADER_SIZE <= offset
  /\ Updated(a, cur, offset + size, Append(arena[a].pages, cur))
  /\ held' = held \cup {cur}
  /\ \E word \in FreshLinks : link' = LinkPage(a, cur, word)

LEMMA AllocCases ==
  ASSUME TypeOK, NEW a \in DOMAIN arena, NEW want \in Size, NEW copied, NEW kept,
         Alloc(a, want, copied, kept)
  PROVE  \E cur \in Pages, offset \in Nat, size \in Nat :
           /\ Placed(a, want, cur, offset, size)
           /\ blocks' = kept \cup {Block(a, cur, offset, size, want, copied)}
           /\ Here(a, cur, offset, size) \/ There(a, cur, offset, size)
<1> DEFINE p2 == arena[a].p2align
           size == AlignP2(want, p2)
<1>1. /\ arena[a] \in ArenaStruct /\ p2 \in P2Align
      /\ arena[a] = [current_page |-> arena[a].current_page,
                     current_offset |-> arena[a].current_offset,
                     p2align |-> p2, pages |-> arena[a].pages]
      /\ arena[a].current_page \in Pages /\ arena[a].current_offset \in 0 .. PAGE_SIZE
  BY DEF TypeOK, ArenaStruct
<1>2. ~TooLarge(a, want) BY DEF Alloc
<1>3. /\ want \in Nat /\ size \in Nat /\ want <= size /\ size % Unit(p2) = 0
      /\ size + Unit(p2) <= PAGE_SIZE
  BY <1>1, <1>2, BlockSize
<1>4. CASE AllocateHere(a, want, copied, kept)
  <2> DEFINE cur == arena[a].current_page
             offset == arena[a].current_offset
  <2>1. /\ offset + size <= PAGE_SIZE
        /\ blocks' = kept \cup {Block(a, cur, offset, size, want, copied)}
        /\ arena' = [arena EXCEPT ![a].current_offset = offset + size]
        /\ UNCHANGED <<held, link>>
    BY <1>4 DEF AllocateHere, Fits, Bump
  <2>2. Updated(a, cur, offset + size, arena[a].pages)
    <3>1. arena' = [arena EXCEPT ![a] = [arena[a] EXCEPT !.current_offset = offset + size]]
      BY <2>1
    <3>2. [arena[a] EXCEPT !.current_offset = offset + size] =
            [current_page |-> cur, current_offset |-> offset + size,
             p2align |-> p2, pages |-> arena[a].pages]
      BY <1>1
    <3> HIDE DEF p2, size, cur, offset
    <3> QED BY <3>1, <3>2 DEF Updated, p2
  <2>3. Here(a, cur, offset, size) BY <2>1, <2>2 DEF Here
  <2>4. Placed(a, want, cur, offset, size)
    <3>1. cur \in Pages /\ offset \in Nat BY <1>1
    <3> HIDE DEF size, cur, offset
    <3> QED BY <1>3, <2>1, <3>1 DEF Placed
  <2>5. cur \in Pages /\ offset \in Nat BY <1>1
  <2> HIDE DEF size, cur, offset
  <2> QED BY <1>3, <2>1, <2>3, <2>4, <2>5
<1>5. CASE AllocateNext(a, want, copied, kept)
  <2> DEFINE offset == FirstOffset(p2)
  <2>1. PICK cur \in Pages, word \in FreshLinks :
          /\ AllocatePage(cur, word)
          /\ link' = LinkPage(a, cur, word)
          /\ blocks' = kept \cup {Block(a, cur, offset, size, want, copied)}
          /\ arena' = [arena EXCEPT ![a].current_page = cur,
                                    ![a].current_offset = offset + size,
                                    ![a].pages = Append(@, cur)]
    BY <1>5 DEF AllocateNext
  <2>2. /\ offset \in Nat /\ offset % Unit(p2) = 0
        /\ HEADER_SIZE <= offset /\ offset <= Unit(p2) /\ Unit(p2) \in Nat
    BY <1>1, FirstOffsetFits, UnitFits
  <2>3. Updated(a, cur, offset + size, Append(arena[a].pages, cur))
    <3> DEFINE new == offset + size
               pages == Append(arena[a].pages, cur)
    <3>1. arena' = [arena EXCEPT ![a] =
            [arena[a] EXCEPT !.current_page = cur, !.current_offset = new, !.pages = pages]]
      BY <2>1
    <3>2. [arena[a] EXCEPT !.current_page = cur, !.current_offset = new, !.pages = pages] =
            [current_page |-> cur, current_offset |-> new, p2align |-> p2, pages |-> pages]
      <4> DEFINE r == arena[a]
                 c == r.current_page  o == r.current_offset  g == r.pages
      <4>1. r = [current_page |-> c, current_offset |-> o, p2align |-> p2, pages |-> g]
        BY <1>1
      <4> HIDE DEF new, pages, p2, r, c, o, g
      <4> DEFINE D == {"current_page", "current_offset", "p2align", "pages"}
                 q == [r EXCEPT !.current_page = cur, !.current_offset = new,
                                !.pages = pages]
                 w == [current_page |-> cur, current_offset |-> new,
                       p2align |-> p2, pages |-> pages]
      <4>2. DOMAIN r = D BY <4>1
      <4>3. q = [x \in D |-> q[x]] /\ w = [x \in D |-> w[x]] BY <4>2
      <4>4. q.current_page = w.current_page /\ q.current_offset = w.current_offset
        BY <4>2
      <4>5. q.pages = w.pages /\ q.p2align = w.p2align BY <4>1, <4>2
      <4> HIDE DEF q, w
      <4>6. \A x \in D : q[x] = w[x] BY <4>4, <4>5
      <4> HIDE DEF D
      <4>7. q = w BY <4>3, <4>6
      <4> QED BY <4>7 DEF q, w, r
    <3> HIDE DEF p2, new, pages
    <3>3. Updated(a, cur, new, pages) BY <3>1, <3>2 DEF Updated, p2
    <3> QED BY <3>3 DEF new, pages
  <2>4. cur \in Pages \ held /\ held' = held \cup {cur} BY <2>1 DEF AllocatePage
  <2>5. offset + size <= PAGE_SIZE
    <3> HIDE DEF size, offset
    <3> QED BY <1>3, <2>2, Layout
  <2> HIDE DEF size, offset
  <2>6. There(a, cur, offset, size) BY <2>1, <2>2, <2>3, <2>4 DEF There
  <2>7. Placed(a, want, cur, offset, size) BY <1>3, <2>2, <2>5 DEF Placed
  <2> QED BY <1>3, <2>1, <2>2, <2>6, <2>7
<1> QED BY <1>4, <1>5 DEF Alloc

(* Types after an allocation. *)
LEMMA AllocKeepsTypes ==
  ASSUME TypeInv, NEW a \in DOMAIN arena, a # del.arena, NEW want \in Size,
         NEW copied \in Nat, NEW kept \in SUBSET blocks,
         Alloc(a, want, copied, kept), UNCHANGED <<other, del, halted, strayed>>
  PROVE  TypeInv'
<1>0. TypeOK /\ BlocksOwned BY DEF TypeInv
<1>1. PICK cur \in Pages, offset \in Nat, size \in Nat :
        /\ Placed(a, want, cur, offset, size)
        /\ blocks' = kept \cup {Block(a, cur, offset, size, want, copied)}
        /\ Here(a, cur, offset, size) \/ There(a, cur, offset, size)
  BY <1>0, AllocCases
<1> DEFINE b == Block(a, cur, offset, size, want, copied)
<1>2. b \in Blocks /\ b.arena = a
  BY <1>0, <1>1 DEF Blocks, Block, Placed, TypeOK
<1>3. PICK pages \in Seq(Pages) : Updated(a, cur, offset + size, pages)
  <2>1. arena[a].pages \in Seq(Pages) BY <1>0 DEF TypeOK, ArenaStruct
  <2>2. Append(arena[a].pages, cur) \in Seq(Pages) BY <2>1
  <2> QED BY <1>1, <2>1, <2>2 DEF Here, There
<1>4. arena'[a] \in ArenaStruct
  <2>1. arena[a].p2align \in P2Align BY <1>0 DEF TypeOK, ArenaStruct
  <2>2. offset + size \in 0 .. PAGE_SIZE BY <1>1, Layout DEF Placed
  <2> QED BY <1>3, <2>1, <2>2 DEF Updated, ArenaStruct
<1>5. held' \subseteq Pages /\ link' \in [Pages -> Pages \cup {NULL}]
  <2>1. CASE Here(a, cur, offset, size) BY <1>0, <2>1 DEF Here, TypeOK
  <2>2. CASE There(a, cur, offset, size)
    <3>1. PICK word \in FreshLinks : link' = LinkPage(a, cur, word) BY <2>2 DEF There
    <3>2. word \in Pages \cup {NULL} /\ link \in [Pages -> Pages \cup {NULL}]
      BY <1>0, LayoutAssumption DEF TypeOK
    <3>3. link' \in [Pages -> Pages \cup {NULL}]
      BY <3>1, <3>2 DEF LinkPage
    <3> QED BY <1>0, <2>2, <3>3 DEF There, TypeOK
  <2> QED BY <1>1, <2>1, <2>2
<1>6. /\ DOMAIN arena' = DOMAIN arena
      /\ \A c \in DOMAIN arena' : arena'[c] \in ArenaStruct
  BY <1>0, <1>3, <1>4 DEF Updated, TypeOK
<1> HIDE DEF b
<1>7. BlocksOwned' BY <1>0, <1>1, <1>2, <1>6 DEF BlocksOwned, b
<1>8. blocks' \subseteq Blocks BY <1>0, <1>1, <1>2 DEF TypeOK, b
<1>9. TypeOK' BY <1>0, <1>5, <1>6, <1>8 DEF TypeOK
<1> QED BY <1>7, <1>9 DEF TypeInv

(* The operations of the callers. *)
LEMMA KallocKeepsTypes ==
  ASSUME TypeInv, NEW a \in DOMAIN arena, NEW want \in Size, Kalloc(a, want)
  PROVE  TypeInv'
<1>0. TypeOK /\ BlocksOwned BY DEF TypeInv
<1>1. CASE Alloc(a, want, 0, blocks) /\ UNCHANGED <<other, del, halted, strayed>>
  <2>1. a # del.arena BY <1>0, Layout DEF Kalloc, Running, Idle, TypeOK
  <2> QED BY <1>1, <2>1, AllocKeepsTypes
<1>2. CASE UNCHANGED vars
  BY <1>0, <1>2 DEF vars, TypeInv, TypeOK, BlocksOwned
<1> QED BY <1>1, <1>2 DEF Kalloc

LEMMA KreallocKeepsTypes ==
  ASSUME TypeInv, NEW b \in blocks, NEW want \in Size, Krealloc(b, want)
  PROVE  TypeInv'
<1>0. TypeOK /\ BlocksOwned BY DEF TypeInv
<1>1. CASE Alloc(b.arena, want, b.size, blocks \ {b}) /\ UNCHANGED <<other, del, halted, strayed>>
  <2>1. b.arena \in DOMAIN arena /\ b.arena # del.arena BY <1>0 DEF BlocksOwned
  <2>2. b.size \in Nat BY <1>0 DEF TypeOK, Blocks
  <2> QED BY <1>1, <2>1, <2>2, AllocKeepsTypes
<1>2. CASE UNCHANGED vars
  BY <1>0, <1>2 DEF vars, TypeInv, TypeOK, BlocksOwned
<1> QED BY <1>1, <1>2 DEF Krealloc

LEMMA MakeArenaKeepsTypes ==
  ASSUME TypeInv, NEW p2align \in P2Align, MakeArena(p2align)
  PROVE  TypeInv'
<1>0. TypeOK /\ BlocksOwned BY DEF TypeInv
<1> DEFINE offset == AlignP2(ARENA_SIZE, p2align)
<1>1. PICK page \in Pages :
        /\ page \notin held /\ held' = held \cup {page}
        /\ link' = [link EXCEPT ![page] = NULL]
        /\ arena' = [a \in DOMAIN arena \cup {page} |->
             IF a = page
             THEN [current_page |-> page, current_offset |-> offset,
                   p2align |-> p2align, pages |-> <<page>>]
             ELSE arena[a]]
  BY DEF MakeArena, AllocatePage
<1>2. offset \in 0 .. PAGE_SIZE BY ArenaOffsetFits
<1> HIDE DEF offset
<1>3. \A a \in DOMAIN arena' : arena'[a] \in ArenaStruct
  <2>1. <<page>> \in Seq(Pages) BY <1>1
  <2>2. [current_page |-> page, current_offset |-> offset,
         p2align |-> p2align, pages |-> <<page>>] \in ArenaStruct
    BY <1>1, <1>2, <2>1 DEF ArenaStruct
  <2> QED BY <1>0, <1>1, <2>2 DEF TypeOK
<1>4. DOMAIN arena' = DOMAIN arena \cup {page} BY <1>1
<1>5. UNCHANGED <<other, blocks, del, halted, strayed>> BY DEF MakeArena
<1>6. TypeOK' BY <1>0, <1>1, <1>3, <1>4, <1>5 DEF TypeOK
<1>7. BlocksOwned' BY <1>0, <1>4, <1>5 DEF BlocksOwned
<1> QED BY <1>6, <1>7 DEF TypeInv

LEMMA NextKeepsTypes == TypeInv /\ [Next]_vars => TypeInv'
<1> SUFFICES ASSUME TypeInv, [Next]_vars PROVE TypeInv'
  OBVIOUS
<1>0. TypeOK /\ BlocksOwned BY DEF TypeInv
<1>1. CASE OtherAllocate
  <2>1. PICK page \in Pages, word \in FreshLinks :
          /\ held' = held \cup {page} /\ other' = other \cup {page}
          /\ link' = [link EXCEPT ![page] = word]
    BY <1>1 DEF OtherAllocate, AllocatePage
  <2>2. word \in Pages \cup {NULL} BY LayoutAssumption
  <2> QED BY <1>0, <1>1, <2>1, <2>2 DEF OtherAllocate, TypeInv, TypeOK, BlocksOwned
<1>2. ASSUME NEW page \in other, OtherFree(page) PROVE TypeInv'
  BY <1>0, <1>2 DEF OtherFree, TypeInv, TypeOK, BlocksOwned
<1>3. ASSUME NEW b \in blocks, Kfree(b) PROVE TypeInv'
  BY <1>0, <1>3 DEF Kfree, TypeInv, TypeOK, BlocksOwned
<1>4. ASSUME NEW a \in DOMAIN arena, Delete(a) PROVE TypeInv'
  BY <1>0, <1>4 DEF Delete, TypeInv, TypeOK, BlocksOwned
<1>5. CASE DelPage
  <2>1. del.page \in Pages /\ link[del.page] \in Pages \cup {NULL}
    BY <1>0, <1>5 DEF DelPage, TypeOK
  <2>2. del' = [del EXCEPT !.page = link[del.page]]
    BY <1>5 DEF DelPage, DelAdvance
  <2>3. del' \in [arena : Pages \cup {NULL}, page : Pages \cup {NULL}]
        /\ del'.arena = del.arena
    BY <1>0, <2>1, <2>2 DEF TypeOK
  <2> QED BY <1>0, <1>5, <2>3 DEF DelPage, TypeInv, TypeOK, BlocksOwned
<1>6. CASE DelReturn
  <2>1. /\ DOMAIN arena' = DOMAIN arena \ {del.arena}
        /\ \A a \in DOMAIN arena' : arena'[a] = arena[a]
        /\ del' = [arena |-> NULL, page |-> NULL]
        /\ UNCHANGED <<held, other, link, blocks, halted, strayed>>
    BY <1>6 DEF DelReturn, Idle
  <2>2. TypeOK' BY <1>0, <2>1 DEF TypeOK
  <2>3. BlocksOwned'
    <3>1. \A b \in blocks : b.arena \in Pages BY <1>0 DEF TypeOK, Blocks
    <3> QED BY <1>0, <2>1, <3>1, Layout DEF BlocksOwned
  <2> QED BY <2>2, <2>3 DEF TypeInv
<1>7. CASE UNCHANGED vars
  BY <1>0, <1>7 DEF vars, TypeInv, TypeOK, BlocksOwned
<1>8. CASE Halt BY <1>7, <1>8 DEF Halt
<1> QED BY <1>1, <1>2, <1>3, <1>4, <1>5, <1>6, <1>7, <1>8, KallocKeepsTypes,
           KreallocKeepsTypes, MakeArenaKeepsTypes DEF Next

LEMMA InitTypes == Init => TypeInv
<1> SUFFICES ASSUME Init PROVE TypeInv OBVIOUS
<1>1. DOMAIN arena = {} BY DEF Init
<1> QED BY <1>1 DEF Init, Idle, TypeInv, TypeOK, BlocksOwned

(* The state of the arenas has its types, whatever fresh pages hold: no    *)
(* arena counts past the end of its page.                                  *)
THEOREM TypeCorrect == Spec => []TypeOK
<1>1. TypeInv => TypeOK BY DEF TypeInv
<1> QED BY <1>1, InitTypes, NextKeepsTypes, PTL DEF Spec

------------------------------------------------------------------------------
(* Pages *)

DelOK ==
  \/ del = Idle
  \/ /\ del.arena \in DOMAIN arena
     /\ del.page = NULL \/ del.page \in ToSet(arena[del.arena].pages)

ChainsBy(A, links) ==
  \A a \in DOMAIN A : IsChain(A[a].pages, a, A[a].current_page, links)

(* What holds until a deletion strays. *)
PagesInv ==
  /\ TypeInv
  /\ ~halted
  /\ DelOK
  /\ ChainsBy(arena, link)
  /\ ConservedBy(held, other, arena, del)

(* ConservedBy when no arena is being deleted. *)
WholeBy(h, o, A) ==
  /\ \A x : x \in h <=> x \in o \/ \E a \in DOMAIN A : x \in ToSet(A[a].pages)
  /\ \A a \in DOMAIN A : \A x \in ToSet(A[a].pages) : x \notin o
  /\ \A a, b \in DOMAIN A : a # b =>
       \A x \in ToSet(A[a].pages) : x \notin ToSet(A[b].pages)

LEMMA ConservedIdle ==
  ASSUME NEW h, NEW o, NEW A, NEW d,
         \A a \in DOMAIN A : A[a].pages \in Seq(Pages) /\ d.arena # a
  PROVE  ConservedBy(h, o, A, d) <=> WholeBy(h, o, A)
<1>1. \A a \in DOMAIN A : \A x : x \in OwnedBy(A, d, a) <=> x \in ToSet(A[a].pages)
  BY OwnedWhole
<1>2. ASSUME ConservedBy(h, o, A, d) PROVE WholeBy(h, o, A)
  BY <1>1, <1>2 DEF ConservedBy, WholeBy
<1>3. ASSUME WholeBy(h, o, A) PROVE ConservedBy(h, o, A, d)
  BY <1>1, <1>3 DEF ConservedBy, WholeBy
<1> QED BY <1>2, <1>3

LEMMA RunningPages ==
  ASSUME PagesInv, Running
  PROVE  /\ WholeBy(held, other, arena)
         /\ \A a \in DOMAIN arena : a # del.arena /\ a \in Pages
         /\ del = Idle /\ del.arena = NULL
<1>1. /\ \A a \in DOMAIN arena : arena[a].pages \in Seq(Pages) /\ a \in Pages
      /\ del = Idle /\ del.arena = NULL
  BY DEF PagesInv, ChainsBy, IsChain, TypeInv, TypeOK, Running, Idle
<1>2. \A a \in DOMAIN arena : a # del.arena BY <1>1, Layout
<1> QED BY <1>1, <1>2, ConservedIdle DEF PagesInv

LEMMA RunningAfter ==
  ASSUME TypeInv', ~halted', del' = Idle, ChainsBy(arena', link'),
         WholeBy(held', other', arena')
  PROVE  PagesInv'
<1>1. /\ \A a \in DOMAIN arena' : arena'[a].pages \in Seq(Pages) /\ a \in Pages
      /\ del'.arena = NULL
  BY DEF ChainsBy, IsChain, TypeInv, TypeOK, Idle
<1>2. \A a \in DOMAIN arena' : a # del'.arena BY <1>1, Layout
<1>3. ConservedBy(held', other', arena', del') BY <1>1, <1>2, ConservedIdle
<1> QED BY <1>3 DEF PagesInv, DelOK

(* A page that is not in use is no page of an arena, nor an arena. *)
LEMMA FreshPage ==
  ASSUME PagesInv, Running, NEW page, page \notin held
  PROVE  /\ page \notin DOMAIN arena /\ page \notin other
         /\ \A a \in DOMAIN arena : page \notin ToSet(arena[a].pages)
<1>1. WholeBy(held, other, arena) BY RunningPages
<1>2. /\ \A a \in DOMAIN arena : page \notin ToSet(arena[a].pages)
      /\ page \notin other
  BY <1>1 DEF WholeBy
<1>3. \A a \in DOMAIN arena : a \in ToSet(arena[a].pages)
  BY ChainPages DEF PagesInv, ChainsBy
<1> QED BY <1>2, <1>3

(* A page of one arena is no page of another. *)
LEMMA OnePage ==
  ASSUME PagesInv, Running, NEW a \in DOMAIN arena, NEW b \in DOMAIN arena,
         NEW page \in ToSet(arena[a].pages), page \in ToSet(arena[b].pages)
  PROVE  a = b
BY RunningPages DEF WholeBy

LEMMA AllocKeepsPages ==
  ASSUME PagesInv, Running,
         NEW a \in DOMAIN arena, NEW want \in Size,
         NEW copied \in Nat, NEW kept \in SUBSET blocks,
         Alloc(a, want, copied, kept), UNCHANGED <<other, del, halted, strayed>>
  PROVE  PagesInv'
<1>0. /\ TypeInv /\ TypeOK /\ ~halted /\ ChainsBy(arena, link)
      /\ IsChain(arena[a].pages, a, arena[a].current_page, link)
  BY DEF PagesInv, TypeInv, ChainsBy
<1>1. /\ WholeBy(held, other, arena) /\ del = Idle /\ a # del.arena
  BY RunningPages
<1>2. TypeInv' BY <1>0, <1>1, AllocKeepsTypes
<1>3. PICK cur \in Pages, offset \in Nat, size \in Nat :
        Here(a, cur, offset, size) \/ There(a, cur, offset, size)
  BY <1>0, AllocCases
<1>4. CASE Here(a, cur, offset, size)
  <2>1. /\ DOMAIN arena' = DOMAIN arena /\ link' = link /\ held' = held
        /\ \A c \in DOMAIN arena : /\ arena'[c].pages = arena[c].pages
                                   /\ arena'[c].current_page = arena[c].current_page
    BY <1>4 DEF Here, Updated
  <2>2. ChainsBy(arena', link') BY <1>0, <2>1 DEF ChainsBy
  <2>3. WholeBy(held', other', arena') BY <1>1, <2>1 DEF WholeBy
  <2> QED BY <1>0, <1>1, <1>2, <2>2, <2>3, RunningAfter
<1>5. CASE There(a, cur, offset, size)
  <2> DEFINE pages == arena[a].pages
             last == arena[a].current_page
  <2>1. /\ cur \notin held /\ held' = held \cup {cur}
        /\ DOMAIN arena' = DOMAIN arena
        /\ arena'[a].pages = Append(pages, cur) /\ arena'[a].current_page = cur
        /\ \A c \in DOMAIN arena : c # a => arena'[c] = arena[c]
    BY <1>5 DEF There, Updated
  <2>2. /\ cur \notin other
        /\ \A c \in DOMAIN arena : cur \notin ToSet(arena[c].pages)
    BY <2>1, FreshPage
  <2>3. last \in ToSet(pages) /\ ToSet(pages) \subseteq Pages
    BY <1>0, ChainPages
  <2>4. /\ link'[last] = cur
        /\ \A x \in Pages : x # cur /\ x # last => link'[x] = link[x]
    <3>1. PICK word \in FreshLinks : link' = [link EXCEPT ![last] = cur, ![cur] = word]
      BY <1>5 DEF There, LinkPage
    <3>2. last # cur /\ last \in Pages BY <2>2, <2>3
    <3> HIDE DEF last
    <3> QED BY <1>0, <3>1, <3>2 DEF TypeOK
  <2>5. pages \in Seq(Pages) BY <1>0 DEF IsChain
  <2> HIDE DEF pages, last
  <2>6. IsChain(Append(pages, cur), a, cur, link')
    <3>1. \A x \in ToSet(pages) : x # last => link'[x] = link[x]
      BY <2>2, <2>3, <2>4 DEF pages
    <3>2. IsChain(pages, a, last, link) /\ cur \notin ToSet(pages)
      BY <1>0, <2>2 DEF pages, last
    <3> QED BY <2>4, <3>1, <3>2, ChainGrows
  <2>7. ASSUME NEW c \in DOMAIN arena, c # a
        PROVE  IsChain(arena'[c].pages, c, arena'[c].current_page, link')
    <3>1. IsChain(arena[c].pages, c, arena[c].current_page, link)
      BY <1>0 DEF ChainsBy
    <3>2. ToSet(arena[c].pages) \subseteq Pages BY <3>1, ChainPages
    <3>3. \A x \in ToSet(arena[c].pages) : x # last
      BY <2>3, <2>7, OnePage DEF pages
    <3>4. \A x \in ToSet(arena[c].pages) : link'[x] = link[x]
      BY <2>2, <2>4, <3>2, <3>3
    <3>5. IsChain(arena[c].pages, c, arena[c].current_page, link')
      BY <3>1, <3>4, ChainKept
    <3> QED BY <2>1, <2>7, <3>5
  <2>8. ChainsBy(arena', link') BY <2>1, <2>6, <2>7 DEF ChainsBy
  <2>9. /\ \A x : x \in ToSet(arena'[a].pages) <=> x \in ToSet(pages) \/ x = cur
        /\ \A c \in DOMAIN arena : c # a => ToSet(arena'[c].pages) = ToSet(arena[c].pages)
    <3>1. \A x : x \in ToSet(Append(pages, cur)) <=> x \in ToSet(pages) \/ x = cur
      BY <2>5, SetOfAppend
    <3> QED BY <2>1, <3>1
  <2>10. WholeBy(held', other', arena')
    <3>1. \A x : x \in held' <=> x \in other \/
            \E c \in DOMAIN arena : x \in ToSet(arena'[c].pages)
      BY <1>1, <2>1, <2>9 DEF WholeBy, pages
    <3>2. \A c \in DOMAIN arena : \A x \in ToSet(arena'[c].pages) : x \notin other
      BY <1>1, <2>2, <2>9 DEF WholeBy, pages
    <3>3. \A c, d \in DOMAIN arena : c # d =>
            \A x \in ToSet(arena'[c].pages) : x \notin ToSet(arena'[d].pages)
      BY <1>1, <2>2, <2>9 DEF WholeBy, pages
    <3> QED BY <2>1, <3>1, <3>2, <3>3 DEF WholeBy
  <2> QED BY <1>0, <1>1, <1>2, <2>8, <2>10, RunningAfter
<1> QED BY <1>3, <1>4, <1>5

LEMMA MakeArenaKeepsPages ==
  ASSUME PagesInv, NEW p2align \in P2Align, MakeArena(p2align)
  PROVE  PagesInv'
<1>0. /\ TypeInv /\ TypeOK /\ ~halted /\ ChainsBy(arena, link) /\ Running
      /\ WholeBy(held, other, arena) /\ del = Idle
  BY RunningPages DEF PagesInv, TypeInv, MakeArena
<1>1. PICK page \in Pages :
        /\ page \notin held /\ held' = held \cup {page}
        /\ link' = [link EXCEPT ![page] = NULL]
        /\ arena' = [a \in DOMAIN arena \cup {page} |->
             IF a = page
             THEN [current_page |-> page,
                   current_offset |-> AlignP2(ARENA_SIZE, p2align),
                   p2align |-> p2align, pages |-> <<page>>]
             ELSE arena[a]]
        /\ UNCHANGED <<other, blocks, del, halted>>
  BY DEF MakeArena, AllocatePage
<1>2. /\ page \notin DOMAIN arena /\ page \notin other
      /\ \A a \in DOMAIN arena : page \notin ToSet(arena[a].pages)
  BY <1>0, <1>1, FreshPage
<1>3. /\ DOMAIN arena' = DOMAIN arena \cup {page}
      /\ arena'[page].pages = <<page>> /\ arena'[page].current_page = page
      /\ \A a \in DOMAIN arena : arena'[a] = arena[a]
  BY <1>1, <1>2
<1>4. link'[page] = NULL /\ \A x \in Pages : x # page => link'[x] = link[x]
  BY <1>0, <1>1 DEF TypeOK
<1>5. IsChain(<<page>>, page, page, link')
  <2>1. /\ <<page>> \in Seq(Pages) /\ Len(<<page>>) = 1 /\ <<page>>[1] = page
        /\ 1 .. 1 - 1 = {} /\ \A i, j \in 1 .. 1 : i = j
    BY <1>1
  <2> QED BY <1>4, <2>1 DEF IsChain
<1>6. ASSUME NEW a \in DOMAIN arena
      PROVE  IsChain(arena[a].pages, a, arena[a].current_page, link')
  <2>1. IsChain(arena[a].pages, a, arena[a].current_page, link)
    BY <1>0 DEF ChainsBy
  <2>2. \A x \in ToSet(arena[a].pages) : link'[x] = link[x]
    BY <1>2, <1>4, <2>1, ChainPages
  <2> QED BY <2>1, <2>2, ChainKept
<1>7. ChainsBy(arena', link') BY <1>3, <1>5, <1>6 DEF ChainsBy
<1>8. WholeBy(held', other', arena')
  <2>1. \A x : x \in ToSet(<<page>>) <=> x = page BY DEF ToSet
  <2>2. /\ \A x : x \in ToSet(arena'[page].pages) <=> x = page
        /\ \A a \in DOMAIN arena : ToSet(arena'[a].pages) = ToSet(arena[a].pages)
    BY <1>3, <2>1
  <2>3. \A x : x \in held' <=> x \in other \/
          \E a \in DOMAIN arena' : x \in ToSet(arena'[a].pages)
    BY <1>0, <1>1, <1>3, <2>2 DEF WholeBy
  <2>4. \A a \in DOMAIN arena' : \A x \in ToSet(arena'[a].pages) : x \notin other
    BY <1>0, <1>2, <1>3, <2>2 DEF WholeBy
  <2>5. \A a, b \in DOMAIN arena' : a # b =>
          \A x \in ToSet(arena'[a].pages) : x \notin ToSet(arena'[b].pages)
    BY <1>0, <1>2, <1>3, <2>2 DEF WholeBy
  <2> QED BY <1>1, <2>3, <2>4, <2>5, ZenonT(60) DEF WholeBy
<1>9. TypeInv' BY <1>0, MakeArenaKeepsTypes
<1> QED BY <1>0, <1>1, <1>7, <1>8, <1>9, RunningAfter

LEMMA OtherAllocateKeepsPages ==
  ASSUME PagesInv, TypeInv', OtherAllocate
  PROVE  PagesInv'
<1>0. /\ TypeOK /\ ~halted /\ ChainsBy(arena, link) /\ Running
      /\ WholeBy(held, other, arena) /\ del = Idle
  BY RunningPages DEF PagesInv, TypeInv, OtherAllocate
<1>1. PICK page \in Pages, word \in FreshLinks :
        /\ page \notin held /\ held' = held \cup {page}
        /\ other' = other \cup {page}
        /\ link' = [link EXCEPT ![page] = word]
        /\ UNCHANGED <<arena, del, halted>>
  BY DEF OtherAllocate, AllocatePage
<1>2. \A a \in DOMAIN arena : page \notin ToSet(arena[a].pages)
  BY <1>0, <1>1, FreshPage
<1>3. ASSUME NEW a \in DOMAIN arena
      PROVE  IsChain(arena[a].pages, a, arena[a].current_page, link')
  <2>1. IsChain(arena[a].pages, a, arena[a].current_page, link)
    BY <1>0 DEF ChainsBy
  <2>2. \A x \in Pages : x # page => link'[x] = link[x]
    BY <1>0, <1>1 DEF TypeOK
  <2>3. \A x \in ToSet(arena[a].pages) : link'[x] = link[x]
    BY <1>2, <2>1, <2>2, ChainPages
  <2> QED BY <2>1, <2>3, ChainKept
<1>4. ChainsBy(arena', link') BY <1>1, <1>3 DEF ChainsBy
<1>5. WholeBy(held', other', arena') BY <1>0, <1>1, <1>2 DEF WholeBy
<1> QED BY <1>0, <1>1, <1>4, <1>5, RunningAfter

LEMMA OtherFreeKeepsPages ==
  ASSUME PagesInv, TypeInv', NEW page \in other, OtherFree(page)
  PROVE  PagesInv'
<1>0. /\ ~halted /\ ChainsBy(arena, link) /\ Running
      /\ WholeBy(held, other, arena) /\ del = Idle
  BY RunningPages DEF PagesInv, OtherFree
<1>1. /\ other' = other \ {page} /\ held' = held \ {page}
      /\ UNCHANGED <<link, arena, del, halted>>
  BY DEF OtherFree
<1>2. ChainsBy(arena', link') BY <1>0, <1>1
<1>3. WholeBy(held', other', arena') BY <1>0, <1>1 DEF WholeBy
<1> QED BY <1>0, <1>1, <1>2, <1>3, RunningAfter

(* The whole arena is to be given back, beginning with its first page.     *)
LEMMA DeleteKeepsPages ==
  ASSUME PagesInv, TypeInv', NEW a \in DOMAIN arena, Delete(a)
  PROVE  PagesInv'
<1>0. /\ ~halted /\ ChainsBy(arena, link) /\ Running
      /\ WholeBy(held, other, arena)
      /\ \A c \in DOMAIN arena : c \in Pages /\ arena[c].pages \in Seq(Pages)
  BY RunningPages DEF PagesInv, Delete, ChainsBy, IsChain
<1>1. /\ del' = [arena |-> a, page |-> a]
      /\ UNCHANGED <<held, other, link, arena, halted>>
  BY DEF Delete
<1>2. del'.arena = a /\ del'.page = a /\ a # NULL BY <1>0, <1>1, Layout
<1>3. IsChain(arena[a].pages, a, arena[a].current_page, link)
  BY <1>0 DEF ChainsBy
<1>4. DelOK' BY <1>1, <1>2, <1>3, ChainPages DEF DelOK
<1>5. \A c \in DOMAIN arena : \A x :
        x \in OwnedBy(arena, del', c) <=> x \in ToSet(arena[c].pages)
  <2>1. ASSUME NEW c \in DOMAIN arena, c # a
        PROVE  OwnedBy(arena, del', c) = ToSet(arena[c].pages)
    BY <1>0, <1>2, <2>1, OwnedWhole
  <2>2. \A x : x \in OwnedBy(arena, del', a) <=> x \in ToSet(arena[a].pages)
    <3>1. 1 \in 1 .. Len(arena[a].pages) /\ DOMAIN arena[a].pages = 1 .. Len(arena[a].pages)
      BY <1>3, ChainPages
    <3> DEFINE p == arena[a].pages
    <3>2. p[1] = del'.page BY <1>2, <1>3 DEF IsChain
    <3>3. ToSet(p) = {p[i] : i \in 1 .. Len(p)} BY <3>1 DEF ToSet
    <3>4. IsChain(p, a, arena[a].current_page, link) /\ arena[a].pages = p BY <1>3
    <3> HIDE DEF p
    <3>5. del'.arena = a /\ del'.page # NULL BY <1>2
    <3>6. 1 \in DOMAIN p BY <3>1 DEF p
    <3>7. OwnedBy(arena, del', a) = Suffix(p, 1)
      BY <3>2, <3>4, <3>5, <3>6, OwnedFrom
    <3> QED BY <3>3, <3>7 DEF p, Suffix
  <2> QED BY <2>1, <2>2
<1>6. ConservedBy(held, other, arena, del') BY <1>0, <1>5 DEF WholeBy, ConservedBy
<1> QED BY <1>0, <1>1, <1>4, <1>6 DEF PagesInv

(* A turn of the loop gives back the page that is next, and no other; the  *)
(* last one ends it, unless it strays.                                     *)
LEMMA DelPageKeepsPages ==
  ASSUME PagesInv, TypeInv', DelPage, ~strayed'
  PROVE  PagesInv'
<1> DEFINE a == del.arena
           pages == arena[a].pages
           n == Len(pages)
<1>0. /\ TypeOK /\ ChainsBy(arena, link) /\ ConservedBy(held, other, arena, del)
      /\ DelOK /\ del.page # NULL
      /\ del' = [del EXCEPT !.page = link[del.page]]
      /\ held' = held \ {del.page} /\ halted' = (del.page \notin held)
      /\ UNCHANGED <<other, link, arena>>
  BY DEF PagesInv, TypeInv, DelPage, DelAdvance
<1>1. /\ a \in DOMAIN arena /\ del.page \in ToSet(pages)
      /\ IsChain(pages, a, arena[a].current_page, link)
  BY <1>0 DEF DelOK, ChainsBy, Idle
<1>2. del'.arena = a /\ del'.page = link[del.page]
  BY <1>0 DEF TypeOK
<1> HIDE DEF a, pages, n
<1>3. /\ n \in Nat \ {0} /\ pages \in Seq(Pages)
      /\ \A i, j \in 1 .. n : pages[i] = pages[j] => i = j
      /\ \A i \in 1 .. n : pages[i] \in Pages /\ pages[i] \in ToSet(pages)
      /\ \A i \in 1 .. n - 1 : link[pages[i]] = pages[i + 1]
      /\ pages[n] = arena[a].current_page
  <2>1. n \in Nat \ {0} /\ \A i \in 1 .. n : pages[i] \in ToSet(pages)
    BY <1>1, ChainPages DEF n
  <2> QED BY <1>1, <2>1, ChainPages DEF IsChain, n
<1>4. PICK k \in 1 .. n : del.page = pages[k] BY <1>1, ChainPages DEF n
<1>5. \A x : x \in OwnedBy(arena, del, a) <=> \E i \in k .. n : x = pages[i]
  <2>1. del.arena = a /\ arena[a].pages = pages /\ pages[k] = del.page
    BY <1>4 DEF a, pages
  <2>2. OwnedBy(arena, del, a) = Suffix(pages, k)
    <3>1. k \in DOMAIN pages BY <1>3, <1>4 DEF n
    <3> QED BY <1>0, <1>1, <2>1, <3>1, OwnedFrom
  <2> QED BY <2>2 DEF Suffix, n
<1>6. /\ \A x : x \in OwnedBy(arena, del', a) <=> \E i \in k + 1 .. n : x = pages[i]
      /\ link[del.page] = NULL \/ link[del.page] \in ToSet(pages)
  <2>1. CASE k = n
    <3>1. del'.page = NULL BY <1>2, <1>3, <1>4, <2>1 DEF DelPage, Unwritten, a
    <3>2. OwnedBy(arena, del', a) = {} BY <1>2, <1>3, <3>1, OwnedNone DEF pages
    <3>3. k + 1 .. n = {} BY <1>3, <2>1
    <3> QED BY <1>2, <3>1, <3>2, <3>3
  <2>2. CASE k < n
    <3>1. k \in 1 .. n - 1 /\ k + 1 \in 1 .. n BY <1>3, <2>2
    <3>2. del'.page = pages[k + 1] BY <1>2, <1>3, <1>4, <3>1
    <3>3. del'.page # NULL /\ del'.page \in ToSet(pages) BY <1>3, <3>1, <3>2, Layout
    <3>4. arena[a].pages = pages BY DEF pages
    <3>5. OwnedBy(arena, del', a) = Suffix(pages, k + 1)
      <4> DEFINE j == k + 1
      <4>1. j \in DOMAIN pages /\ pages[j] = del'.page BY <1>3, <3>1, <3>2 DEF n
      <4> HIDE DEF j
      <4>2. OwnedBy(arena, del', a) = Suffix(pages, j)
        BY <1>1, <1>2, <3>3, <3>4, <4>1, OwnedFrom
      <4> QED BY <4>2 DEF j
    <3> QED BY <1>2, <3>3, <3>5 DEF Suffix, n
  <2> QED BY <1>3, <2>1, <2>2
<1>7. \A x : x \in OwnedBy(arena, del', a) <=>
              x \in OwnedBy(arena, del, a) /\ x # del.page
  <2>1. ASSUME NEW i \in k + 1 .. n PROVE i \in k .. n /\ pages[i] # pages[k]
    BY <1>3, <2>1
  <2>2. ASSUME NEW i \in k .. n, pages[i] # pages[k] PROVE i \in k + 1 .. n
    BY <1>3, <2>2
  <2> QED BY <1>4, <1>5, <1>6, <2>1, <2>2
<1>8. \A c \in DOMAIN arena : c # a => OwnedBy(arena, del', c) = OwnedBy(arena, del, c)
  <2> SUFFICES ASSUME NEW c \in DOMAIN arena, c # a
               PROVE  OwnedBy(arena, del', c) = OwnedBy(arena, del, c)
    OBVIOUS
  <2>1. arena[c].pages \in Seq(Pages) BY <1>0 DEF ChainsBy, IsChain
  <2> QED BY <1>2, <2>1, OwnedWhole DEF a
<1>9. del.page \in OwnedBy(arena, del, a) /\ del.page \in held
  <2>1. k \in k .. n BY <1>3
  <2>2. del.page \in OwnedBy(arena, del, a) BY <1>4, <1>5, <2>1
  <2> QED BY <1>0, <1>1, <2>2 DEF ConservedBy
<1>10. ConservedBy(held', other', arena', del')
  <2>1. \A c \in DOMAIN arena : \A x : x \in OwnedBy(arena, del', c) <=>
          x \in OwnedBy(arena, del, c) /\ x # del.page
    BY <1>0, <1>1, <1>7, <1>8, <1>9 DEF ConservedBy
  <2>2. del.page \notin other BY <1>0, <1>1, <1>9 DEF ConservedBy
  <2> QED BY <1>0, <2>1, <2>2 DEF ConservedBy
<1>11. DelOK' BY <1>0, <1>1, <1>2, <1>6 DEF DelOK, pages, a
<1> QED BY <1>0, <1>9, <1>10, <1>11 DEF PagesInv

(* The arena struct goes when nothing of the arena is left. *)
LEMMA DelReturnKeepsPages ==
  ASSUME PagesInv, TypeInv', DelReturn
  PROVE  PagesInv'
<1>0. /\ TypeOK /\ ~halted /\ ChainsBy(arena, link) /\ DelOK
      /\ ConservedBy(held, other, arena, del)
      /\ del # Idle /\ del.page = NULL /\ del' = Idle
      /\ DOMAIN arena' = DOMAIN arena \ {del.arena}
      /\ \A c \in DOMAIN arena' : arena'[c] = arena[c]
      /\ UNCHANGED <<held, other, link, halted>>
  BY DEF PagesInv, TypeInv, DelReturn
<1>1. /\ del.arena \in DOMAIN arena
      /\ \A c \in DOMAIN arena : arena[c].pages \in Seq(Pages)
  BY <1>0 DEF DelOK, ChainsBy, IsChain
<1>2. OwnedBy(arena, del, del.arena) = {} BY <1>0, <1>1, OwnedNone
<1>3. \A c \in DOMAIN arena' : OwnedBy(arena, del, c) = ToSet(arena'[c].pages)
  BY <1>0, <1>1, OwnedWhole
<1>4. WholeBy(held', other', arena')
  <2>1. \A x : x \in held <=> x \in other \/
          \E c \in DOMAIN arena' : x \in ToSet(arena'[c].pages)
    BY <1>0, <1>1, <1>2, <1>3 DEF ConservedBy
  <2>2. \A c \in DOMAIN arena' : \A x \in ToSet(arena'[c].pages) : x \notin other
    BY <1>0, <1>3 DEF ConservedBy
  <2>3. \A c, d \in DOMAIN arena' : c # d =>
          \A x \in ToSet(arena'[c].pages) : x \notin ToSet(arena'[d].pages)
    BY <1>0, <1>3 DEF ConservedBy
  <2> QED BY <1>0, <2>1, <2>2, <2>3 DEF WholeBy
<1>5. ChainsBy(arena', link') BY <1>0 DEF ChainsBy
<1> QED BY <1>0, <1>4, <1>5, RunningAfter

LEMMA NextKeepsPages == PagesInv /\ [Next]_vars /\ ~strayed' => PagesInv'
<1> SUFFICES ASSUME PagesInv, [Next]_vars, ~strayed' PROVE PagesInv'
  OBVIOUS
<1>0. TypeInv' BY NextKeepsTypes DEF PagesInv
<1>1. CASE UNCHANGED vars
  <2>1. UNCHANGED <<held, other, link, arena, del, halted>> BY <1>1 DEF vars
  <2> QED BY <1>0, <2>1 DEF PagesInv, DelOK
<1>2. ASSUME NEW a \in DOMAIN arena, NEW want \in Size, Kalloc(a, want)
      PROVE  PagesInv'
  <2>1. CASE UNCHANGED vars BY <1>1, <2>1
  <2>2. CASE Alloc(a, want, 0, blocks) /\ UNCHANGED <<other, del, halted, strayed>>
    BY <1>2, <2>2, AllocKeepsPages DEF Kalloc
  <2> QED BY <1>2, <2>1, <2>2 DEF Kalloc
<1>3. ASSUME NEW b \in blocks, NEW want \in Size, Krealloc(b, want)
      PROVE  PagesInv'
  <2>1. b.arena \in DOMAIN arena /\ b.size \in Nat
    BY DEF PagesInv, TypeInv, TypeOK, BlocksOwned, Blocks
  <2>2. CASE UNCHANGED vars BY <1>1, <2>2
  <2>3. CASE Alloc(b.arena, want, b.size, blocks \ {b}) /\ UNCHANGED <<other, del, halted, strayed>>
    BY <1>3, <2>1, <2>3, AllocKeepsPages DEF Krealloc
  <2> QED BY <1>3, <2>2, <2>3 DEF Krealloc
<1>4. ASSUME NEW b \in blocks, Kfree(b) PROVE PagesInv'
  <2>1. UNCHANGED <<held, other, link, arena, del, halted>> BY <1>4 DEF Kfree
  <2> QED BY <1>0, <2>1 DEF PagesInv, DelOK
<1>5. CASE Halt BY <1>1, <1>5 DEF Halt
<1> QED BY <1>0, <1>1, <1>2, <1>3, <1>4, <1>5, OtherAllocateKeepsPages, OtherFreeKeepsPages,
           MakeArenaKeepsPages, DeleteKeepsPages, DelPageKeepsPages,
           DelReturnKeepsPages DEF Next

LEMMA InitPages == Init => PagesInv
<1> SUFFICES ASSUME Init PROVE PagesInv OBVIOUS
<1>1. DOMAIN arena = {} BY DEF Init
<1> QED BY <1>1, InitTypes DEF Init, PagesInv, DelOK, ChainsBy, ConservedBy

------------------------------------------------------------------------------
(* Blocks *)

(* Where blocks may begin on a page of arena a. *)
HeaderOf(a, page) == IF page = a THEN ARENA_SIZE ELSE HEADER_SIZE

(* The next block goes after the header, aligned. *)
OffsetOK(A, a) ==
  /\ A[a].current_offset % Unit(A[a].p2align) = 0
  /\ HeaderOf(a, A[a].current_page) <= A[a].current_offset

(* As BlocksUsable; and what is above current_offset is free.              *)
BlockOK(A, b) ==
  LET a == b.arena IN
  /\ b.offset % Unit(A[a].p2align) = 0
  /\ b.want <= b.size /\ (~Shrinks => b.copied <= b.size)
  /\ b.page \in ToSet(A[a].pages)
  /\ HeaderOf(a, b.page) <= b.offset
  /\ b.offset + b.size <= PAGE_SIZE
  /\ b.page = A[a].current_page => b.offset + b.size <= A[a].current_offset

Apart(b, c) ==
  \/ b = c
  \/ b.page # c.page
  \/ b.offset + b.size <= c.offset
  \/ c.offset + c.size <= b.offset

BlocksInv ==
  /\ \A a \in DOMAIN arena : OffsetOK(arena, a)
  /\ \A b \in blocks : BlockOK(arena, b)
  /\ \A b, c \in blocks : Apart(b, c)

(* Fewer blocks, and arenas that are as they were. *)
LEMMA FewerBlocks ==
  ASSUME BlocksInv, BlocksOwned', blocks' \subseteq blocks,
         \A a \in DOMAIN arena' : a \in DOMAIN arena /\ arena'[a] = arena[a]
  PROVE  BlocksInv'
<1>1. \A a \in DOMAIN arena' : OffsetOK(arena', a) BY DEF BlocksInv, OffsetOK
<1>2. \A b \in blocks' : BlockOK(arena', b) BY DEF BlocksInv, BlocksOwned, BlockOK
<1> QED BY <1>1, <1>2 DEF BlocksInv

(* What a block needs of its arena outlives an allocation from it.         *)
LEMMA BlockKept ==
  ASSUME NEW A, NEW B, NEW b, BlockOK(A, b),
         b.offset \in Nat, b.size \in Nat,
         B[b.arena].p2align = A[b.arena].p2align,
         \A x \in ToSet(A[b.arena].pages) : x \in ToSet(B[b.arena].pages),
         b.page = B[b.arena].current_page => b.offset + b.size <= B[b.arena].current_offset
  PROVE  BlockOK(B, b)
BY DEF BlockOK

LEMMA AllocKeepsBlocks ==
  ASSUME PagesInv, BlocksInv, Running,
         NEW a \in DOMAIN arena, NEW want \in Size,
         NEW copied \in Nat, NEW kept \in SUBSET blocks,
         Alloc(a, want, copied, kept), ~Shrinks => copied <= want
  PROVE  BlocksInv'
<1>0. /\ TypeOK /\ BlocksOwned /\ WholeBy(held, other, arena)
      /\ IsChain(arena[a].pages, a, arena[a].current_page, link)
      /\ arena[a].p2align \in P2Align /\ arena[a].current_offset \in Nat
  BY RunningPages DEF PagesInv, TypeInv, TypeOK, ChainsBy, ArenaStruct
<1>1. PICK cur \in Pages, offset \in Nat, size \in Nat :
        /\ Placed(a, want, cur, offset, size)
        /\ blocks' = kept \cup {Block(a, cur, offset, size, want, copied)}
        /\ Here(a, cur, offset, size) \/ There(a, cur, offset, size)
  BY <1>0, AllocCases
<1> DEFINE u == Unit(arena[a].p2align)
           nb == Block(a, cur, offset, size, want, copied)
<1>2. /\ want \in Nat /\ want <= size /\ size % u = 0 /\ offset + size <= PAGE_SIZE
      /\ ~Shrinks => copied <= size
      /\ u \in Nat \ {0}
  BY <1>0, <1>1, UnitFits DEF Placed
<1>3. /\ a \in ToSet(arena[a].pages) /\ arena[a].current_page \in ToSet(arena[a].pages)
      /\ arena[a].pages \in Seq(Pages)
  <2>1. arena[a].pages \in Seq(Pages) BY <1>0 DEF IsChain
  <2> QED BY <1>0, <2>1, ChainPages
<1>4. /\ DOMAIN arena' = DOMAIN arena
      /\ \A c \in DOMAIN arena : c # a => arena'[c] = arena[c]
      /\ arena'[a].current_page = cur /\ arena'[a].current_offset = offset + size
      /\ arena'[a].p2align = arena[a].p2align
  BY <1>1 DEF Here, There, Updated
(* The new block begins aligned, behind a header, on a page of the arena.  *)
<1>5. /\ offset % u = 0 /\ HeaderOf(a, cur) <= offset
      /\ cur \in ToSet(arena'[a].pages)
      /\ \A x \in ToSet(arena[a].pages) : x \in ToSet(arena'[a].pages)
  <2>1. CASE Here(a, cur, offset, size)
    <3>1. arena'[a].pages = arena[a].pages /\ cur = arena[a].current_page
          /\ offset = arena[a].current_offset
      BY <2>1 DEF Here, Updated
    <3> QED BY <1>3, <3>1 DEF BlocksInv, OffsetOK
  <2>2. CASE There(a, cur, offset, size)
    <3>1. /\ arena'[a].pages = Append(arena[a].pages, cur) /\ cur \notin held
          /\ offset % u = 0 /\ HEADER_SIZE <= offset
      BY <2>2 DEF There, Updated
    <3>2. cur # a BY <3>1, FreshPage
    <3>3. \A x : x \in ToSet(arena'[a].pages) <=> x \in ToSet(arena[a].pages) \/ x = cur
      BY <1>1, <1>3, <3>1, SetOfAppend
    <3> QED BY <3>1, <3>2, <3>3 DEF HeaderOf
  <2> QED BY <1>1, <2>1, <2>2
(* It is the last on its page. *)
<1>6. ASSUME NEW b \in blocks, b.page = cur
      PROVE  b.arena = a /\ b.offset + b.size <= offset
  <2>1. b.arena \in DOMAIN arena /\ b.page \in ToSet(arena[b.arena].pages)
        /\ (b.page = arena[b.arena].current_page =>
              b.offset + b.size <= arena[b.arena].current_offset)
    BY <1>0 DEF BlocksOwned, BlocksInv, BlockOK
  <2>2. CASE Here(a, cur, offset, size)
    <3>1. cur = arena[a].current_page /\ offset = arena[a].current_offset
      BY <2>2 DEF Here
    <3>2. cur \in ToSet(arena[a].pages) /\ cur \in ToSet(arena[b.arena].pages)
      BY <1>3, <1>6, <2>1, <3>1
    <3>3. b.arena = a BY <1>0, <2>1, <3>2 DEF WholeBy
    <3> QED BY <1>6, <2>1, <3>1, <3>3
  <2>3. CASE There(a, cur, offset, size)
    <3>1. cur \notin held BY <2>3 DEF There
    <3> QED BY <1>6, <2>1, <3>1, FreshPage
  <2> QED BY <1>1, <2>2, <2>3
<1>7. \A b \in blocks : b.offset \in Nat /\ b.size \in Nat
  BY <1>0 DEF TypeOK, Blocks
<1>8. nb.arena = a /\ nb.page = cur /\ nb.offset = offset /\ nb.size = size
      /\ nb.want = want /\ nb.copied = copied
  BY DEF Block
<1>9. \A c \in DOMAIN arena' : OffsetOK(arena', c)
  <2>1. OffsetOK(arena', a)
    <3>1. (offset + size) % u = 0
      <4> HIDE DEF u
      <4> QED BY <1>1, <1>2, <1>5, MultiplesAdd
    <3>2. HeaderOf(a, cur) <= offset + size
      <4>1. HeaderOf(a, cur) \in Nat BY Layout DEF HeaderOf
      <4> QED BY <1>1, <1>5, <4>1
    <3> QED BY <1>4, <3>1, <3>2 DEF OffsetOK
  <2> QED BY <1>4, <2>1 DEF BlocksInv, OffsetOK
<1> HIDE DEF nb
<1>10. BlockOK(arena', nb)
  BY <1>1, <1>2, <1>4, <1>5, <1>8 DEF BlockOK
<1>11. ASSUME NEW b \in blocks PROVE BlockOK(arena', b)
  <2>1. BlockOK(arena, b) /\ b.arena \in DOMAIN arena
    BY <1>0 DEF BlocksInv, BlocksOwned
  <2>2. CASE b.arena # a BY <1>4, <2>1, <2>2 DEF BlockOK
  <2>3. CASE b.arena = a
    <3>1. b.page = cur => b.offset + b.size <= offset + size
      BY <1>1, <1>2, <1>6, <1>7
    <3> QED BY <1>4, <1>5, <1>7, <2>1, <2>3, <3>1, BlockKept
  <2> QED BY <2>2, <2>3
<1>12. ASSUME NEW b \in blocks PROVE Apart(b, nb) /\ Apart(nb, b)
  BY <1>6, <1>8 DEF Apart
<1>13. blocks' = kept \cup {nb} BY <1>1 DEF nb
<1>14. Apart(nb, nb) BY DEF Apart
<1>15. \A b, c \in blocks' : Apart(b, c)
  BY <1>12, <1>13, <1>14 DEF BlocksInv
<1>16. \A b \in blocks' : BlockOK(arena', b) BY <1>10, <1>11, <1>13
<1> QED BY <1>9, <1>15, <1>16 DEF BlocksInv

LEMMA MakeArenaKeepsBlocks ==
  ASSUME PagesInv, BlocksInv, NEW p2align \in P2Align, MakeArena(p2align)
  PROVE  BlocksInv'
<1> DEFINE offset == AlignP2(ARENA_SIZE, p2align)
<1>1. PICK page \in Pages :
        /\ page \notin held
        /\ arena' = [a \in DOMAIN arena \cup {page} |->
             IF a = page
             THEN [current_page |-> page, current_offset |-> offset,
                   p2align |-> p2align, pages |-> <<page>>]
             ELSE arena[a]]
        /\ blocks' = blocks
  BY DEF MakeArena, AllocatePage
<1>2. offset % Unit(p2align) = 0 /\ ARENA_SIZE <= offset BY ArenaOffsetFits
<1> HIDE DEF offset
<1>3. page \notin DOMAIN arena BY <1>1, FreshPage DEF MakeArena
<1>4. /\ DOMAIN arena' = DOMAIN arena \cup {page}
      /\ arena'[page].current_page = page /\ arena'[page].current_offset = offset
      /\ arena'[page].p2align = p2align
      /\ \A a \in DOMAIN arena : arena'[a] = arena[a]
  BY <1>1, <1>3
<1>5. OffsetOK(arena', page) BY <1>2, <1>4 DEF OffsetOK, HeaderOf
<1>6. \A a \in DOMAIN arena' : OffsetOK(arena', a)
  BY <1>4, <1>5 DEF BlocksInv, OffsetOK
<1>7. \A b \in blocks' : BlockOK(arena', b)
  BY <1>1, <1>4 DEF PagesInv, TypeInv, BlocksOwned, BlocksInv, BlockOK
<1> QED BY <1>1, <1>6, <1>7 DEF BlocksInv

LEMMA NextKeepsBlocks == PagesInv /\ BlocksInv /\ [Next]_vars => BlocksInv'
<1> SUFFICES ASSUME PagesInv, BlocksInv, [Next]_vars PROVE BlocksInv'
  OBVIOUS
<1>0. TypeOK /\ BlocksOwned /\ BlocksOwned' BY NextKeepsTypes DEF PagesInv, TypeInv
<1>1. CASE UNCHANGED <<arena, blocks>> BY <1>1 DEF BlocksInv
<1>2. ASSUME NEW a \in DOMAIN arena, NEW want \in Size, Kalloc(a, want)
      PROVE  BlocksInv'
  <2>1. CASE UNCHANGED vars BY <1>1, <2>1 DEF vars
  <2>2. CASE Alloc(a, want, 0, blocks)
    <3>1. want \in Nat /\ 0 <= want BY CallerAssumption, Layout
    <3> QED BY <1>2, <2>2, <3>1, AllocKeepsBlocks DEF Kalloc
  <2> QED BY <1>2, <2>1, <2>2 DEF Kalloc
<1>3. ASSUME NEW b \in blocks, NEW want \in Size, Krealloc(b, want)
      PROVE  BlocksInv'
  <2>1. b.arena \in DOMAIN arena /\ b.size \in Nat
    BY <1>0 DEF TypeOK, BlocksOwned, Blocks
  <2>2. CASE UNCHANGED vars BY <1>1, <2>2 DEF vars
  <2>3. CASE Alloc(b.arena, want, b.size, blocks \ {b})
    <3>1. want \in Nat BY CallerAssumption, Layout
    <3>2. ~Shrinks => b.size <= want BY <1>3, <2>1, <3>1 DEF Krealloc
    <3> QED BY <1>3, <2>1, <2>3, <3>2, AllocKeepsBlocks DEF Krealloc
  <2> QED BY <1>3, <2>2, <2>3 DEF Krealloc
<1>4. ASSUME NEW b \in blocks, Kfree(b) PROVE BlocksInv'
  BY <1>0, <1>4, FewerBlocks DEF Kfree
<1>5. ASSUME NEW a \in DOMAIN arena, Delete(a) PROVE BlocksInv'
  BY <1>0, <1>5, FewerBlocks DEF Delete
<1>6. CASE DelReturn
  <2>1. /\ DOMAIN arena' = DOMAIN arena \ {del.arena} /\ blocks' = blocks
        /\ \A a \in DOMAIN arena' : arena'[a] = arena[a]
    BY <1>6 DEF DelReturn
  <2> QED BY <1>0, <2>1, FewerBlocks
<1>7. CASE OtherAllocate BY <1>1, <1>7 DEF OtherAllocate
<1>8. ASSUME NEW page \in other, OtherFree(page) PROVE BlocksInv'
  BY <1>1, <1>8 DEF OtherFree
<1>9. CASE DelPage BY <1>1, <1>9 DEF DelPage
<1>10. CASE UNCHANGED vars BY <1>1, <1>10 DEF vars
<1>11. CASE Halt BY <1>10, <1>11 DEF Halt
<1> QED BY <1>2, <1>3, <1>4, <1>5, <1>6, <1>7, <1>8, <1>9, <1>10, <1>11,
           MakeArenaKeepsBlocks DEF Next

LEMMA InitBlocks == Init => BlocksInv
<1> SUFFICES ASSUME Init PROVE BlocksInv OBVIOUS
<1>1. DOMAIN arena = {} BY DEF Init
<1> QED BY <1>1 DEF Init, BlocksInv

------------------------------------------------------------------------------
(* Theorems *)

IInv == TypeInv /\ (~strayed => PagesInv /\ BlocksInv)

(* What has strayed does not come back to order. *)
LEMMA StrayedStays == strayed /\ [Next]_vars => strayed'
<1> SUFFICES ASSUME strayed, [Next]_vars PROVE strayed'
  OBVIOUS
<1>1. CASE UNCHANGED strayed BY <1>1
<1>2. CASE DelPage BY <1>2 DEF DelPage
<1>3. CASE UNCHANGED vars BY <1>1, <1>3 DEF vars
<1> QED BY <1>1, <1>2, <1>3 DEF Next, OtherAllocate, OtherFree, MakeArena, Kalloc,
           Krealloc, Kfree, Delete, DelReturn, Halt, Running

LEMMA Inductive == (Init => IInv) /\ (IInv /\ [Next]_vars => IInv')
<1>1. Init => IInv BY InitPages, InitBlocks DEF PagesInv, IInv
<1>2. ASSUME IInv, [Next]_vars PROVE IInv'
  <2>1. TypeInv' BY <1>2, NextKeepsTypes DEF IInv
  <2>2. ASSUME ~strayed' PROVE PagesInv' /\ BlocksInv'
    <3>1. PagesInv /\ BlocksInv BY <1>2, <2>2, StrayedStays DEF IInv
    <3> QED BY <1>2, <2>2, <3>1, NextKeepsPages, NextKeepsBlocks
  <2> QED BY <2>1, <2>2 DEF IInv
<1> QED BY <1>1, <1>2

(* The invariant the others follow from: chains, pages and blocks are in   *)
(* order until a deletion strays, whatever fresh pages hold.               *)
THEOREM Invariant == Spec => []IInv
BY Inductive, PTL DEF Spec

(* Until a deletion strays, and if no caller makes a block smaller, every  *)
(* block is aligned, as large as asked for, inside its page and clear of   *)
(* what the page begins with, and holds all that krealloc copied into it.  *)
THEOREM BlocksStayUsable == ~Shrinks => (Spec => []BlocksUsable)
<1>1. ASSUME ~Shrinks PROVE IInv => BlocksUsable
  BY <1>1 DEF IInv, BlocksInv, BlockOK, BlocksUsable, HeaderOf, Unit
<1>2. ASSUME ~Shrinks PROVE Spec => []BlocksUsable
  BY <1>1, <1>2, Invariant, PTL
<1> QED BY <1>2

(* Until a deletion strays no two blocks overlap, whatever the callers ask *)
(* of any number of arenas and whatever their pages held before.           *)
THEOREM BlocksStayDisjoint == Spec => []BlocksDisjoint
<1>1. IInv => BlocksDisjoint BY DEF IInv, BlocksInv, Apart, BlocksDisjoint
<1> QED BY <1>1, Invariant, PTL

(* Until a deletion strays the links of each arena lead from its first     *)
(* page through all of them to the newest; what that one links to is only  *)
(* known of an arena of one page, where make_arena_pmm_allocator wrote it. *)
THEOREM ChainStaysComplete == Spec => []ChainComplete
<1>1. IInv => ChainComplete
  <2> SUFFICES ASSUME IInv, ~strayed, NEW a \in DOMAIN arena
               PROVE  /\ Head(arena[a].pages) = a
                      /\ Last(arena[a].pages) = arena[a].current_page
                      /\ \A i \in 1 .. Len(arena[a].pages) - 1 :
                           link[arena[a].pages[i]] = arena[a].pages[i + 1]
                      /\ Len(arena[a].pages) = 1 => link[a] = NULL
    BY DEF ChainComplete
  <2> DEFINE p == arena[a].pages
  <2>1. IsChain(p, a, arena[a].current_page, link)
    BY DEF IInv, PagesInv, ChainsBy
  <2> HIDE DEF p
  <2>2. Head(p) = p[1] /\ Last(p) = p[Len(p)]
    BY <2>1 DEF IsChain, Last
  <2> QED BY <2>1, <2>2 DEF IsChain, p
<1> QED BY <1>1, Invariant, PTL

(* Until a deletion strays the pages in use are those of the arenas and of *)
(* the other parts of the kernel, each counted once, also half way through *)
(* the deletion of an arena.                                               *)
THEOREM PagesStayConserved == Spec => []PagesConserved
<1>1. IInv => PagesConserved BY ConservedIs DEF IInv, PagesInv, PagesConserved
<1> QED BY <1>1, Invariant, PTL

(* Whatever fresh pages hold and whoever uses them, pmm_free_page panics   *)
(* for an arena only after its deletion, or one before it, has followed a  *)
(* link that nothing had written: nothing else frees a page twice.         *)
THEOREM BadFreesAreAstray == Spec => []BadFreeOnlyAstray
<1>1. IInv => BadFreeOnlyAstray BY DEF IInv, PagesInv, BadFreeOnlyAstray
<1> QED BY <1>1, Invariant, PTL
==============================================================================
