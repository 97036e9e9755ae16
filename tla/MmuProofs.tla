------------------------------- MODULE MmuProofs -------------------------------
(***************************************************************************)
(* Proofs about Mmu, for all sizes of tables and numbers of levels, all    *)
(* memories a bootloader may leave and all requests that satisfy the named *)
(* assumptions of Mmu.                                                     *)
(***************************************************************************)
EXTENDS Mmu, Arithmetic

------------------------------------------------------------------------------
(* Sizes *)

(* The sizes, as numbers.                                                  *)
LEMMA Constants ==
  /\ ENTRIES \in Nat \ {0} /\ LEVELS \in Nat /\ LEVELS >= 2 /\ VIRTUAL \in Nat
  /\ DEPTH_BOTTOM = LEVELS - 1 /\ DEPTH_BOTTOM \in Nat /\ DEPTH_BOTTOM >= 1
  /\ DEPTH_MEMORY = LEVELS /\ DEPTH_INVALID = LEVELS + 1
  /\ Index = 0 .. ENTRIES - 1 /\ 0 \in Index
  /\ Memory \subseteq Nat /\ Pool \subseteq Memory /\ Root \in Memory \ Pool
BY LayoutAssumption DEF DEPTH_BOTTOM, DEPTH_MEMORY, DEPTH_INVALID, Index

(* The recursive function Power is the powers of ENTRIES.                  *)
LEMMA PowerIs ==
  /\ Power[0] = 1
  /\ \A n \in 0 .. LEVELS - 1 : Power[n + 1] = ENTRIES * Power[n]
  /\ \A n \in 0 .. LEVELS : Power[n] \in Nat \ {0}
<1> DEFINE X == Nat
           step == [p \in Nat \X X |-> ENTRIES * p[2]]
           Eq(c) == c = [n \in 0 .. LEVELS |-> IF n = 0 THEN 1 ELSE ENTRIES * c[n - 1]]
<1>1. LEVELS \in Nat /\ ENTRIES \in Nat \ {0} BY Constants
<1>2. step \in [Nat \X X -> X] BY <1>1
<1>3. \E c : Eq(c)
  <2>1. PICK g \in [0 .. LEVELS -> X] : Follows(g, LEVELS, 1, step)
    <3> HIDE DEF step
    <3> QED BY <1>1, <1>2, Recursion
  <2>2. \A n \in 0 .. LEVELS : g[n] = IF n = 0 THEN 1 ELSE ENTRIES * g[n - 1]
    <3> SUFFICES ASSUME NEW n \in 0 .. LEVELS, n # 0 PROVE g[n] = ENTRIES * g[n - 1]
      BY <2>1 DEF Follows
    <3>1. n - 1 \in 0 .. LEVELS - 1 /\ n - 1 \in Nat /\ (n - 1) + 1 = n /\ n - 1 \in 0 .. LEVELS
      BY <1>1
    <3>2. g[(n - 1) + 1] = step[<<n - 1, g[n - 1]>>] BY <2>1, <3>1 DEF Follows
    <3>3. g[n - 1] \in Nat BY <2>1, <3>1
    <3> QED BY <3>1, <3>2, <3>3
  <2>3. Eq(g) BY <2>1, <2>2
  <2> QED BY <2>3
<1>4. Eq(Power)
  <2>1. Power = CHOOSE c : Eq(c) BY DEF Power
  <2> HIDE DEF Eq
  <2> QED BY <1>3, <2>1
<1>5. Power[0] = 1 BY <1>1, <1>4
<1>6. ASSUME NEW n \in 0 .. LEVELS - 1 PROVE Power[n + 1] = ENTRIES * Power[n]
  <2>1. n + 1 \in 0 .. LEVELS /\ n + 1 # 0 /\ (n + 1) - 1 = n BY <1>1
  <2> QED BY <1>4, <2>1
<1>7. \A n \in 0 .. LEVELS : Power[n] \in Nat \ {0}
  <2> DEFINE S == {n \in Nat : n <= LEVELS => Power[n] \in Nat \ {0}}
  <2>1. 0 \in S BY <1>5
  <2>2. ASSUME NEW n \in S \cap Nat PROVE n + 1 \in S
    <3> SUFFICES ASSUME n + 1 <= LEVELS PROVE Power[n + 1] \in Nat \ {0} OBVIOUS
    <3>1. n \in 0 .. LEVELS - 1 /\ Power[n] \in Nat \ {0} BY <1>1
    <3>2. Power[n + 1] = ENTRIES * Power[n] BY <1>6, <3>1
    <3>3. \A a, b \in Nat \ {0} : a * b \in Nat \ {0} OBVIOUS
    <3> QED BY <1>1, <3>1, <3>2, <3>3
  <2> HIDE DEF S
  <2>3. \A n \in Nat : n \in S BY <2>1, <2>2, Induction
  <2> QED BY <2>3 DEF S
<1> QED BY <1>5, <1>6, <1>7

(* The recursive functions of the walk are well defined. *)
LEMMA LoopInduction ==
  ASSUME NEW X, NEW s \in X, NEW turn \in [Nat \X X -> X], NEW n \in Nat,
         NEW I, <<0, s>> \in I,
         \A k \in 0 .. n - 1, x \in X : <<k, x>> \in I => <<k + 1, turn[<<k, x>>]>> \in I
  PROVE  Loop(turn, s, n) \in X /\ <<n, Loop(turn, s, n)>> \in I
<1> DEFINE Eq(c) == c = [k \in 0 .. n |-> IF k = 0 THEN s ELSE turn[<<k - 1, c[k - 1]>>]]
           f == CHOOSE c : Eq(c)
<1>1. \E c : Eq(c)
  <2>1. PICK g \in [0 .. n -> X] : Follows(g, n, s, turn) BY Recursion
  <2>2. \A k \in 0 .. n : g[k] = IF k = 0 THEN s ELSE turn[<<k - 1, g[k - 1]>>]
    <3> SUFFICES ASSUME NEW k \in 0 .. n, k # 0 PROVE g[k] = turn[<<k - 1, g[k - 1]>>]
      BY <2>1 DEF Follows
    <3>1. k - 1 \in 0 .. n - 1 /\ (k - 1) + 1 = k OBVIOUS
    <3> QED BY <2>1, <3>1 DEF Follows
  <2>3. Eq(g) BY <2>1, <2>2
  <2> QED BY <2>3
<1>2. Eq(f)
  <2> HIDE DEF Eq
  <2> QED BY <1>1
<1>3. Loop(turn, s, n) = f[n] BY DEF Loop
<1> HIDE DEF f
<1> DEFINE S == {k \in Nat : k <= n => f[k] \in X /\ <<k, f[k]>> \in I}
<1>4. 0 \in S
  <2>1. 0 \in 0 .. n OBVIOUS
  <2>2. f[0] = s BY <1>2, <2>1
  <2> QED BY <2>2
<1>5. ASSUME NEW k \in S \cap Nat PROVE k + 1 \in S
  <2> SUFFICES ASSUME k + 1 <= n PROVE f[k + 1] \in X /\ <<k + 1, f[k + 1]>> \in I OBVIOUS
  <2>1. k \in 0 .. n - 1 /\ f[k] \in X /\ <<k, f[k]>> \in I OBVIOUS
  <2>2. k + 1 \in 0 .. n /\ k + 1 # 0 /\ (k + 1) - 1 = k OBVIOUS
  <2>3. f[k + 1] = turn[<<k, f[k]>>] BY <1>2, <2>2
  <2>4. <<k, f[k]>> \in Nat \X X BY <2>1
  <2> QED BY <2>1, <2>3, <2>4
<1> HIDE DEF S
<1>6. \A k \in Nat : k \in S BY <1>4, <1>5, Induction
<1>7. n \in S BY <1>6
<1> QED BY <1>3, <1>7 DEF S

------------------------------------------------------------------------------
(* Types of the walk *)

(* The lowest free page is one. *)
LEMMA MinIsFree ==
  ASSUME NEW s \in WalkState, Free(s) # {}
  PROVE  Min(Free(s)) \in Pool \ s.held
<1>1. Free(s) \in SUBSET Nat BY Constants DEF Free
<1>2. \E x \in Free(s) : \A y \in Free(s) : x <= y BY <1>1, LeastExists
<1> QED BY <1>2 DEF Min, Free

(* The later and the earlier of two addresses. *)
LEMMA MaxMin ==
  ASSUME NEW a \in Int, NEW b \in Int
  PROVE  /\ Max({a, b}) = IF a >= b THEN a ELSE b
         /\ Min({a, b}) = IF a <= b THEN a ELSE b
<1> DEFINE x == IF a >= b THEN a ELSE b
           y == IF a <= b THEN a ELSE b
<1>1. x \in {a, b} /\ \A z \in {a, b} : x >= z OBVIOUS
<1>2. \A z \in {a, b} : (\A t \in {a, b} : z >= t) => z = x OBVIOUS
<1>3. Max({a, b}) = x
  <2> HIDE DEF x
  <2> QED BY <1>1, <1>2 DEF Max
<1>4. y \in {a, b} /\ \A z \in {a, b} : y <= z OBVIOUS
<1>5. \A z \in {a, b} : (\A t \in {a, b} : z <= t) => z = y OBVIOUS
<1>6. Min({a, b}) = y
  <2> HIDE DEF y
  <2> QED BY <1>4, <1>5 DEF Min
<1> QED BY <1>3, <1>6

(* Addresses wrap to addresses. *)
LEMMA WrapType ==
  ASSUME NEW x \in Int
  PROVE  Wrap(x) \in 0 .. VIRTUAL - 1 /\ (x \in 0 .. VIRTUAL - 1 => Wrap(x) = x)
<1>1. VIRTUAL \in Nat \ {0}
  <2>1. Power[LEVELS] \in Nat BY PowerIs, Constants
  <2> QED BY <2>1, LayoutAssumption
<1> QED BY <1>1 DEF Wrap

(* What the driver writes are entries.                                     *)
LEMMA EntryTypes ==
  /\ Zero \in Entry /\ ZeroTable \in [Index -> Entry]
  /\ \A page \in Nat : [page |-> page, bits |-> PM_PERMS] \in Entry
  /\ \A page \in Nat : \A flags : [page |-> page, bits |-> ConvertFlags(flags)] \in Entry
BY DEF Entry, Zero, ZeroTable, PM_PERMS, ConvertFlags, PageTableBits

(* Writes, allocations and frees give states. *)
LEMMA WriteType ==
  ASSUME NEW s \in WalkState, NEW slot \in Memory \X Index, NEW e \in Entry
  PROVE  /\ Write(s, slot, e) \in WalkState
         /\ Write(s, slot, e).held = s.held /\ Write(s, slot, e).halted = s.halted
         /\ Write(s, slot, e).mem = [s.mem EXCEPT ![slot[1]][slot[2]] = e]
<1>1. slot[1] \in Memory /\ slot[2] \in Index OBVIOUS
<1>2. s.mem[slot[1]] \in [Index -> Entry] BY <1>1 DEF WalkState
<1>3. [s.mem EXCEPT ![slot[1]][slot[2]] = e] \in [Memory -> [Index -> Entry]]
  BY <1>1, <1>2 DEF WalkState
<1> QED BY <1>3 DEF Write, WalkState

(* An allocation takes a free page and zeroes it.                          *)
LEMMA AllocateType ==
  ASSUME NEW s \in WalkState, Free(s) # {}
  PROVE  LET p == Min(Free(s)) t == AllocatePage(s) IN
         /\ p \in Pool \ s.held /\ t \in WalkState
         /\ t.held = s.held \cup {p} /\ t.halted = s.halted
         /\ t.mem = [s.mem EXCEPT ![p] = ZeroTable]
<1> DEFINE p == Min(Free(s))
<1>1. p \in Pool \ s.held BY MinIsFree
<1> HIDE DEF p
<1>2. [s.mem EXCEPT ![p] = ZeroTable] \in [Memory -> [Index -> Entry]]
  BY <1>1, Constants, EntryTypes DEF WalkState
<1>3. s.held \cup {p} \in SUBSET Pool BY <1>1 DEF WalkState
<1> QED BY <1>1, <1>2, <1>3 DEF AllocatePage, WalkState, p

(* A panic changes nothing else.                                           *)
LEMMA HaltedType ==
  ASSUME NEW s \in WalkState
  PROVE  /\ Halted(s) \in WalkState /\ Halted(s).halted
         /\ Halted(s).mem = s.mem /\ Halted(s).held = s.held
BY DEF Halted, WalkState

(* A free gives back a page that is held, and is a panic otherwise.        *)
LEMMA FreeType ==
  ASSUME NEW s \in WalkState, NEW p
  PROVE  /\ FreePage(s, p) \in WalkState
         /\ FreePage(s, p).mem = s.mem
         /\ p \in s.held => /\ FreePage(s, p).held = s.held \ {p}
                            /\ FreePage(s, p).halted = s.halted
         /\ p \notin s.held => FreePage(s, p) = Halted(s)
BY HaltedType DEF FreePage, WalkState

(* What a walk is called with. *)
Visits == {"reserve", "gc", "leaf"}
Walks == [WalkState \X Location -> WalkState]
LeafValues(visit, leaf) == visit = "leaf" => leaf \in [0 .. VIRTUAL - 1 -> Entry]

(* A table of a depth has ENTRIES entries of its span.                     *)
LEMMA SpanIs ==
  ASSUME NEW depth \in 0 .. DEPTH_BOTTOM
  PROVE  /\ Span(depth) \in Nat \ {0}
         /\ Power[LEVELS - depth] = ENTRIES * Span(depth)
         /\ Power[LEVELS - depth] \in Nat \ {0}
         /\ LEVELS - depth \in 1 .. LEVELS
<1>1. DEPTH_BOTTOM - depth \in 0 .. LEVELS - 1 /\ LEVELS - depth \in 0 .. LEVELS
      /\ (DEPTH_BOTTOM - depth) + 1 = LEVELS - depth /\ LEVELS - depth \in 1 .. LEVELS
  BY Constants
<1>2. Power[(DEPTH_BOTTOM - depth) + 1] = ENTRIES * Power[DEPTH_BOTTOM - depth]
  BY <1>1, PowerIs
<1>3. Power[LEVELS - depth] = ENTRIES * Span(depth) BY <1>1, <1>2 DEF Span
<1>4. DEPTH_BOTTOM - depth \in 0 .. LEVELS BY <1>1, Constants
<1>5. Span(depth) \in Nat \ {0} BY <1>4, PowerIs DEF Span
<1> QED BY <1>1, <1>3, <1>5, PowerIs

(* Indices are numbers.                                                    *)
LEMMA IndexTypes ==
  ASSUME NEW loc \in Location
  PROVE  Base(loc) \in Int /\ StartIndex(loc) \in Nat /\ EndIndex(loc) \in Nat
<1> DEFINE k == Span(loc.depth)
           m == ENTRIES * k
           x == loc.start
<1>1. loc.depth \in 0 .. DEPTH_BOTTOM /\ x \in Nat /\ loc.end \in Nat
  BY Constants DEF Location
<1>2. k \in Nat \ {0} /\ m \in Nat \ {0} /\ ENTRIES \in Nat \ {0} BY <1>1, SpanIs, Constants
<1> HIDE DEF k
<1>3. Base(loc) = x - (x % m) BY DEF Base, RoundDown, k
<1>4. x % m \in Int /\ x % k \in Int
  <2> HIDE DEF m
  <2> QED BY <1>1, <1>2
<1>5. (x - (x % k)) - (x - (x % m)) \in Nat
  <2>1. x % k <= x % m BY <1>1, <1>2, ModNested
  <2> HIDE DEF m, x
  <2> QED BY <1>1, <1>4, <2>1
<1>6. StartIndex(loc) = ((x - (x % k)) - (x - (x % m))) \div k
  BY DEF StartIndex, Base, RoundDown, k
<1>7. StartIndex(loc) \in Nat
  <2> HIDE DEF m, x
  <2> QED BY <1>2, <1>5, <1>6, DivMod
<1>8. Base(loc) \in Int
  <2> HIDE DEF m, x
  <2> QED BY <1>1, <1>3, <1>4
<1>9. EndIndex(loc) \in Nat
  <2>1. loc.end + k - 1 \in Int BY <1>1, <1>2
  <2>2. Wrap(loc.end + k - 1) \in Nat BY <2>1, WrapType
  <2>3. Wrap(loc.end + k - 1) % k \in Int BY <1>2, <2>2
  <2>4. RoundUp(loc.end, k) \in Int BY <2>2, <2>3 DEF RoundUp, RoundDown
  <2>5. Wrap(RoundUp(loc.end, k) - Base(loc)) \in Nat BY <1>8, <2>4, WrapType
  <2>6. EndIndex(loc) = Wrap(RoundUp(loc.end, k) - Base(loc)) \div k BY DEF EndIndex, k
  <2> QED BY <1>2, <2>5, <2>6, DivMod
<1> QED BY <1>7, <1>8, <1>9

(* The location of a child is one.                                         *)
LEMMA ChildType ==
  ASSUME NEW loc \in Location, NEW i \in Nat, NEW entry \in Entry
  PROVE  LET c == Child(loc, i, entry) IN
         /\ c.page = entry.page /\ c.page \in Nat /\ c.depth = loc.depth + 1
         /\ c.start \in 0 .. VIRTUAL - 1
         /\ c.depth <= DEPTH_BOTTOM =>
              c \in Location /\ \A p \in Nat : [c EXCEPT !.page = p] \in Location
<1> DEFINE a == Wrap(Base(loc) + i * Span(loc.depth))
           b == Wrap(Base(loc) + (i + 1) * Span(loc.depth))
<1>1. loc.depth \in 0 .. DEPTH_BOTTOM /\ loc.start \in 0 .. VIRTUAL - 1
      /\ loc.end \in 0 .. VIRTUAL - 1
  BY DEF Location
<1>2. Base(loc) \in Int /\ Span(loc.depth) \in Nat BY <1>1, IndexTypes, SpanIs
<1>3. a \in 0 .. VIRTUAL - 1 /\ b \in 0 .. VIRTUAL - 1 
  <2>1. i * Span(loc.depth) \in Int /\ (i + 1) * Span(loc.depth) \in Int BY <1>2
  <2> QED BY <1>2, <2>1, WrapType
<1> DEFINE u == Max({loc.start, a})
           v == Min({loc.end, b})
<1>4. u \in 0 .. VIRTUAL - 1 /\ v \in 0 .. VIRTUAL - 1
  <2> HIDE DEF a, b
  <2>1. u = IF loc.start >= a THEN loc.start ELSE a BY <1>1, <1>3, MaxMin
  <2>2. v = IF loc.end <= b THEN loc.end ELSE b
    <3>1. loc.end \in Int /\ b \in Int BY <1>1, <1>3
    <3> QED BY <3>1, MaxMin
  <2> HIDE DEF u, v
  <2> QED BY <1>1, <1>3, <2>1, <2>2
<1>5. entry.page \in Nat BY DEF Entry
<1>6. Child(loc, i, entry) = [page |-> entry.page, depth |-> loc.depth + 1,
                              start |-> u, end |-> v]
  BY DEF Child
<1> HIDE DEF u, v
<1> DEFINE c == Child(loc, i, entry)
<1>7. /\ c.page = entry.page /\ c.depth = loc.depth + 1 /\ c.start = u
      /\ c = [page |-> entry.page, depth |-> loc.depth + 1, start |-> u, end |-> v]
      /\ \A p \in Nat : [c EXCEPT !.page = p] =
                          [page |-> p, depth |-> loc.depth + 1, start |-> u, end |-> v]
  BY <1>6
<1> HIDE DEF c
<1>8. ASSUME loc.depth + 1 <= DEPTH_BOTTOM, NEW p \in Nat
      PROVE  [page |-> p, depth |-> loc.depth + 1, start |-> u, end |-> v] \in Location
  <2>1. loc.depth + 1 \in 0 .. DEPTH_BOTTOM BY <1>1, <1>8, Constants
  <2> QED BY <1>4, <2>1 DEF Location
<1> QED BY <1>4, <1>5, <1>7, <1>8 DEF c

(* What is read is an entry. *)
LEMMA ReadType ==
  ASSUME NEW s \in WalkState, NEW slot \in Memory \X Index
  PROVE  Read(s, slot) \in Entry /\ Read(s, slot) = s.mem[slot[1]][slot[2]]
BY DEF Read, WalkState

(* The place of an entry of a table. *)
LEMMA SlotType ==
  ASSUME NEW p \in Nat, NEW i \in Nat
  PROVE  /\ Slot(p, i)[2] \in Index
         /\ Slot(p, i)[1] \in Memory => Slot(p, i) \in Memory \X Index
         /\ i \in Index => Slot(p, i) = <<p, i>>
<1>1. ENTRIES \in Nat \ {0} /\ Index = 0 .. ENTRIES - 1 BY Constants
<1>2. i % ENTRIES \in 0 .. ENTRIES - 1 BY <1>1, DivMod
<1>3. ASSUME i \in Index PROVE i \div ENTRIES = 0 /\ i % ENTRIES = i BY <1>1, <1>3
<1> QED BY <1>1, <1>2, <1>3 DEF Slot

(* A callback gives a state, and so does a turn of the loop, the loop and  *)
(* the walk.                                                               *)
LEMMA VisitType ==
  ASSUME NEW visit \in Visits, NEW s \in WalkState, NEW below \in Walks, NEW leaf,
         LeafValues(visit, leaf), NEW loc \in Location, NEW i \in Nat,
         NEW slot \in Memory \X Index, NEW c, c = Child(loc, i, Read(s, slot))
  PROVE  Visit(visit, s, c, slot, below, leaf) \in WalkState
<1>1. Read(s, slot) \in Entry BY ReadType
<1>2. /\ c.page \in Nat /\ c.depth = loc.depth + 1 /\ c.start \in 0 .. VIRTUAL - 1
      /\ c.depth <= DEPTH_BOTTOM =>
           c \in Location /\ \A p \in Nat : [c EXCEPT !.page = p] \in Location
  BY <1>1, ChildType
<1>3. \A t \in WalkState, l \in Location : below[<<t, l>>] \in WalkState BY DEF Walks
<1>4. CASE visit = "reserve"
  <2> DEFINE none == ~Present(Read(s, slot))
             page == IF none THEN Min(Free(s)) ELSE c.page
             t == IF none
                  THEN Write(AllocatePage(s), slot, [page |-> page, bits |-> PM_PERMS])
                  ELSE s
  <2>1. CASE none /\ Free(s) = {}
    <3>1. Reserve(s, c, slot, below) = Halted(s) BY <2>1 DEF Reserve
    <3> QED BY <1>4, <3>1, HaltedType DEF Visit
  <2>2. CASE ~(none /\ Free(s) = {})
    <3>1. page \in Nat /\ t \in WalkState
      <4>1. CASE none
        <5>1. Min(Free(s)) \in Pool /\ AllocatePage(s) \in WalkState
          BY <2>2, <4>1, AllocateType
        <5>2. Min(Free(s)) \in Nat BY <5>1, Constants
        <5>3. [page |-> Min(Free(s)), bits |-> PM_PERMS] \in Entry BY <5>2, EntryTypes
        <5> QED BY <4>1, <5>1, <5>2, <5>3, WriteType
      <4>2. CASE ~none BY <1>2, <4>2
      <4> QED BY <4>1, <4>2
    <3>2. Reserve(s, c, slot, below) =
            IF c.depth < DEPTH_BOTTOM THEN below[<<t, [c EXCEPT !.page = page]>>] ELSE t
      BY <2>2 DEF Reserve
    <3> HIDE DEF page, t
    <3>3. c.depth \in Int BY <1>2, Constants DEF Location
    <3>4. Reserve(s, c, slot, below) \in WalkState
      <4>1. CASE c.depth < DEPTH_BOTTOM
        <5>1. c.depth <= DEPTH_BOTTOM BY <3>3, <4>1, Constants
        <5>2. [c EXCEPT !.page = page] \in Location BY <1>2, <3>1, <5>1
        <5> QED BY <1>3, <3>1, <3>2, <4>1, <5>2
      <4>2. CASE ~(c.depth < DEPTH_BOTTOM) BY <3>1, <3>2, <4>2
      <4> QED BY <4>1, <4>2
    <3> QED BY <1>4, <3>4 DEF Visit
  <2> QED BY <2>1, <2>2
<1>5. CASE visit = "gc"
  <2> DEFINE t == IF c.depth < DEPTH_BOTTOM THEN below[<<s, c>>] ELSE s
  <2>1. t \in WalkState
    <3>1. c.depth \in Int BY <1>2, Constants DEF Location
    <3> QED BY <1>2, <1>3, <3>1, Constants
  <2> HIDE DEF t
  <2>2. Write(t, slot, Zero) \in WalkState BY <2>1, WriteType, EntryTypes
  <2>3. FreePage(Write(t, slot, Zero), c.page) \in WalkState BY <2>2, FreeType
  <2>4. Gc(s, c, slot, below) \in WalkState BY <2>1, <2>3 DEF Gc, t
  <2> QED BY <1>5, <2>4 DEF Visit
<1>6. CASE visit = "leaf"
  <2>1. leaf[c.start] \in Entry BY <1>2, <1>6 DEF LeafValues
  <2>2. Write(s, slot, leaf[c.start]) \in WalkState BY <2>1, WriteType
  <2>3. Leaf(s, c, slot, below, leaf) \in WalkState BY <1>2, <1>3, <2>2 DEF Leaf
  <2> QED BY <1>6, <2>3 DEF Visit
<1> QED BY <1>4, <1>5, <1>6 DEF Visits

(* One turn of the loop gives a state. *)
LEMMA TurnType ==
  ASSUME NEW visit \in Visits, NEW s \in WalkState, NEW below \in Walks, NEW leaf,
         LeafValues(visit, leaf), NEW loc \in Location, NEW i \in Nat
  PROVE  Turn(visit, s, loc, i, below, leaf) \in WalkState
<1> DEFINE slot == Slot(loc.page, i)
<1>1. loc.page \in Nat BY DEF Location
<1>2. slot[1] \in Memory => slot \in Memory \X Index BY <1>1, SlotType
<1> HIDE DEF slot
<1>3. CASE slot[1] \in Memory
  <2>1. Visit(visit, s, Child(loc, i, Read(s, slot)), slot, below, leaf) \in WalkState
    BY <1>2, <1>3, VisitType
  <2> QED BY <1>3, <2>1 DEF Turn, slot
<1>4. CASE slot[1] \notin Memory BY <1>4, HaltedType DEF Turn, slot
<1> QED BY <1>3, <1>4

(* The loop of apply_nodes: an invariant of its turns, which does not      *)
(* depend on anything but the number of turns and the state, holds at the  *)
(* end.                                                                    *)
LEMMA TurnsInduction ==
  ASSUME NEW visit \in Visits, NEW s \in WalkState, NEW below \in Walks, NEW leaf,
         LeafValues(visit, leaf), NEW loc \in Location
  PROVE  LET n == EndIndex(loc) - StartIndex(loc)
             t == Turns(visit, s, loc, below, leaf)
         IN  /\ t \in WalkState
             /\ n <= 0 => t = s
             /\ n > 0 =>
                  \A I : /\ <<0, s>> \in I
                         /\ \A k \in 0 .. n - 1, x \in WalkState : <<k, x>> \in I =>
                              <<k + 1, Turn(visit, x, loc, StartIndex(loc) + k, below, leaf)>> \in I
                         => <<n, t>> \in I
<1> DEFINE n == EndIndex(loc) - StartIndex(loc)
           t == Turns(visit, s, loc, below, leaf)
           turn == [x \in Nat \X WalkState |->
                      Turn(visit, x[2], loc, StartIndex(loc) + x[1], below, leaf)]
<1>1. n \in Int /\ StartIndex(loc) \in Nat BY IndexTypes
<1>2. turn \in [Nat \X WalkState -> WalkState]
  <2>1. ASSUME NEW x \in Nat \X WalkState
        PROVE  Turn(visit, x[2], loc, StartIndex(loc) + x[1], below, leaf) \in WalkState
    <3>1. StartIndex(loc) + x[1] \in Nat /\ x[2] \in WalkState BY <1>1
    <3> QED BY <3>1, TurnType
  <2> QED BY <2>1
<1>3. \A k \in Nat, x \in WalkState :
        turn[<<k, x>>] = Turn(visit, x, loc, StartIndex(loc) + k, below, leaf)
  OBVIOUS
<1>4. t = IF n > 0 THEN Loop(turn, s, n) ELSE s BY DEF Turns
<1> HIDE DEF turn, t, n
<1>5. n > 0 => t \in WalkState
  <2> SUFFICES ASSUME n > 0 PROVE t \in WalkState OBVIOUS
  <2> DEFINE I == Nat \X WalkState
  <2>1. n \in Nat /\ <<0, s>> \in I BY <1>1
  <2>2. \A k \in 0 .. n - 1, x \in WalkState : <<k, x>> \in I => <<k + 1, turn[<<k, x>>]>> \in I
    BY <1>2
  <2> HIDE DEF I
  <2>3. Loop(turn, s, n) \in WalkState BY <1>2, <2>1, <2>2, LoopInduction
  <2> QED BY <1>4, <2>3
<1>6. ASSUME n > 0, NEW I, <<0, s>> \in I,
             \A k \in 0 .. n - 1, x \in WalkState : <<k, x>> \in I =>
               <<k + 1, Turn(visit, x, loc, StartIndex(loc) + k, below, leaf)>> \in I
      PROVE  <<n, t>> \in I
  <2>1. n \in Nat BY <1>1, <1>6
  <2>2. \A k \in 0 .. n - 1, x \in WalkState : <<k, x>> \in I => <<k + 1, turn[<<k, x>>]>> \in I
    BY <1>3, <1>6
  <2>3. <<n, Loop(turn, s, n)>> \in I
    <3>1. <<0, s>> \in I BY <1>6
    <3> QED BY <1>2, <2>1, <2>2, <3>1, LoopInduction
  <2> QED BY <1>4, <1>6, <2>3
<1>7. n <= 0 => t = s BY <1>1, <1>4
<1>8. t \in WalkState BY <1>1, <1>5, <1>7
<1> QED BY <1>6, <1>7, <1>8 DEF n, t

(* All its turns give a state. *)
LEMMA TurnsType ==
  ASSUME NEW visit \in Visits, NEW s \in WalkState, NEW below \in Walks, NEW leaf,
         LeafValues(visit, leaf), NEW loc \in Location
  PROVE  Turns(visit, s, loc, below, leaf) \in WalkState
<1> DEFINE n == EndIndex(loc) - StartIndex(loc)
           t == Turns(visit, s, loc, below, leaf)
<1> HIDE DEF n, t
<1>1. t \in WalkState BY TurnsInduction DEF n, t
<1> QED BY <1>1 DEF t

(* The walk at a level is the loop with the walk one level down. *)
LEMMA ApplyNodesIs ==
  ASSUME NEW visit \in Visits, NEW leaf, LeafValues(visit, leaf)
  PROVE  LET nodes == ApplyNodes(visit, leaf) IN
         /\ \A n \in 0 .. LEVELS : nodes[n] \in Walks
         /\ \A n \in 1 .. LEVELS, s \in WalkState, loc \in Location :
              nodes[n][<<s, loc>>] = Turns(visit, s, loc, nodes[n - 1], leaf)
<1> DEFINE C == WalkState \X Location
           Level(n, below) ==
             [x \in C |-> IF n = 0 THEN x[1] ELSE Turns(visit, x[1], x[2], below, leaf)]
           Eq(c) == c = [n \in 0 .. LEVELS |-> Level(n, c[n - 1])]
           first == [x \in C |-> x[1]]
           step == [p \in Nat \X Walks |-> Level(p[1] + 1, p[2])]
           nodes == ApplyNodes(visit, leaf)
<1>1. LEVELS \in Nat BY Constants
<1>2. first \in Walks BY DEF Walks
<1>3. ASSUME NEW n \in Nat, NEW below \in Walks PROVE Level(n + 1, below) \in Walks
  <2>1. n + 1 # 0 OBVIOUS
  <2>2. ASSUME NEW x \in C PROVE Turns(visit, x[1], x[2], below, leaf) \in WalkState
    <3>1. x[1] \in WalkState /\ x[2] \in Location OBVIOUS
    <3> QED BY <3>1, TurnsType
  <2> QED BY <2>1, <2>2 DEF Walks
<1>4. step \in [Nat \X Walks -> Walks]
  <2> HIDE DEF Level
  <2> QED BY <1>3
<1>5. \A below : Level(0, below) = first OBVIOUS
<1>6. \E c : Eq(c)
  <2> HIDE DEF Level, first, step
  <2>1. PICK g \in [0 .. LEVELS -> Walks] : Follows(g, LEVELS, first, step)
    BY <1>1, <1>2, <1>4, Recursion
  <2>2. ASSUME NEW n \in 0 .. LEVELS PROVE g[n] = Level(n, g[n - 1])
    <3>1. CASE n = 0 BY <1>5, <2>1, <3>1 DEF Follows
    <3>2. CASE n # 0
      <4>1. n - 1 \in 0 .. LEVELS - 1 /\ n - 1 \in Nat /\ (n - 1) + 1 = n /\ n - 1 \in 0 .. LEVELS
        BY <1>1, <3>2
      <4>2. g[(n - 1) + 1] = step[<<n - 1, g[n - 1]>>] BY <2>1, <4>1 DEF Follows
      <4>3. g[n - 1] \in Walks BY <2>1, <4>1
      <4>4. step[<<n - 1, g[n - 1]>>] = Level((n - 1) + 1, g[n - 1]) BY <4>1, <4>3 DEF step
      <4> QED BY <4>1, <4>2, <4>4
    <3> QED BY <3>1, <3>2
  <2>3. Eq(g) BY <2>1, <2>2
  <2> QED BY <2>3
<1>7. nodes = CHOOSE c : Eq(c) BY DEF ApplyNodes
<1> HIDE DEF nodes
<1>8. Eq(nodes)
  <2> HIDE DEF Eq
  <2> QED BY <1>6, <1>7
<1>9. \A n \in 0 .. LEVELS : nodes[n] = Level(n, nodes[n - 1])
  <2> HIDE DEF Level
  <2> QED BY <1>8
<1>10. \A n \in 0 .. LEVELS : nodes[n] \in Walks
  <2> DEFINE S == {n \in Nat : n <= LEVELS => nodes[n] \in Walks}
  <2> HIDE DEF Level, first
  <2>1. 0 \in S BY <1>1, <1>2, <1>5, <1>9
  <2>2. ASSUME NEW n \in S \cap Nat PROVE n + 1 \in S
    <3> SUFFICES ASSUME n + 1 <= LEVELS PROVE nodes[n + 1] \in Walks OBVIOUS
    <3>1. nodes[n] \in Walks /\ n + 1 \in 0 .. LEVELS /\ (n + 1) - 1 = n BY <1>1
    <3>2. nodes[n + 1] = Level(n + 1, nodes[n]) BY <1>9, <3>1
    <3> QED BY <1>3, <3>1, <3>2
  <2> HIDE DEF S
  <2>3. \A n \in Nat : n \in S BY <2>1, <2>2, Induction
  <2> QED BY <2>3 DEF S
<1>11. ASSUME NEW n \in 1 .. LEVELS, NEW s \in WalkState, NEW loc \in Location
       PROVE  nodes[n][<<s, loc>>] = Turns(visit, s, loc, nodes[n - 1], leaf)
  <2>1. n \in 0 .. LEVELS /\ n # 0 BY <1>1
  <2>2. nodes[n] = Level(n, nodes[n - 1]) BY <1>9, <2>1
  <2> QED BY <2>1, <2>2
<1> QED BY <1>10, <1>11 DEF nodes

------------------------------------------------------------------------------
(* Places and addresses *)

(* Addresses under a table at a depth, or under a place there; the bases   *)
(* of the two halves; the place of an address at a depth.                  *)
Region(depth) == Power[LEVELS - depth]
Halves == {0, VIRTUAL - Power[LEVELS]}
PlaceOf(base, depth, v) == (v - base) \div Region(depth)

(* The addresses [start, end) lie under a place. *)
Covers(base, depth, place, start, end) ==
  /\ base \in Halves /\ depth \in 0 .. LEVELS /\ place \in Nat
  /\ start \in Nat /\ end \in Nat
  /\ base + place * Region(depth) <= start /\ start < end
  /\ end <= base + place * Region(depth) + Region(depth)
  /\ end <= VIRTUAL - Span(0)

(* A region is ENTRIES regions of the next depth. *)
LEMMA RegionIs ==
  /\ \A depth \in 0 .. LEVELS : Region(depth) \in Nat \ {0}
  /\ \A depth \in 0 .. DEPTH_BOTTOM : /\ Region(depth) = ENTRIES * Region(depth + 1)
                                      /\ Region(depth + 1) = Span(depth)
  /\ Region(LEVELS) = 1 /\ Region(0) = Power[LEVELS]
<1>1. LEVELS \in Nat /\ DEPTH_BOTTOM = LEVELS - 1 BY Constants
<1>2. \A depth \in 0 .. LEVELS : LEVELS - depth \in 0 .. LEVELS BY <1>1
<1>3. ASSUME NEW depth \in 0 .. DEPTH_BOTTOM
      PROVE  Region(depth) = ENTRIES * Region(depth + 1) /\ Region(depth + 1) = Span(depth)
  <2>1. LEVELS - (depth + 1) = DEPTH_BOTTOM - depth BY <1>1
  <2> QED BY <2>1, SpanIs DEF Region, Span
<1>4. LEVELS - LEVELS = 0 /\ LEVELS - 0 = LEVELS BY <1>1
<1> QED BY <1>2, <1>3, <1>4, PowerIs DEF Region

(* Whole regions make up a larger one, and the address space. *)
LEMMA RegionsDivide ==
  /\ \A depth \in 0 .. LEVELS : Region(0) % Region(depth) = 0
  /\ \A depth \in 0 .. DEPTH_BOTTOM : Span(depth) <= Span(0)
<1> DEFINE S == {n \in Nat : n <= LEVELS => /\ \E q \in Nat : Region(0) = Region(n) * q
                                            /\ n > 0 => Region(n) <= Region(1)}
<1>1. LEVELS \in Nat /\ DEPTH_BOTTOM = LEVELS - 1 /\ DEPTH_BOTTOM >= 1 BY Constants
<1>2. 0 \in S
  <2>1. Region(0) \in Nat BY <1>1, RegionIs
  <2>2. Region(0) = Region(0) * 1 BY <2>1
  <2> QED BY <2>2
<1>3. ASSUME NEW n \in S \cap Nat PROVE n + 1 \in S
  <2> SUFFICES ASSUME n + 1 <= LEVELS
               PROVE  /\ \E q \in Nat : Region(0) = Region(n + 1) * q
                      /\ Region(n + 1) <= Region(1)
    OBVIOUS
  <2>1. n \in 0 .. DEPTH_BOTTOM /\ n \in 0 .. LEVELS /\ n + 1 \in 0 .. LEVELS BY <1>1
  <2>2. /\ Region(n) = ENTRIES * Region(n + 1) /\ Region(n) \in Nat \ {0}
        /\ Region(n + 1) \in Nat \ {0}
    BY <2>1, RegionIs
  <2>3. PICK q \in Nat : Region(0) = Region(n) * q BY <2>1
  <2>4. ENTRIES \in Nat \ {0} BY Constants
  <2>5. Region(0) = Region(n + 1) * (ENTRIES * q)
    <3>1. \A a, b, c \in Nat : (a * b) * c = b * (a * c) OBVIOUS
    <3> QED BY <2>2, <2>3, <2>4, <3>1
  <2>6. ENTRIES * q \in Nat BY <2>4
  <2>7. Region(n + 1) <= Region(n)
    <3>1. \A a, b \in Nat \ {0} : b <= a * b OBVIOUS
    <3> QED BY <2>2, <2>4, <3>1
  <2>8. Region(n + 1) <= Region(1)
    <3>1. CASE n = 0 
      <4>1. n + 1 = 1 BY <3>1
      <4> QED BY <2>2, <4>1
    <3>2. CASE n # 0
      <4>1. Region(n) <= Region(1) BY <2>1, <3>2
      <4>2. Region(1) \in Nat BY <1>1, RegionIs
      <4> QED BY <2>2, <2>7, <4>1, <4>2
    <3> QED BY <3>1, <3>2
  <2> QED BY <2>5, <2>6, <2>8
<1> HIDE DEF S
<1>4. \A n \in Nat : n \in S BY <1>2, <1>3, Induction
<1>5. ASSUME NEW n \in 0 .. LEVELS PROVE Region(0) % Region(n) = 0
  <2>1. n \in S /\ Region(n) \in Nat \ {0} /\ Region(0) \in Nat BY <1>1, <1>4, RegionIs
  <2>2. PICK q \in Nat : Region(0) = Region(n) * q BY <2>1 DEF S
  <2> QED BY <2>1, <2>2, MultipleIs
<1>6. ASSUME NEW n \in 0 .. DEPTH_BOTTOM PROVE Span(n) <= Span(0)
  <2>1. n + 1 \in S /\ n + 1 <= LEVELS /\ n + 1 > 0 BY <1>1, <1>4
  <2>2. Region(n + 1) <= Region(1) BY <2>1 DEF S
  <2>3. Region(n + 1) = Span(n) BY RegionIs
  <2>4. 0 \in 0 .. DEPTH_BOTTOM /\ 0 + 1 = 1 BY <1>1
  <2>5. Region(1) = Span(0) BY <2>4, RegionIs
  <2> QED BY <2>2, <2>3, <2>5
<1> QED BY <1>5, <1>6

(* The halves begin at a region of every depth. *)
LEMMA HalvesAligned ==
  ASSUME NEW base \in Halves, NEW depth \in 0 .. LEVELS
  PROVE  base \in Nat /\ base % Region(depth) = 0
<1> DEFINE R == Region(depth)
           P == Region(0)
<1>1. R \in Nat \ {0} /\ P \in Nat \ {0} /\ P % R = 0 /\ P = Power[LEVELS]
  BY RegionIs, RegionsDivide, Constants
<1>2. VIRTUAL \in Nat /\ VIRTUAL % P = 0 /\ VIRTUAL > P BY <1>1, LayoutAssumption
<1> HIDE DEF R, P
<1>3. PICK q \in Nat : VIRTUAL = P * q BY <1>1, <1>2, MultipleIs
<1>4. PICK r \in Nat : P = R * r BY <1>1, MultipleIs
<1>5. q # 0 BY <1>1, <1>2, <1>3
<1>6. q - 1 \in Nat BY <1>5
<1>7. VIRTUAL - P = R * (r * (q - 1))
  <2>1. P * q - P = P * (q - 1)
    <3>1. \A a, b \in Int : a * b - a = a * (b - 1) OBVIOUS
    <3>2. P \in Int /\ q \in Int BY <1>1
    <3> QED BY <3>1, <3>2, Zenon
  <2>2. \A a, b, c \in Nat : (a * b) * c = a * (b * c) OBVIOUS
  <2>3. (R * r) * (q - 1) = R * (r * (q - 1)) BY <1>1, <1>6, <2>2
  <2> QED BY <1>3, <1>4, <2>1, <2>3
<1>8. r * (q - 1) \in Nat BY <1>6
<1>9. VIRTUAL - P \in Nat BY <1>1, <1>2
<1>10. (VIRTUAL - P) % R = 0 BY <1>1, <1>7, <1>8, <1>9, MultipleIs
<1>11. 0 % R = 0
  <2>1. 0 = R * 0 BY <1>1
  <2> QED BY <1>1, <2>1, MultipleIs
<1> QED BY <1>1, <1>9, <1>10, <1>11 DEF Halves, R

(* Of e units of k, those from x to y: which ones, and that they cover the *)
(* numbers between.                                                        *)
LEMMA Units ==
  ASSUME NEW k \in Nat \ {0}, NEW e \in Nat \ {0}, NEW x \in Nat, NEW y \in Nat,
         x < y, y <= e * k
  PROVE  LET u == x \div k  w == (y + k - 1) \div k IN
         /\ u \in Nat /\ w \in Nat /\ u < w /\ w <= e
         /\ w * k \in Nat /\ y <= w * k /\ w * k < y + k
         /\ \A i \in u .. w - 1 :
              /\ i \in 0 .. e - 1 /\ i * k \in Nat /\ (i + 1) * k = i * k + k
              /\ i * k < y /\ x < i * k + k
         /\ \A z \in x .. y - 1 :
              /\ z \div k \in u .. w - 1
              /\ (z \div k) * k <= z /\ z < (z \div k) * k + k
<1> DEFINE u == x \div k
           w == (y + k - 1) \div k
<1>1. u \in Nat /\ k * u \in Nat /\ k * u = u * k /\ k * u <= x /\ x < k * u + k BY DivBounds
<1>2. /\ w \in Nat /\ k * w \in Nat /\ k * w = w * k
      /\ k * w <= y + k - 1 /\ y + k - 1 < k * w + k
  <2>1. y + k - 1 \in Nat OBVIOUS
  <2> QED BY <2>1, DivBounds
<1> HIDE DEF u, w
<1>3. y <= k * w /\ k * w < y + k BY <1>2
<1>4. u < w
  <2> SUFFICES ASSUME w <= u PROVE FALSE BY <1>1, <1>2
  <2>1. k * w <= k * u BY <1>1, <1>2, TimesMonotonic
  <2> QED BY <1>1, <1>2, <1>3, <2>1
<1>5. w <= e
  <2> SUFFICES ASSUME e < w PROVE FALSE BY <1>2
  <2>1. k * e + k <= k * w BY <1>2, UnitsApart
  <2>2. k * e = e * k /\ k * e \in Nat OBVIOUS
  <2> QED BY <1>2, <1>3, <2>1, <2>2
<1>6. ASSUME NEW i \in u .. w - 1
      PROVE  /\ i \in 0 .. e - 1 /\ i * k \in Nat /\ (i + 1) * k = i * k + k
             /\ i * k < y /\ x < i * k + k
  <2>1. i \in Nat /\ i \in 0 .. e - 1 BY <1>1, <1>2, <1>5
  <2>2. i * k \in Nat /\ i * k = k * i /\ (i + 1) * k = i * k + k BY <2>1, TimesNat
  <2>3. k * i + k <= k * w
    <3>1. i < w BY <1>2, <2>1
    <3> QED BY <1>2, <2>1, <3>1, UnitsApart
  <2>4. k * u <= k * i BY <1>1, <2>1, TimesMonotonic
  <2> QED BY <1>1, <1>2, <1>3, <2>1, <2>2, <2>3, <2>4
<1>7. ASSUME NEW z \in x .. y - 1
      PROVE  /\ z \div k \in u .. w - 1
             /\ (z \div k) * k <= z /\ z < (z \div k) * k + k
  <2> DEFINE j == z \div k
  <2>1. j \in Nat /\ k * j \in Nat /\ k * j = j * k /\ k * j <= z /\ z < k * j + k BY DivBounds
  <2> HIDE DEF j
  <2>2. ~(j < u)
    <3> SUFFICES ASSUME j < u PROVE FALSE OBVIOUS
    <3>1. k * j + k <= k * u BY <1>1, <2>1, UnitsApart
    <3> QED BY <1>1, <2>1, <3>1
  <2>3. ~(w <= j)
    <3> SUFFICES ASSUME w <= j PROVE FALSE OBVIOUS
    <3>1. k * w <= k * j BY <1>2, <2>1, TimesMonotonic
    <3> QED BY <1>2, <1>3, <2>1, <3>1
  <2> QED BY <1>1, <1>2, <2>1, <2>2, <2>3 DEF j
<1> QED BY <1>1, <1>2, <1>3, <1>4, <1>5, <1>6, <1>7 DEF u, w


(* Rounding down after a multiple: the units of the rest. *)
LEMMA RoundFrom ==
  ASSUME NEW k \in Nat \ {0}, NEW m \in Nat, m % k = 0, NEW z \in Nat
  PROVE  /\ k * (z \div k) \in Nat
         /\ (m + z) - ((m + z) % k) = m + k * (z \div k)
         /\ (k * (z \div k)) \div k = z \div k
         /\ (m + z) % k = z % k
<1>1. PICK q \in Nat : m = k * q BY MultipleIs
<1>2. PICK a \in Nat, r \in 0 .. k - 1 : a = z \div k /\ r = z % k /\ z = k * a + r
  BY DivMod
<1>3. k * q \in Nat /\ k * a \in Nat /\ q + a \in Nat /\ r \in Nat BY TimesNat
<1>4. k * (q + a) = k * q + k * a
  <2>1. \A x, y, t \in Nat : x * (y + t) = x * y + x * t OBVIOUS
  <2> QED BY <1>1, <1>2, <2>1
<1>5. (k * (q + a) + r) % k = r BY <1>3, DivModUnique
<1>6. m + z = k * (q + a) + r BY <1>1, <1>2, <1>3, <1>4
<1>7. (k * a + 0) \div k = a
  <2>1. 0 \in 0 .. k - 1 OBVIOUS
  <2> QED BY <2>1, DivModUnique
<1>8. k * a + 0 = k * a BY <1>3
<1>9. (m + z) % k = r BY <1>5, <1>6
<1>10. (m + z) - r = m + k * a BY <1>1, <1>2, <1>3
<1> QED BY <1>2, <1>3, <1>7, <1>8, <1>9, <1>10

(* All addresses under a place have that place. *)
LEMMA CoversPlace ==
  ASSUME NEW base, NEW depth, NEW place, NEW start, NEW end,
         Covers(base, depth, place, start, end), NEW v \in start .. end - 1
  PROVE  v \in Nat /\ base \in Nat /\ base <= v /\ PlaceOf(base, depth, v) = place
<1> DEFINE R == Region(depth)
<1>1. R \in Nat \ {0} /\ place \in Nat /\ base \in Nat BY RegionIs, HalvesAligned DEF Covers
<1>2. base + place * R <= start /\ end <= base + place * R + R /\ start \in Nat /\ end \in Nat
  BY DEF Covers
<1> HIDE DEF R
<1>3. R * place \in Nat /\ R * place = place * R BY <1>1, TimesNat
<1>4. v \in Nat /\ base <= v BY <1>1, <1>2, <1>3
<1> DEFINE r == v - base - R * place
<1>5. r \in 0 .. R - 1 /\ v - base = R * place + r BY <1>1, <1>2, <1>3, <1>4
<1> HIDE DEF r
<1>6. (v - base) \div R = place BY <1>1, <1>5, DivModUnique
<1> QED BY <1>1, <1>4, <1>6 DEF PlaceOf, R

(* The indices that apply_nodes works out for a table, when [start, end)   *)
(* lies under it and below the last entry of the top-level table: those of *)
(* the blocks with an address of the range.                                *)
LEMMA Indices ==
  ASSUME NEW loc \in Location, NEW base, NEW place,
         Covers(base, loc.depth, place, loc.start, loc.end)
  PROVE  LET k == Span(loc.depth)
             B == base + place * Region(loc.depth)
         IN  /\ k \in Nat \ {0} /\ B \in Nat /\ B <= loc.start /\ B % k = 0
             /\ loc.end \in Nat /\ loc.end <= B + ENTRIES * k
             /\ loc.end + k <= VIRTUAL
             /\ Base(loc) = B
             /\ StartIndex(loc) = (loc.start - B) \div k
             /\ EndIndex(loc) = ((loc.end - B) + k - 1) \div k
<1> DEFINE k == Span(loc.depth)
           R == Region(loc.depth)
           B == base + place * R
           x == loc.start - B
           y == loc.end - B
           z == y + k - 1
<1>1. loc.depth \in 0 .. DEPTH_BOTTOM /\ loc.depth \in 0 .. LEVELS BY Constants DEF Location
<1>2. k \in Nat \ {0} /\ R \in Nat \ {0} /\ R = ENTRIES * k /\ k <= Span(0) /\ Span(0) \in Nat
  <2>1. 0 \in 0 .. DEPTH_BOTTOM BY Constants
  <2>2. Span(0) \in Nat BY <2>1, SpanIs
  <2>3. k \in Nat \ {0} /\ k <= Span(0) BY <1>1, SpanIs, RegionsDivide
  <2>4. R \in Nat \ {0} BY <1>1, RegionIs
  <2>5. R = ENTRIES * k BY <1>1, RegionIs
  <2> QED BY <2>2, <2>3, <2>4, <2>5
<1>3. /\ base \in Halves /\ place \in Nat /\ B <= loc.start /\ loc.start < loc.end
      /\ loc.end <= B + R /\ loc.end <= VIRTUAL - Span(0)
      /\ loc.start \in Nat /\ loc.end \in Nat
  BY DEF Covers
<1>4. base \in Nat /\ base % R = 0 BY <1>1, <1>3, HalvesAligned
<1>5. VIRTUAL \in Nat /\ ENTRIES \in Nat \ {0} BY Constants
<1>6. Base(loc) = loc.start - (loc.start % R) BY <1>2 DEF Base, RoundDown
<1>7. StartIndex(loc) = ((loc.start - (loc.start % k)) - Base(loc)) \div k
  BY DEF StartIndex, RoundDown
<1>8. EndIndex(loc) = Wrap(RoundUp(loc.end, k) - Base(loc)) \div k BY DEF EndIndex
<1> HIDE DEF k, R
<1>9. B \in Nat /\ B % R = 0
  <2>1. place * R = R * place /\ place * R \in Nat BY <1>2, <1>3
  <2>2. (place * R) % R = 0 BY <1>2, <1>3, <2>1, MultipleIs
  <2> QED BY <1>2, <1>4, <2>1, <2>2, MultiplesAdd
<1> HIDE DEF B
<1>10. B % k = 0
  <2>1. PICK q \in Nat : B = R * q BY <1>2, <1>9, MultipleIs
  <2>2. \A a, b, c \in Nat : (a * b) * c = b * (a * c) OBVIOUS
  <2>3. B = k * (ENTRIES * q) /\ ENTRIES * q \in Nat
    <3>1. (ENTRIES * k) * q = k * (ENTRIES * q) BY <1>2, <1>5, <2>2
    <3> QED BY <1>2, <1>5, <2>1, <3>1
  <2> QED BY <1>2, <1>9, <2>3, MultipleIs
<1>11. x \in Nat /\ y \in Nat /\ z \in Nat /\ x < R /\ y <= R
       /\ loc.start = B + x /\ loc.end + k - 1 = B + z /\ loc.end = B + y
  BY <1>2, <1>3, <1>9
<1> HIDE DEF x, y, z
<1>12. Base(loc) = B
  <2>1. x \div R = 0
    <3>1. R * 0 + x = x /\ x \in 0 .. R - 1 BY <1>2, <1>11
    <3> QED BY <1>2, <3>1, DivModUnique
  <2>2. (B + x) - ((B + x) % R) = B + R * (x \div R)
    <3>1. R \in Nat \ {0} /\ B \in Nat /\ B % R = 0 /\ x \in Nat BY <1>2, <1>9, <1>11
    <3> QED BY <3>1, RoundFrom
  <2>3. R * 0 = 0 BY <1>2
  <2> QED BY <1>6, <1>9, <1>11, <2>1, <2>2, <2>3
<1>13. StartIndex(loc) = x \div k
  <2>1. /\ (B + x) - ((B + x) % k) = B + k * (x \div k) /\ k * (x \div k) \in Nat
        /\ (k * (x \div k)) \div k = x \div k
    <3>1. k \in Nat \ {0} /\ B \in Nat /\ B % k = 0 /\ x \in Nat BY <1>2, <1>9, <1>10, <1>11
    <3> QED BY <3>1, RoundFrom
  <2>2. (B + k * (x \div k)) - B = k * (x \div k) BY <1>9, <2>1
  <2> QED BY <1>7, <1>11, <1>12, <2>1, <2>2
<1>14. EndIndex(loc) = z \div k
  <2>1. /\ (B + z) - ((B + z) % k) = B + k * (z \div k) /\ k * (z \div k) \in Nat
        /\ (k * (z \div k)) \div k = z \div k
    <3>1. k \in Nat \ {0} /\ B \in Nat /\ B % k = 0 /\ z \in Nat BY <1>2, <1>9, <1>10, <1>11
    <3> QED BY <3>1, RoundFrom
  <2>2. (B + k * (z \div k)) - B = k * (z \div k) BY <1>9, <2>1
  <2>3. B + z \in 0 .. VIRTUAL - 1 BY <1>2, <1>3, <1>5, <1>9, <1>11
  <2>4. Wrap(loc.end + k - 1) = B + z BY <1>11, <2>3, WrapType
  <2>5. RoundUp(loc.end, k) = B + k * (z \div k) BY <2>1, <2>4 DEF RoundUp, RoundDown
  <2>6. k * (z \div k) <= z BY <1>2, <1>11, DivBounds
  <2>7. k * (z \div k) \in 0 .. VIRTUAL - 1
    <3>1. \A q \in Nat : q <= z => q \in 0 .. VIRTUAL - 1 BY <1>5, <1>9, <1>11, <2>3
    <3> QED BY <2>1, <2>6, <3>1
  <2>8. Wrap(k * (z \div k)) = k * (z \div k) BY <2>7, WrapType
  <2> QED BY <1>8, <1>12, <2>1, <2>2, <2>5, <2>8
<1>15. z = (loc.end - B) + k - 1 /\ x = loc.start - B BY DEF z, y, x
<1>16. loc.end + k <= VIRTUAL /\ loc.end <= B + ENTRIES * k BY <1>2, <1>3, <1>5, <1>9, <1>11
<1> QED BY <1>2, <1>3, <1>9, <1>10, <1>12, <1>13, <1>14, <1>15, <1>16 DEF B, k, R

(* The loop cuts [start, end) into the ranges of the tables below, one     *)
(* after the other, each under a place of its own.                         *)
Cuts(loc, base, place, cut) ==
  LET n == EndIndex(loc) - StartIndex(loc) IN
  /\ StartIndex(loc) \in Nat /\ n \in Nat \ {0}
  /\ cut \in [0 .. n -> Nat] /\ cut[0] = loc.start /\ cut[n] = loc.end
  /\ \A j \in 0 .. n - 1 :
       /\ StartIndex(loc) + j \in Index
       /\ Covers(base, loc.depth + 1, place * ENTRIES + (StartIndex(loc) + j), cut[j], cut[j + 1])
       /\ loc.start <= cut[j] /\ cut[j + 1] <= loc.end
       /\ \A entry : Child(loc, StartIndex(loc) + j, entry) =
            [page |-> entry.page, depth |-> loc.depth + 1, start |-> cut[j], end |-> cut[j + 1]]

(* A range under one table is cut at the entries of the table. *)
LEMMA CutsExist ==
  ASSUME NEW loc \in Location, NEW base, NEW place,
         Covers(base, loc.depth, place, loc.start, loc.end)
  PROVE  \E cut : Cuts(loc, base, place, cut)
<1> DEFINE k == Span(loc.depth)
           R == Region(loc.depth)
           B == base + place * R
           x == loc.start - B
           y == loc.end - B
           u == StartIndex(loc)
           w == EndIndex(loc)
           n == w - u
           cut == [j \in 0 .. n |-> IF j = 0 THEN loc.start
                                    ELSE IF loc.end <= B + (u + j) * k THEN loc.end
                                         ELSE B + (u + j) * k]
<1>1. /\ k \in Nat \ {0} /\ B \in Nat /\ B <= loc.start /\ loc.end \in Nat
      /\ loc.end <= B + ENTRIES * k /\ loc.end + k <= VIRTUAL
      /\ Base(loc) = B /\ u = x \div k /\ w = (y + k - 1) \div k
  BY Indices
<1>2. loc.depth \in 0 .. DEPTH_BOTTOM /\ loc.depth \in 0 .. LEVELS /\ loc.start \in Nat
  BY Constants DEF Location
<1>3. R = ENTRIES * k /\ Region(loc.depth + 1) = k /\ loc.depth + 1 \in 0 .. LEVELS
  <2>1. loc.depth + 1 \in 0 .. LEVELS BY <1>2, Constants
  <2>2. R = ENTRIES * Region(loc.depth + 1) /\ Region(loc.depth + 1) = k BY <1>2, RegionIs
  <2> QED BY <2>1, <2>2
<1>4. /\ base \in Halves /\ place \in Nat /\ loc.start < loc.end
      /\ loc.end <= VIRTUAL - Span(0)
  BY DEF Covers
<1>5. base \in Nat /\ ENTRIES \in Nat \ {0} /\ VIRTUAL \in Nat /\ Index = 0 .. ENTRIES - 1
  BY <1>2, <1>4, HalvesAligned, Constants
<1>6. \A i, entry : Child(loc, i, entry) =
        [page |-> entry.page, depth |-> loc.depth + 1,
         start |-> Max({loc.start, Wrap(B + i * k)}),
         end |-> Min({loc.end, Wrap(B + (i + 1) * k)})]
  BY <1>1 DEF Child
<1>7. \A i \in Nat : B + i * k = base + (place * ENTRIES + i) * k
  <2>1. \A a, b, c, d \in Nat : (a * b + d) * c = a * (b * c) + d * c OBVIOUS
  <2>2. \A i \in Nat : (place * ENTRIES + i) * k = place * (ENTRIES * k) + i * k
    BY <1>1, <1>4, <1>5, <2>1
  <2>3. \A i \in Nat : place * (ENTRIES * k) \in Nat /\ i * k \in Nat
    <3>1. ENTRIES * k \in Nat BY <1>1, <1>5
    <3> QED BY <1>1, <1>4, <3>1, TimesNat
  <2>4. B = base + place * (ENTRIES * k) BY <1>3
  <2> HIDE DEF B, k
  <2> QED BY <1>5, <2>2, <2>3, <2>4
<1> HIDE DEF k, R, B
<1>8. x \in Nat /\ y \in Nat /\ x < y /\ y <= ENTRIES * k /\ loc.start = B + x /\ loc.end = B + y
  <2>1. ENTRIES * k \in Nat BY <1>1, <1>5
  <2> QED BY <1>1, <1>2, <1>4, <2>1
<1> HIDE DEF x, y, u, w
<1>9. /\ u \in Nat /\ w \in Nat /\ u < w /\ w <= ENTRIES
      /\ w * k \in Nat /\ y <= w * k
      /\ \A i \in u .. w - 1 :
           /\ i \in 0 .. ENTRIES - 1 /\ i * k \in Nat /\ (i + 1) * k = i * k + k
           /\ i * k < y /\ x < i * k + k
  BY <1>1, <1>5, <1>8, Units
<1>10. n \in Nat \ {0} BY <1>9
<1>11. \A j \in 0 .. n : (u + j) * k \in Nat
  <2>1. \A j \in 0 .. n : u + j \in Nat BY <1>9, <1>10
  <2> QED BY <1>1, <2>1, TimesNat
<1>12. cut \in [0 .. n -> Nat] /\ cut[0] = loc.start
  <2> HIDE DEF n
  <2> QED BY <1>1, <1>2, <1>10, <1>11
<1>13. cut[n] = loc.end
  <2>1. n \in 0 .. n /\ n # 0 /\ u + n = w BY <1>9, <1>10
  <2>2. loc.end <= B + w * k BY <1>1, <1>8, <1>9
  <2> HIDE DEF n
  <2> QED BY <2>1, <2>2
<1>14. ASSUME NEW j \in 0 .. n - 1
       PROVE  /\ u + j \in Index
              /\ Covers(base, loc.depth + 1, place * ENTRIES + (u + j), cut[j], cut[j + 1])
              /\ loc.start <= cut[j] /\ cut[j + 1] <= loc.end
              /\ \A entry : Child(loc, u + j, entry) =
                   [page |-> entry.page, depth |-> loc.depth + 1,
                    start |-> cut[j], end |-> cut[j + 1]]
  <2> DEFINE i == u + j
             a == B + i * k
             b == B + (i + 1) * k
  <2>1. i \in u .. w - 1 /\ i \in Nat /\ j + 1 \in 0 .. n /\ j \in 0 .. n /\ j \in Nat
        /\ j + 1 # 0 /\ u + (j + 1) = i + 1
    BY <1>9, <1>10
  <2>2. /\ i \in 0 .. ENTRIES - 1 /\ i * k \in Nat /\ (i + 1) * k = i * k + k
        /\ i * k < y /\ x < i * k + k
    BY <1>9, <2>1
  <2>3. a \in Nat /\ b = a + k /\ a < loc.end /\ loc.start < b /\ b <= VIRTUAL - 1
    BY <1>1, <1>5, <1>8, <2>2
  <2>4. cut[j + 1] = IF loc.end <= b THEN loc.end ELSE b BY <2>1
  <2>5. cut[j] = IF loc.start >= a THEN loc.start ELSE a
    <3>1. CASE j = 0
      <4>1. i = u BY <1>9, <3>1
      <4>2. u * k <= x
        <5>1. x \div k = u /\ k * (x \div k) <= x /\ k * (x \div k) = (x \div k) * k
          BY <1>1, <1>8, DivBounds
        <5> QED BY <5>1
      <4>3. a <= loc.start BY <1>1, <1>8, <2>2, <4>1, <4>2
      <4> QED BY <1>12, <2>3, <3>1, <4>3, <1>2
    <3>2. CASE j # 0
      <4>1. u \in u .. w - 1 /\ u + 1 <= i /\ i # u BY <1>9, <2>1, <3>2
      <4>2. x < u * k + k /\ (u + 1) * k = u * k + k /\ u * k \in Nat BY <1>9, <4>1
      <4>3. (u + 1) * k <= i * k
        <5>1. k * (u + 1) <= k * i BY <1>1, <1>9, <2>1, <4>1, TimesMonotonic
        <5>2. \A r \in Nat : k * r = r * k BY <1>1
        <5>3. u + 1 \in Nat BY <1>9
        <5>4. k * (u + 1) = (u + 1) * k /\ k * i = i * k BY <2>1, <5>2, <5>3
        <5> QED BY <5>1, <5>4
      <4>4. loc.start < a BY <1>1, <1>8, <2>2, <4>2, <4>3
      <4>5. cut[j] = IF loc.end <= a THEN loc.end ELSE a BY <2>1, <3>2
      <4>6. ~(loc.start >= a) /\ ~(loc.end <= a)
        <5> HIDE DEF a
        <5> QED BY <1>1, <1>2, <2>3, <4>4
      <4> QED BY <4>5, <4>6
    <3> QED BY <3>1, <3>2
  <2>6. Wrap(a) = a /\ Wrap(b) = b
    <3>1. a \in 0 .. VIRTUAL - 1 /\ b \in 0 .. VIRTUAL - 1
      <4> HIDE DEF a, b
      <4> QED BY <1>1, <1>5, <2>3
    <3> QED BY <3>1, WrapType
  <2>7. Max({loc.start, Wrap(a)}) = cut[j] /\ Min({loc.end, Wrap(b)}) = cut[j + 1]
    <3> HIDE DEF a, b, cut
    <3>1. a \in Int /\ b \in Int /\ loc.start \in Int /\ loc.end \in Int BY <1>1, <1>2, <2>3
    <3>2. Max({loc.start, a}) = IF loc.start >= a THEN loc.start ELSE a BY <3>1, MaxMin
    <3>3. Min({loc.end, b}) = IF loc.end <= b THEN loc.end ELSE b BY <3>1, MaxMin
    <3> QED BY <2>4, <2>5, <2>6, <3>2, <3>3
  <2>8. a = base + (place * ENTRIES + i) * k /\ place * ENTRIES + i \in Nat
    <3>1. place * ENTRIES \in Nat BY <1>4, <1>5
    <3> QED BY <1>7, <2>1, <3>1
  <2>9. Covers(base, loc.depth + 1, place * ENTRIES + i, cut[j], cut[j + 1])
    <3> HIDE DEF a, b, cut, i
    <3>1. cut[j] \in Nat /\ cut[j + 1] \in Nat /\ cut[j] < cut[j + 1] /\ a <= cut[j]
          /\ cut[j + 1] <= a + k /\ cut[j + 1] <= VIRTUAL - Span(0)
      <4>1. Span(0) \in Nat BY SpanIs, Constants
      <4>2. k \in Nat \ {0} /\ loc.end \in Nat /\ loc.start \in Nat /\ VIRTUAL \in Nat
            /\ loc.start < loc.end /\ loc.end <= VIRTUAL - Span(0)
        BY <1>1, <1>2, <1>4, <1>5
      <4> QED BY <2>3, <2>4, <2>5, <4>1, <4>2
    <3> QED BY <1>3, <1>4, <2>8, <3>1 DEF Covers
  <2>10. loc.start <= cut[j] /\ cut[j + 1] <= loc.end
    <3> HIDE DEF a, b, cut
    <3> QED BY <1>1, <1>2, <2>3, <2>4, <2>5
  <2>11. \A entry : Child(loc, i, entry) =
                   [page |-> entry.page, depth |-> loc.depth + 1,
                    start |-> cut[j], end |-> cut[j + 1]]
    BY <1>6, <2>7
  <2> QED BY <1>5, <2>2, <2>9, <2>10, <2>11
<1> HIDE DEF n, cut
<1>15. Cuts(loc, base, place, cut) BY <1>9, <1>10, <1>12, <1>13, <1>14 DEF Cuts, n, u, w
<1> QED BY <1>15

(* A number is read in one way as an index and the digits before it. *)
LEMMA Digits ==
  ASSUME NEW p \in Nat, NEW i \in Index
  PROVE  /\ p * ENTRIES + i \in Nat
         /\ (p * ENTRIES + i) \div ENTRIES = p /\ (p * ENTRIES + i) % ENTRIES = i
<1>1. ENTRIES \in Nat \ {0} /\ i \in 0 .. ENTRIES - 1 BY Constants
<1>2. (ENTRIES * p + i) \div ENTRIES = p /\ (ENTRIES * p + i) % ENTRIES = i
  BY <1>1, DivModUnique
<1>3. ENTRIES * p = p * ENTRIES /\ ENTRIES * p \in Nat BY <1>1
<1> QED BY <1>1, <1>2, <1>3

(* A place determines the place above it and the index. *)
LEMMA DigitsUnique ==
  ASSUME NEW p \in Nat, NEW i \in Index, NEW q \in Nat, NEW j \in Index,
         p * ENTRIES + i = q * ENTRIES + j
  PROVE  p = q /\ i = j
<1>1. (p * ENTRIES + i) \div ENTRIES = p /\ (p * ENTRIES + i) % ENTRIES = i BY Digits
<1>2. (q * ENTRIES + j) \div ENTRIES = q /\ (q * ENTRIES + j) % ENTRIES = j BY Digits
<1> QED BY <1>1, <1>2

(* The place of an address at a depth follows from its place at any lower  *)
(* one.                                                                    *)
LEMMA PlaceAbove ==
  ASSUME NEW base \in Nat, NEW v \in Nat, base <= v, NEW depth \in 0 .. DEPTH_BOTTOM
  PROVE  /\ PlaceOf(base, depth + 1, v) \in Nat
         /\ PlaceOf(base, depth, v) = PlaceOf(base, depth + 1, v) \div ENTRIES
<1> DEFINE k == Region(depth + 1)
           x == v - base
<1>1. depth + 1 \in 0 .. LEVELS BY Constants
<1>2. k \in Nat \ {0} /\ Region(depth) = ENTRIES * k /\ ENTRIES \in Nat \ {0} /\ x \in Nat
  BY <1>1, RegionIs, Constants
<1> HIDE DEF k, x
<1> DEFINE m == Region(depth)
<1> HIDE DEF m
<1>3. x \div m = (x \div k) \div ENTRIES
  <2>1. k \in Nat \ {0} /\ ENTRIES \in Nat \ {0} /\ x \in Nat
        /\ m \in Nat \ {0} /\ m = ENTRIES * k
    BY <1>2, RegionIs DEF m
  <2> QED BY <2>1, DivNested
<1>4. x \div k \in Nat BY <1>2, DivMod
<1> QED BY <1>3, <1>4 DEF PlaceOf, k, x, m

(* Addresses with the same place have the same places above it. *)
LEMMA Ancestors ==
  ASSUME NEW base \in Nat, NEW v \in Nat, NEW w \in Nat, base <= v, base <= w,
         NEW low \in 0 .. LEVELS, NEW depth \in 0 .. low,
         PlaceOf(base, low, v) = PlaceOf(base, low, w)
  PROVE  PlaceOf(base, depth, v) = PlaceOf(base, depth, w)
<1> DEFINE S == {n \in Nat : n <= low => PlaceOf(base, low - n, v) = PlaceOf(base, low - n, w)}
<1>1. LEVELS \in Nat /\ DEPTH_BOTTOM = LEVELS - 1 BY Constants
<1>2. 0 \in S
  <2>1. low - 0 = low BY <1>1
  <2> QED BY <2>1
<1>3. ASSUME NEW n \in S \cap Nat PROVE n + 1 \in S
  <2> SUFFICES ASSUME n + 1 <= low
               PROVE PlaceOf(base, low - (n + 1), v) = PlaceOf(base, low - (n + 1), w)
    OBVIOUS
  <2> DEFINE d == low - (n + 1)
  <2>1. d \in 0 .. DEPTH_BOTTOM /\ d + 1 = low - n BY <1>1
  <2>2. PlaceOf(base, low - n, v) = PlaceOf(base, low - n, w) BY <1>1
  <2> HIDE DEF d
  <2>3. PlaceOf(base, d, v) = PlaceOf(base, d + 1, v) \div ENTRIES BY <2>1, PlaceAbove
  <2>4. PlaceOf(base, d, w) = PlaceOf(base, d + 1, w) \div ENTRIES BY <2>1, PlaceAbove
  <2>5. PlaceOf(base, d, v) = PlaceOf(base, d, w) BY <2>1, <2>2, <2>3, <2>4
  <2> QED BY <2>5 DEF d
<1> HIDE DEF S
<1>4. \A n \in Nat : n \in S BY <1>2, <1>3, Induction
<1>5. low - depth \in S /\ low - depth <= low /\ low - (low - depth) = depth BY <1>1, <1>4
<1> QED BY <1>5 DEF S

------------------------------------------------------------------------------
(* The tree of page tables *)

(* The node that entry i of table x leads to: a table, or memory.          *)
Under(m, x, i) ==
  [place |-> x.place * ENTRIES + i, depth |-> x.depth + 1,
   page |-> m[x.page][i].page, bits |-> m[x.page][i].bits]
Links(m, x, i) ==
  x.depth < DEPTH_BOTTOM /\ Present(m[x.page][i]) /\ "PS" \notin m[x.page][i].bits
Maps(m, x, i) ==
  Present(m[x.page][i]) /\ (x.depth = DEPTH_BOTTOM \/ "PS" \in m[x.page][i].bits)

(* N is the set of tables of a memory m: the root, what tables of N link   *)
(* to, and nothing else; one place for each table, and what its entries    *)
(* refer to exists.                                                        *)
TableNode == [place : Nat, depth : 0 .. DEPTH_BOTTOM, page : Memory, bits : SUBSET PageTableBits]
Tree(m, N) ==
  /\ N \subseteq TableNode /\ RootNode \in N
  /\ \A x \in N : x.depth = 0 => x = RootNode
  /\ \A x \in N, i \in Index : Links(m, x, i) => Under(m, x, i) \in N
  /\ \A y \in N : y.depth # 0 => \E x \in N, i \in Index : Links(m, x, i) /\ y = Under(m, x, i)
  /\ \A x, y \in N : x.page = y.page => x = y
  /\ \A x \in N, i \in Index : Present(m[x.page][i]) => m[x.page][i].page \in Memory

(* What it maps.                                                           *)
Leads(m, N) == {Under(m, q[1], q[2]) : q \in {p \in N \X Index : Maps(m, p[1], p[2])}}

Pages(N) == {x.page : x \in N}
Contents == [Memory -> [Index -> Entry]]

(* A tree has one table at a place. *)
LEMMA TreeUnique ==
  ASSUME NEW m \in Contents, NEW N, Tree(m, N)
  PROVE  /\ \A x, y \in N : x.depth = y.depth /\ x.place = y.place => x = y
         /\ \A x \in N : x.place < Power[x.depth]
<1> DEFINE One(n) ==
             \A x, y \in N : x.depth = n /\ y.depth = n /\ x.place = y.place => x = y
           Low(n) == \A x \in N : x.depth = n => x.place < Power[n]
           S == {n \in Nat : One(n) /\ Low(n)}
<1>1. N \subseteq TableNode BY DEF Tree
<1>2. LEVELS \in Nat /\ DEPTH_BOTTOM = LEVELS - 1 /\ ENTRIES \in Nat \ {0}
      /\ Index = 0 .. ENTRIES - 1
  BY Constants
<1>3. 0 \in S
  <2>1. \A x \in N : x.depth = 0 => x = RootNode BY DEF Tree
  <2>2. RootNode.place < Power[0] BY PowerIs DEF RootNode
  <2>3. One(0) BY <2>1
  <2>4. Low(0) BY <2>1, <2>2
  <2> HIDE DEF One, Low
  <2> QED BY <2>3, <2>4
<1>4. ASSUME NEW n \in S \cap Nat PROVE n + 1 \in S
  <2>1. ASSUME NEW x \in N, x.depth = n + 1
        PROVE  \E p \in N, i \in Index : p.depth = n /\ p.depth \in 0 .. DEPTH_BOTTOM - 1
                                         /\ Links(m, p, i) /\ x = Under(m, p, i)
                                         /\ x.place = p.place * ENTRIES + i
    <3>1. x.depth # 0 BY <2>1
    <3>2. PICK p \in N, i \in Index : Links(m, p, i) /\ x = Under(m, p, i) BY <3>1 DEF Tree
    <3>3. x.depth = p.depth + 1 /\ x.place = p.place * ENTRIES + i BY <3>2 DEF Under
    <3>4. p.depth \in 0 .. DEPTH_BOTTOM /\ p.depth < DEPTH_BOTTOM BY <1>1, <3>2 DEF TableNode, Links
    <3> QED BY <1>2, <2>1, <3>2, <3>3, <3>4
  <2>2. ASSUME NEW x \in N, NEW y \in N, x.depth = n + 1, y.depth = n + 1, x.place = y.place
        PROVE  x = y
    <3>1. PICK p \in N, i \in Index : /\ p.depth = n /\ x = Under(m, p, i)
                                      /\ x.place = p.place * ENTRIES + i
      BY <2>1, <2>2
    <3>2. PICK q \in N, j \in Index : /\ q.depth = n /\ y = Under(m, q, j)
                                      /\ y.place = q.place * ENTRIES + j
      BY <2>1, <2>2
    <3>3. p.place \in Nat /\ q.place \in Nat BY <1>1 DEF TableNode
    <3>4. p.place = q.place /\ i = j BY <2>2, <3>1, <3>2, <3>3, DigitsUnique
    <3>5. p = q BY <3>1, <3>2, <3>4
    <3> QED BY <3>1, <3>2, <3>4, <3>5
  <2>3. ASSUME NEW x \in N, x.depth = n + 1 PROVE x.place < Power[n + 1]
    <3>1. PICK p \in N, i \in Index : /\ p.depth = n /\ p.depth \in 0 .. DEPTH_BOTTOM - 1
                                      /\ x.place = p.place * ENTRIES + i
      BY <2>1, <2>3
    <3>2. p.place \in Nat BY <1>1 DEF TableNode
    <3>3. p.place < Power[n] BY <3>1
    <3>4. n \in 0 .. LEVELS - 1 /\ n \in 0 .. LEVELS BY <1>2, <3>1
    <3>5. Power[n + 1] = ENTRIES * Power[n] /\ Power[n] \in Nat BY <3>4, PowerIs
    <3>6. ENTRIES * p.place + ENTRIES <= ENTRIES * Power[n]
      <4>1. \A a, b \in Nat : a < b => ENTRIES * a + ENTRIES <= ENTRIES * b BY <1>2, UnitsApart
      <4> QED BY <3>2, <3>3, <3>5, <4>1
    <3>7. ENTRIES * p.place = p.place * ENTRIES /\ p.place * ENTRIES \in Nat BY <1>2, <3>2
    <3>8. ENTRIES * Power[n] \in Nat BY <1>2, <3>5
    <3> QED BY <1>2, <3>1, <3>5, <3>6, <3>7, <3>8
  <2>4. n + 1 \in Nat OBVIOUS
  <2>5. One(n + 1) BY <2>2
  <2>6. Low(n + 1) BY <2>3
  <2> HIDE DEF One, Low
  <2> QED BY <2>4, <2>5, <2>6
<1> HIDE DEF S
<1>5. \A n \in Nat : n \in S BY <1>3, <1>4, Induction
<1>6. \A x \in N : x.depth \in Nat /\ x.depth \in S BY <1>1, <1>2, <1>5 DEF TableNode
<1> QED BY <1>6 DEF S

(* The parent of a table, by its place. *)
LEMMA TreeParent ==
  ASSUME NEW m \in Contents, NEW N, Tree(m, N), NEW x \in N, NEW y \in N, NEW i \in Index,
         y.depth = x.depth + 1, y.place = x.place * ENTRIES + i
  PROVE  Links(m, x, i) /\ y = Under(m, x, i)
<1>1. N \subseteq TableNode BY DEF Tree
<1>2. x.depth \in Nat /\ x.place \in Nat /\ y.depth # 0 BY <1>1, Constants DEF TableNode
<1>3. PICK p \in N, j \in Index : Links(m, p, j) /\ y = Under(m, p, j) BY <1>2 DEF Tree
<1>4. y.depth = p.depth + 1 /\ y.place = p.place * ENTRIES + j BY <1>3 DEF Under
<1>5. p.depth \in Nat /\ p.place \in Nat BY <1>1, Constants DEF TableNode
<1>6. p.place = x.place /\ j = i BY <1>2, <1>4, <1>5, DigitsUnique
<1>7. p.depth = x.depth BY <1>2, <1>4, <1>5
<1>8. p = x BY <1>6, <1>7, TreeUnique
<1> QED BY <1>3, <1>6, <1>8

(* An entry that leads somewhere: to a table of the tree, or to memory. *)
LEMMA EntryKinds ==
  ASSUME NEW m \in Contents, NEW N, Tree(m, N), NEW x \in N, NEW i \in Index
  PROVE  /\ x \in TableNode /\ m[x.page] \in [Index -> Entry] /\ m[x.page][i] \in Entry
         /\ Links(m, x, i) => /\ Under(m, x, i) \in N /\ x.depth < DEPTH_BOTTOM
                              /\ Present(m[x.page][i]) /\ ~Maps(m, x, i)
         /\ Maps(m, x, i) => Under(m, x, i) \in Leads(m, N) /\ Present(m[x.page][i])
         /\ Present(m[x.page][i]) => Links(m, x, i) \/ Maps(m, x, i)
<1>1. x \in TableNode BY DEF Tree
<1>2. x.page \in Memory /\ x.depth \in 0 .. DEPTH_BOTTOM BY <1>1 DEF TableNode
<1>3. m[x.page] \in [Index -> Entry] /\ m[x.page][i] \in Entry BY <1>2 DEF Contents
<1>4. Links(m, x, i) => /\ Under(m, x, i) \in N /\ x.depth < DEPTH_BOTTOM
                        /\ Present(m[x.page][i]) /\ ~Maps(m, x, i)
  <2>1. x.depth < DEPTH_BOTTOM => x.depth # DEPTH_BOTTOM BY <1>2, Constants
  <2> QED BY <2>1 DEF Tree, Links, Maps
<1>5. Maps(m, x, i) => Under(m, x, i) \in Leads(m, N)
  <2> SUFFICES ASSUME Maps(m, x, i) PROVE Under(m, x, i) \in Leads(m, N) OBVIOUS
  <2>1. <<x, i>> \in {p \in N \X Index : Maps(m, p[1], p[2])} OBVIOUS
  <2> QED BY <2>1 DEF Leads
<1>6. Present(m[x.page][i]) => Links(m, x, i) \/ Maps(m, x, i)
  <2>1. x.depth < DEPTH_BOTTOM \/ x.depth = DEPTH_BOTTOM BY <1>2, Constants
  <2> QED BY <2>1 DEF Links, Maps
<1>7. Maps(m, x, i) => Present(m[x.page][i]) BY DEF Maps
<1> QED BY <1>1, <1>3, <1>4, <1>5, <1>6, <1>7

------------------------------------------------------------------------------
(* What the processor reaches, and the tree *)

(* A step of the processor from a table, for each of its entries. *)
MemoryNode(m, x, i) ==
  [place |-> x.place * ENTRIES + i, depth |-> DEPTH_MEMORY,
   page |-> m[x.page][i].page, bits |-> m[x.page][i].bits]

(* A step of the processor from a table. *)
LEMMA BelowIs ==
  ASSUME NEW m \in Contents, NEW x \in TableNode, NEW i \in Index
  PROVE  /\ Below(m, x, i) \in Node
         /\ Below(m, x, i).depth \in {DEPTH_INVALID, DEPTH_MEMORY, x.depth + 1}
         /\ Links(m, x, i) => Below(m, x, i) = Under(m, x, i)
         /\ Maps(m, x, i) => Below(m, x, i) = MemoryNode(m, x, i)
         /\ Below(m, x, i).depth = DEPTH_MEMORY => Maps(m, x, i)
         /\ Below(m, x, i).depth = x.depth + 1 /\ x.depth < DEPTH_BOTTOM => Links(m, x, i)
<1> DEFINE place == x.place * ENTRIES + i
           k == Span(x.depth)
           e == m[x.page][i]
           b == Below(m, x, i)
<1>1. x.page \in Memory /\ x.place \in Nat /\ x.depth \in 0 .. DEPTH_BOTTOM BY DEF TableNode
<1>2. e \in Entry BY <1>1 DEF Contents
<1>3. place \in Nat /\ place % ENTRIES = i BY <1>1, Digits
<1>4. k \in Nat \ {0} BY <1>1, SpanIs
<1>5. (place * k) \div k = place
  <2> HIDE DEF place, k
  <2>1. 0 \in 0 .. k - 1 BY <1>4
  <2>2. (k * place + 0) \div k = place BY <1>3, <1>4, <2>1, DivModUnique
  <2>3. k * place + 0 = place * k BY <1>3, <1>4
  <2> QED BY <2>2, <2>3
<1>6. LookupEntry(m, x, place * k) = e
  <2>1. LookupEntry(m, x, place * k) = m[x.page][((place * k) \div k) % ENTRIES]
    BY DEF LookupEntry
  <2> HIDE DEF place, k
  <2> QED BY <1>3, <1>5, <2>1
<1>7. b = [place |-> place, depth |-> MmuLookupStep(m, x, place * k).depth,
           page |-> MmuLookupStep(m, x, place * k).page, bits |-> e.bits]
  <2> HIDE DEF k, e
  <2> QED BY <1>6 DEF Below, k
<1>8. MmuLookupStep(m, x, place * k) =
        IF ~Present(e) THEN Nothing
        ELSE IF "PS" \in e.bits
        THEN [page |-> e.page, depth |-> DEPTH_MEMORY]
        ELSE [page |-> e.page, depth |-> x.depth + 1]
  <2> HIDE DEF place, k, e
  <2> QED BY <1>6 DEF MmuLookupStep
<1> HIDE DEF k, b
<1>9. /\ b.place = place /\ b.bits = e.bits
      /\ b.depth = IF ~Present(e) THEN DEPTH_INVALID
                   ELSE IF "PS" \in e.bits THEN DEPTH_MEMORY ELSE x.depth + 1
      /\ b.page = IF ~Present(e) THEN 0 ELSE e.page
      /\ b = [place |-> b.place, depth |-> b.depth, page |-> b.page, bits |-> b.bits]
  <2> HIDE DEF place, e
  <2> QED BY <1>7, <1>8 DEF Nothing
<1> HIDE DEF place
<1>10. DEPTH_MEMORY = DEPTH_BOTTOM + 1 /\ DEPTH_INVALID = DEPTH_BOTTOM + 2 /\ DEPTH_BOTTOM \in Nat
  BY Constants
<1>11. e.page \in Nat /\ e.bits \in SUBSET PageTableBits BY <1>2 DEF Entry
<1> HIDE DEF e
<1>12. b.depth \in Nat /\ b.page \in Nat BY <1>1, <1>9, <1>10, <1>11
<1>13. b \in Node
  <2>1. b = [place |-> b.place, depth |-> b.depth, page |-> b.page, bits |-> b.bits] BY <1>9
  <2>2. b.place \in Nat /\ b.bits \in SUBSET PageTableBits BY <1>3, <1>9, <1>11
  <2> HIDE DEF b
  <2> QED BY <1>12, <2>1, <2>2 DEF Node
<1>14. Links(m, x, i) => b = Under(m, x, i)
  BY <1>9 DEF Links, Under, e, place
<1>15. Maps(m, x, i) => b = MemoryNode(m, x, i)
  <2> SUFFICES ASSUME Maps(m, x, i) PROVE b = MemoryNode(m, x, i) OBVIOUS
  <2>1. Present(e) /\ (x.depth = DEPTH_BOTTOM \/ "PS" \in e.bits) BY DEF Maps, e
  <2>2. b.depth = DEPTH_MEMORY /\ b.page = e.page BY <1>9, <1>10, <2>1
  <2> QED BY <1>9, <2>2 DEF MemoryNode, e, place
<1>16. b.depth = DEPTH_MEMORY => Maps(m, x, i) BY <1>1, <1>9, <1>10 DEF Maps, e
<1>17. b.depth = x.depth + 1 /\ x.depth < DEPTH_BOTTOM => Links(m, x, i)
  BY <1>1, <1>9, <1>10 DEF Links, e
<1>18. b.depth \in {DEPTH_INVALID, DEPTH_MEMORY, x.depth + 1} BY <1>9
<1> QED BY <1>13, <1>14, <1>15, <1>16, <1>17, <1>18 DEF b

(* A step from all tables of a depth. *)
LEMMA StepDownIs ==
  ASSUME NEW m \in Contents, NEW depth \in 0 .. DEPTH_BOTTOM, NEW nodes \in SUBSET Node
  PROVE  /\ StepDown(m, depth, nodes) \in SUBSET Node
         /\ \A y : depth < DEPTH_BOTTOM =>
              (/\ y \in StepDown(m, depth, nodes) /\ y.depth = depth + 1
               <=> \E x \in nodes, i \in Index : /\ x.depth = depth /\ x.page \in Memory
                                                 /\ Links(m, x, i) /\ y = Under(m, x, i))
         /\ \A y : /\ y \in StepDown(m, depth, nodes) /\ y.depth = DEPTH_MEMORY
                   <=> \E x \in nodes, i \in Index : /\ x.depth = depth /\ x.page \in Memory
                                                     /\ Maps(m, x, i) /\ y = MemoryNode(m, x, i)
<1> DEFINE D == StepDown(m, depth, nodes)
           tables == {x \in nodes : x.depth = depth /\ x.page \in Memory}
<1>1. \A y : y \in D <=> \E x \in tables, i \in Index : y = Below(m, x, i) /\ y.depth # DEPTH_INVALID
  <2>1. D = {y \in {Below(m, x[1], x[2]) : x \in tables \X Index} : y.depth # DEPTH_INVALID}
    BY DEF StepDown
  <2> HIDE DEF tables, D
  <2>2. \A y : y \in {Below(m, x[1], x[2]) : x \in tables \X Index}
               <=> \E x \in tables, i \in Index : y = Below(m, x, i)
    <3>1. ASSUME NEW y, NEW x \in tables, NEW i \in Index, y = Below(m, x, i)
          PROVE  y \in {Below(m, z[1], z[2]) : z \in tables \X Index}
      <4>1. <<x, i>> \in tables \X Index /\ Below(m, <<x, i>>[1], <<x, i>>[2]) = y BY <3>1
      <4> QED BY <4>1
    <3>2. ASSUME NEW y, y \in {Below(m, z[1], z[2]) : z \in tables \X Index}
          PROVE  \E x \in tables, i \in Index : y = Below(m, x, i)
      <4>1. PICK z \in tables \X Index : y = Below(m, z[1], z[2]) BY <3>2
      <4>2. z[1] \in tables /\ z[2] \in Index OBVIOUS
      <4> QED BY <4>1, <4>2
    <3> QED BY <3>1, <3>2
  <2> QED BY <2>1, <2>2
<1>2. \A x \in tables : x \in TableNode /\ x.depth = depth /\ x.page \in Memory /\ x \in nodes
  <2> SUFFICES ASSUME NEW x \in tables PROVE x \in TableNode OBVIOUS
  <2> QED BY DEF Node, TableNode
<1> HIDE DEF D
<1>3. DEPTH_MEMORY = DEPTH_BOTTOM + 1 /\ DEPTH_INVALID = DEPTH_BOTTOM + 2 /\ DEPTH_BOTTOM \in Nat
  BY Constants
<1>4. D \in SUBSET Node BY <1>1, <1>2, BelowIs
<1>5. ASSUME NEW y, y \in D, y.depth = depth + 1, depth < DEPTH_BOTTOM
      PROVE  \E x \in tables, i \in Index : Links(m, x, i) /\ y = Under(m, x, i)
  <2>1. PICK x \in tables, i \in Index : y = Below(m, x, i) BY <1>1, <1>5
  <2>2. Links(m, x, i) BY <1>2, <1>5, <2>1, BelowIs
  <2> QED BY <1>2, <2>1, <2>2, BelowIs
<1>6. ASSUME NEW x \in tables, NEW i \in Index, Links(m, x, i)
      PROVE  Under(m, x, i) \in D /\ Under(m, x, i).depth = depth + 1
  <2>1. Below(m, x, i) = Under(m, x, i) BY <1>2, <1>6, BelowIs
  <2>2. Under(m, x, i).depth = depth + 1 BY <1>2 DEF Under
  <2>3. depth < DEPTH_BOTTOM BY <1>2, <1>6 DEF Links
  <2>4. depth + 1 # DEPTH_INVALID BY <1>3
  <2> QED BY <1>1, <2>1, <2>2, <2>4
<1>7. ASSUME NEW y, y \in D, y.depth = DEPTH_MEMORY
      PROVE  \E x \in tables, i \in Index : Maps(m, x, i) /\ y = MemoryNode(m, x, i)
  <2>1. PICK x \in tables, i \in Index : y = Below(m, x, i) BY <1>1, <1>7
  <2>2. Maps(m, x, i) BY <1>2, <1>7, <2>1, BelowIs
  <2> QED BY <1>2, <2>1, <2>2, BelowIs
<1>8. ASSUME NEW x \in tables, NEW i \in Index, Maps(m, x, i)
      PROVE  MemoryNode(m, x, i) \in D /\ MemoryNode(m, x, i).depth = DEPTH_MEMORY
  <2>1. Below(m, x, i) = MemoryNode(m, x, i) BY <1>2, <1>8, BelowIs
  <2>2. MemoryNode(m, x, i).depth = DEPTH_MEMORY BY DEF MemoryNode
  <2> QED BY <1>1, <1>3, <2>1, <2>2
<1> QED BY <1>4, <1>5, <1>6, <1>7, <1>8 DEF D

(* The recursive function Reached takes one step for each level. *)
LEMMA ReachedIs ==
  ASSUME NEW m \in Contents
  PROVE  /\ \A depth \in 0 .. LEVELS : Reached(m)[depth] \in SUBSET Node
         /\ Reached(m)[0] = {RootNode}
         /\ \A depth \in 0 .. DEPTH_BOTTOM :
              Reached(m)[depth + 1] = StepDown(m, depth, Reached(m)[depth])
<1> DEFINE X == SUBSET Node
           Eq(c) == c = [depth \in 0 .. LEVELS |->
                           IF depth = 0 THEN {RootNode} ELSE StepDown(m, depth - 1, c[depth - 1])]
           step == [p \in Nat \X X |-> IF p[1] \in 0 .. DEPTH_BOTTOM THEN StepDown(m, p[1], p[2]) ELSE {}]
           R == Reached(m)
<1>1. LEVELS \in Nat /\ DEPTH_BOTTOM = LEVELS - 1 /\ Root \in Nat BY Constants
<1>2. step \in [Nat \X X -> X]
  <2>1. \A p \in Nat \X X : p[1] \in 0 .. DEPTH_BOTTOM => StepDown(m, p[1], p[2]) \in X
    BY StepDownIs
  <2> HIDE DEF X
  <2>2. {} \in X BY DEF X
  <2> QED BY <2>1, <2>2
<1>3. {RootNode} \in X BY <1>1 DEF RootNode, Node
<1>4. \E c : Eq(c)
  <2>1. PICK g \in [0 .. LEVELS -> X] : Follows(g, LEVELS, {RootNode}, step)
    <3> HIDE DEF step, X
    <3> QED BY <1>1, <1>2, <1>3, Recursion
  <2>2. ASSUME NEW d \in 0 .. LEVELS, d # 0 PROVE g[d] = StepDown(m, d - 1, g[d - 1])
    <3>1. d - 1 \in 0 .. DEPTH_BOTTOM /\ d - 1 \in 0 .. LEVELS - 1 /\ d - 1 \in Nat
          /\ d - 1 \in 0 .. LEVELS /\ (d - 1) + 1 = d
      BY <1>1, <2>2
    <3>2. g[(d - 1) + 1] = step[<<d - 1, g[d - 1]>>] BY <2>1, <3>1 DEF Follows
    <3>3. g[d - 1] \in X BY <2>1, <3>1
    <3>4. <<d - 1, g[d - 1]>> \in Nat \X X BY <3>1, <3>3
    <3> HIDE DEF X
    <3>5. step[<<d - 1, g[d - 1]>>] = StepDown(m, d - 1, g[d - 1]) BY <3>1, <3>4
    <3> QED BY <3>1, <3>2, <3>5
  <2>3. g[0] = {RootNode} BY <2>1 DEF Follows
  <2>4. Eq(g) BY <2>1, <2>2, <2>3
  <2> QED BY <2>4
<1>5. R = CHOOSE c : Eq(c) BY DEF Reached
<1> HIDE DEF R
<1>6. Eq(R)
  <2> HIDE DEF Eq
  <2> QED BY <1>4, <1>5
<1>7. R[0] = {RootNode} BY <1>1, <1>6
<1>8. ASSUME NEW d \in 0 .. DEPTH_BOTTOM PROVE R[d + 1] = StepDown(m, d, R[d])
  <2>1. d + 1 \in 0 .. LEVELS /\ d + 1 # 0 /\ (d + 1) - 1 = d BY <1>1
  <2> QED BY <1>6, <2>1
<1>9. \A d \in 0 .. LEVELS : R[d] \in X
  <2> DEFINE S == {n \in Nat : n <= LEVELS => R[n] \in X}
  <2> HIDE DEF X
  <2>1. 0 \in S BY <1>3, <1>7
  <2>2. ASSUME NEW n \in S \cap Nat PROVE n + 1 \in S
    <3> SUFFICES ASSUME n + 1 <= LEVELS PROVE R[n + 1] \in X OBVIOUS
    <3>1. R[n] \in X /\ n \in 0 .. DEPTH_BOTTOM BY <1>1
    <3>2. StepDown(m, n, R[n]) \in X BY <3>1, StepDownIs DEF X
    <3> QED BY <1>8, <3>1, <3>2
  <2> HIDE DEF S
  <2>3. \A n \in Nat : n \in S BY <2>1, <2>2, Induction
  <2> QED BY <2>3 DEF S
<1> QED BY <1>7, <1>8, <1>9 DEF R

(* The tables of a memory with a tree are its nodes. *)
LEMMA TreeIs ==
  ASSUME NEW m \in Contents, NEW N, Tree(m, N)
  PROVE  /\ TableNodes(m) = N
         /\ \A depth \in 0 .. DEPTH_BOTTOM :
              {x \in Reached(m)[depth] : x.depth = depth} = {x \in N : x.depth = depth}
<1> DEFINE R == Reached(m)
           Same(d) == {x \in R[d] : x.depth = d} = {x \in N : x.depth = d}
           S == {d \in Nat : d <= DEPTH_BOTTOM => Same(d)}
<1>1. /\ LEVELS \in Nat /\ DEPTH_BOTTOM = LEVELS - 1 /\ DEPTH_BOTTOM \in Nat
      /\ N \subseteq TableNode
  BY Constants DEF Tree
<1>2. /\ \A d \in 0 .. LEVELS : R[d] \in SUBSET Node
      /\ R[0] = {RootNode}
      /\ \A d \in 0 .. DEPTH_BOTTOM : R[d + 1] = StepDown(m, d, R[d])
  BY ReachedIs
<1> HIDE DEF R
<1>3. 0 \in S
  <2>1. \A x \in N : x.depth = 0 => x = RootNode BY DEF Tree
  <2>2. RootNode \in N /\ RootNode.depth = 0 BY DEF Tree, RootNode
  <2>3. Same(0) BY <1>2, <2>1, <2>2
  <2> QED BY <2>3
<1>4. ASSUME NEW d \in S \cap Nat PROVE d + 1 \in S
  <2> SUFFICES ASSUME d + 1 <= DEPTH_BOTTOM PROVE Same(d + 1) OBVIOUS
  <2>1. d \in 0 .. DEPTH_BOTTOM /\ d < DEPTH_BOTTOM /\ d \in 0 .. LEVELS /\ Same(d) BY <1>1
  <2>2. R[d + 1] = StepDown(m, d, R[d]) /\ R[d] \in SUBSET Node BY <1>2, <2>1
  <2>3. \A y : y \in StepDown(m, d, R[d]) /\ y.depth = d + 1
               <=> \E x \in R[d], i \in Index : /\ x.depth = d /\ x.page \in Memory
                                                /\ Links(m, x, i) /\ y = Under(m, x, i)
    BY <2>1, <2>2, StepDownIs
  <2>4. ASSUME NEW y \in R[d + 1], y.depth = d + 1 PROVE y \in N
    <3>1. PICK x \in R[d], i \in Index : x.depth = d /\ Links(m, x, i) /\ y = Under(m, x, i)
      BY <2>2, <2>3, <2>4
    <3>2. x \in N BY <2>1, <3>1
    <3> QED BY <3>1, <3>2 DEF Tree
  <2>5. ASSUME NEW y \in N, y.depth = d + 1 PROVE y \in R[d + 1]
    <3>1. y.depth # 0 BY <2>5, <1>1
    <3>2. PICK x \in N, i \in Index : Links(m, x, i) /\ y = Under(m, x, i) BY <3>1 DEF Tree
    <3>3. x.depth \in Nat /\ x.page \in Memory BY <1>1 DEF TableNode
    <3>4. x.depth = d BY <2>5, <3>2, <3>3 DEF Under
    <3>5. x \in R[d] BY <2>1, <3>4
    <3> QED BY <2>2, <2>3, <3>2, <3>3, <3>4, <3>5
  <2> QED BY <2>4, <2>5
<1> HIDE DEF S
<1>5. \A d \in Nat : d \in S BY <1>3, <1>4, Induction
<1>6. \A d \in 0 .. DEPTH_BOTTOM : Same(d) BY <1>1, <1>5 DEF S
<1>7. TableNodes(m) = UNION {{x \in R[d] : x.depth = d} : d \in 0 .. DEPTH_BOTTOM}
  BY DEF TableNodes, R
<1>8. TableNodes(m) = UNION {{x \in N : x.depth = d} : d \in 0 .. DEPTH_BOTTOM}
  BY <1>6, <1>7
<1>9. \A x \in N : x.depth \in 0 .. DEPTH_BOTTOM BY <1>1 DEF TableNode
<1>10. TableNodes(m) = N BY <1>8, <1>9
<1> QED BY <1>6, <1>10 DEF R

(* The state predicates of Mmu say that there is a tree. *)
LEMMA TreeExists ==
  ASSUME NEW m \in Contents, TablesOf(m) \subseteq Memory, IsTree(m), EntriesValid(m)
  PROVE  Tree(m, TableNodes(m))
<1> DEFINE R == Reached(m)
           N == TableNodes(m)
<1>1. /\ LEVELS \in Nat /\ DEPTH_BOTTOM = LEVELS - 1 /\ DEPTH_BOTTOM \in Nat
  BY Constants
<1>2. /\ \A d \in 0 .. LEVELS : R[d] \in SUBSET Node
      /\ R[0] = {RootNode}
      /\ \A d \in 0 .. DEPTH_BOTTOM : R[d + 1] = StepDown(m, d, R[d])
  BY ReachedIs
<1>3. N = UNION {{x \in R[d] : x.depth = d} : d \in 0 .. DEPTH_BOTTOM} BY DEF TableNodes
<1>4. \A x \in N : x.page \in Memory
      /\ \A i \in Index : Present(m[x.page][i]) => m[x.page][i].page \in Memory
  BY DEF TablesOf, EntriesValid
<1>5. \A x, y \in N : x.page = y.page => x = y BY DEF IsTree
<1> HIDE DEF R, N
<1>6. \A x : x \in N <=> x.depth \in 0 .. DEPTH_BOTTOM /\ x \in R[x.depth] BY <1>3
<1>7. N \subseteq TableNode
  <2> SUFFICES ASSUME NEW x \in N PROVE x \in TableNode OBVIOUS
  <2>1. x.depth \in 0 .. DEPTH_BOTTOM /\ x.depth \in 0 .. LEVELS /\ x \in R[x.depth] BY <1>1, <1>6
  <2>2. x \in Node BY <1>2, <2>1
  <2> QED BY <1>4, <2>1, <2>2 DEF Node, TableNode
<1>8. RootNode \in N /\ \A x \in N : x.depth = 0 => x = RootNode
  <2>1. RootNode.depth = 0 BY DEF RootNode
  <2>2. 0 \in 0 .. DEPTH_BOTTOM BY <1>1
  <2> QED BY <1>2, <1>6, <2>1, <2>2
<1>9. ASSUME NEW d \in 0 .. DEPTH_BOTTOM, d < DEPTH_BOTTOM
      PROVE  \A y : y \in R[d + 1] /\ y.depth = d + 1
                    <=> \E x \in R[d], i \in Index : /\ x.depth = d /\ x.page \in Memory
                                                     /\ Links(m, x, i) /\ y = Under(m, x, i)
  <2>1. d \in 0 .. LEVELS BY <1>1
  <2>2. R[d + 1] = StepDown(m, d, R[d]) /\ R[d] \in SUBSET Node BY <1>2, <2>1
  <2> QED BY <1>9, <2>2, StepDownIs
<1>10. ASSUME NEW x \in N, NEW i \in Index, Links(m, x, i) PROVE Under(m, x, i) \in N
  <2>1. x.depth \in 0 .. DEPTH_BOTTOM /\ x.depth < DEPTH_BOTTOM /\ x \in R[x.depth]
    BY <1>6, <1>10 DEF Links
  <2>2. Under(m, x, i) \in R[x.depth + 1] /\ Under(m, x, i).depth = x.depth + 1
    BY <1>4, <1>9, <1>10, <2>1
  <2>3. x.depth + 1 \in 0 .. DEPTH_BOTTOM BY <1>1, <2>1
  <2> QED BY <1>6, <2>2, <2>3
<1>11. ASSUME NEW y \in N, y.depth # 0
       PROVE  \E x \in N, i \in Index : Links(m, x, i) /\ y = Under(m, x, i)
  <2> DEFINE d == y.depth - 1
  <2>1. d \in 0 .. DEPTH_BOTTOM /\ d < DEPTH_BOTTOM /\ y.depth = d + 1 /\ y \in R[d + 1]
    BY <1>1, <1>6, <1>11
  <2> HIDE DEF d
  <2>2. PICK x \in R[d], i \in Index : x.depth = d /\ Links(m, x, i) /\ y = Under(m, x, i)
    BY <1>9, <2>1
  <2>3. x \in N BY <1>6, <2>1, <2>2
  <2> QED BY <2>2, <2>3
<1> QED BY <1>4, <1>5, <1>7, <1>8, <1>10, <1>11 DEF Tree, N

(* The map of a memory, and its large pages, by what its tree leads to. *)
Covered(l) == {t.virtual : t \in Translations(l.depth - 1, l)}
(* The map and the large pages, in terms of the leads of the tree. *)
LEMMA MappedIs ==
  ASSUME NEW m \in Contents, NEW N, Tree(m, N)
  PROVE  /\ \A t : t \in Mapped(m) <=> \E l \in Leads(m, N) : t \in Translations(l.depth - 1, l)
         /\ \A v : v \in LargePages(m) <=> \E l \in Leads(m, N) : /\ l.depth <= DEPTH_BOTTOM
                                                                  /\ v \in Covered(l)
<1> DEFINE R == Reached(m)
           M(d) == {x \in R[d + 1] : x.depth = DEPTH_MEMORY}
<1>1. /\ LEVELS \in Nat /\ DEPTH_BOTTOM = LEVELS - 1 /\ DEPTH_BOTTOM \in Nat
      /\ N \subseteq TableNode
  BY Constants DEF Tree
<1>2. /\ \A d \in 0 .. LEVELS : R[d] \in SUBSET Node
      /\ \A d \in 0 .. DEPTH_BOTTOM : R[d + 1] = StepDown(m, d, R[d])
  BY ReachedIs
<1>3. \A d \in 0 .. DEPTH_BOTTOM : {x \in R[d] : x.depth = d} = {x \in N : x.depth = d}
  BY TreeIs
<1> HIDE DEF R
<1>4. ASSUME NEW d \in 0 .. DEPTH_BOTTOM
      PROVE  \A y : y \in M(d) <=> \E x \in N, i \in Index : /\ x.depth = d /\ Maps(m, x, i)
                                                             /\ y = MemoryNode(m, x, i)
  <2>1. d \in 0 .. LEVELS BY <1>1
  <2>2. R[d + 1] = StepDown(m, d, R[d]) /\ R[d] \in SUBSET Node BY <1>2, <2>1
  <2>3. \A y : y \in StepDown(m, d, R[d]) /\ y.depth = DEPTH_MEMORY
                   <=> \E x \in R[d], i \in Index : /\ x.depth = d /\ x.page \in Memory
                                                    /\ Maps(m, x, i) /\ y = MemoryNode(m, x, i)
    BY <2>2, StepDownIs
  <2>4. \A x : x \in R[d] /\ x.depth = d <=> x \in N /\ x.depth = d BY <1>3
  <2>5. \A x \in N : x.page \in Memory BY <1>1 DEF TableNode
  <2> QED BY <2>2, <2>3, <2>4, <2>5
<1> HIDE DEF M
<1>5. ASSUME NEW x \in N, NEW i \in Index
      PROVE  /\ x.depth \in 0 .. DEPTH_BOTTOM /\ Under(m, x, i).depth - 1 = x.depth
             /\ Translations(Under(m, x, i).depth - 1, Under(m, x, i)) =
                  Translations(x.depth, MemoryNode(m, x, i))
  <2>1. x.depth \in 0 .. DEPTH_BOTTOM BY <1>1 DEF TableNode
  <2>2. Under(m, x, i).depth - 1 = x.depth BY <2>1 DEF Under
  <2>3. Translations(x.depth, Under(m, x, i)) = Translations(x.depth, MemoryNode(m, x, i))
    BY DEF Translations, Under, MemoryNode
  <2> QED BY <2>1, <2>2, <2>3
<1>6. \A l : l \in Leads(m, N) <=> \E x \in N, i \in Index : Maps(m, x, i) /\ l = Under(m, x, i)
  <2>1. ASSUME NEW l \in Leads(m, N)
        PROVE  \E x \in N, i \in Index : Maps(m, x, i) /\ l = Under(m, x, i)
    <3>1. PICK p \in N \X Index : Maps(m, p[1], p[2]) /\ l = Under(m, p[1], p[2]) BY DEF Leads
    <3>2. p[1] \in N /\ p[2] \in Index OBVIOUS
    <3> QED BY <3>1, <3>2
  <2>2. ASSUME NEW x \in N, NEW i \in Index, Maps(m, x, i) PROVE Under(m, x, i) \in Leads(m, N)
    BY <2>2, EntryKinds
  <2> QED BY <2>1, <2>2
<1>7. ASSUME NEW t PROVE t \in Mapped(m) <=> \E l \in Leads(m, N) : t \in Translations(l.depth - 1, l)
  <2>1. Mapped(m) = UNION {UNION {Translations(d, x) : x \in M(d)} : d \in 0 .. DEPTH_BOTTOM}
    BY DEF Mapped, M, R
  <2>2. t \in Mapped(m) <=> \E d \in 0 .. DEPTH_BOTTOM : \E x \in M(d) : t \in Translations(d, x)
    BY <2>1
  <2>3. ASSUME NEW d \in 0 .. DEPTH_BOTTOM, NEW y \in M(d), t \in Translations(d, y)
        PROVE  \E l \in Leads(m, N) : t \in Translations(l.depth - 1, l)
    <3>1. PICK x \in N, i \in Index : x.depth = d /\ Maps(m, x, i) /\ y = MemoryNode(m, x, i)
      BY <1>4
    <3> QED BY <1>5, <1>6, <2>3, <3>1
  <2>4. ASSUME NEW l \in Leads(m, N), t \in Translations(l.depth - 1, l)
        PROVE  \E d \in 0 .. DEPTH_BOTTOM : \E x \in M(d) : t \in Translations(d, x)
    <3>1. PICK x \in N, i \in Index : Maps(m, x, i) /\ l = Under(m, x, i) BY <1>6
    <3>2. x.depth \in 0 .. DEPTH_BOTTOM /\ MemoryNode(m, x, i) \in M(x.depth) BY <1>4, <1>5, <3>1
    <3>3. t \in Translations(x.depth, MemoryNode(m, x, i)) BY <1>5, <2>4, <3>1
    <3> QED BY <3>2, <3>3
  <2> QED BY <2>2, <2>3, <2>4
<1>8. ASSUME NEW v
      PROVE  v \in LargePages(m) <=> \E l \in Leads(m, N) : l.depth <= DEPTH_BOTTOM /\ v \in Covered(l)
  <2> DEFINE C(d, x) == {t.virtual : t \in Translations(d, x)}
  <2>1. LargePages(m) = UNION {UNION {C(d, x) : x \in M(d)} : d \in 0 .. DEPTH_BOTTOM - 1}
    BY DEF LargePages, M, R
  <2>2. \A x \in N, i \in Index :
          Covered(Under(m, x, i)) = C(x.depth, MemoryNode(m, x, i))
    BY <1>5 DEF Covered
  <2> HIDE DEF C
  <2>3. v \in LargePages(m) <=> \E d \in 0 .. DEPTH_BOTTOM - 1 : \E x \in M(d) : v \in C(d, x)
    BY <2>1
  <2>4. ASSUME NEW d \in 0 .. DEPTH_BOTTOM - 1, NEW y \in M(d), v \in C(d, y)
        PROVE  \E l \in Leads(m, N) : l.depth <= DEPTH_BOTTOM /\ v \in Covered(l)
    <3>1. d \in 0 .. DEPTH_BOTTOM /\ d + 1 <= DEPTH_BOTTOM BY <1>1
    <3>2. PICK x \in N, i \in Index : x.depth = d /\ Maps(m, x, i) /\ y = MemoryNode(m, x, i)
      BY <1>4, <3>1
    <3>3. Under(m, x, i).depth = d + 1 BY <3>2 DEF Under
    <3> QED BY <1>6, <2>2, <2>4, <3>1, <3>2, <3>3
  <2>5. ASSUME NEW l \in Leads(m, N), l.depth <= DEPTH_BOTTOM, v \in Covered(l)
        PROVE  \E d \in 0 .. DEPTH_BOTTOM - 1 : \E x \in M(d) : v \in C(d, x)
    <3>1. PICK x \in N, i \in Index : Maps(m, x, i) /\ l = Under(m, x, i) BY <1>6
    <3>2. x.depth \in 0 .. DEPTH_BOTTOM /\ MemoryNode(m, x, i) \in M(x.depth) BY <1>4, <1>5, <3>1
    <3>3. l.depth = x.depth + 1 BY <3>1 DEF Under
    <3>4. x.depth \in 0 .. DEPTH_BOTTOM - 1 BY <1>1, <2>5, <3>2, <3>3
    <3>5. v \in C(x.depth, MemoryNode(m, x, i)) BY <2>2, <2>5, <3>1
    <3> QED BY <3>2, <3>4, <3>5
  <2> QED BY <2>3, <2>4, <2>5
<1> QED BY <1>7, <1>8

(* Leads come from the entries that map. *)
LEMMA LeadsAre ==
  ASSUME NEW m \in Contents, NEW N, Tree(m, N), NEW l
  PROVE  l \in Leads(m, N) <=> \E x \in N, i \in Index : Maps(m, x, i) /\ l = Under(m, x, i)
<1>1. ASSUME l \in Leads(m, N)
      PROVE  \E x \in N, i \in Index : Maps(m, x, i) /\ l = Under(m, x, i)
  <2>1. PICK p \in N \X Index : Maps(m, p[1], p[2]) /\ l = Under(m, p[1], p[2])
    BY <1>1 DEF Leads
  <2>2. p[1] \in N /\ p[2] \in Index OBVIOUS
  <2> QED BY <2>1, <2>2
<1>2. ASSUME NEW x \in N, NEW i \in Index, Maps(m, x, i) PROVE Under(m, x, i) \in Leads(m, N)
  BY <1>2, EntryKinds
<1> QED BY <1>1, <1>2

------------------------------------------------------------------------------
(* Changes of the tree *)

(* A state of a walk: the page tables are the tree N, and the pages that   *)
(* are allocated are its tables and, outside it, the pages in other.       *)
Good(s, N, other) ==
  /\ s \in WalkState /\ Tree(s.mem, N)
  /\ s.held = (Pages(N) \cap Pool) \cup other /\ Pages(N) \cap other = {}

(* Types of a good state. *)
LEMMA GoodTypes ==
  ASSUME NEW s, NEW N, NEW other, Good(s, N, other)
  PROVE  /\ s \in WalkState /\ s.mem \in Contents /\ Tree(s.mem, N)
         /\ N \subseteq TableNode /\ Pages(N) \subseteq Memory
         /\ \A x \in N : /\ x.page \in Memory /\ x.place \in Nat /\ x.depth \in 0 .. DEPTH_BOTTOM
                         /\ x.page \in Pages(N)
BY DEF Good, Tree, WalkState, Contents, TableNode, Pages

(* A zeroed page from the allocator, linked to by an entry that was not    *)
(* present: one more table, and the same map.                              *)
NewTable(s, x, i) == [place |-> x.place * ENTRIES + i, depth |-> x.depth + 1,
                      page |-> Min(Free(s)), bits |-> PM_PERMS]
WithTable(s, x, i) ==
  Write(AllocatePage(s), <<x.page, i>>, [page |-> Min(Free(s)), bits |-> PM_PERMS])

Added(s, N, other, x, i, p, t, y) ==
  /\ y \notin N /\ p \in Memory
  /\ Good(t, N \cup {y}, other) /\ t.halted = s.halted
  /\ Leads(t.mem, N \cup {y}) = Leads(s.mem, N)
  /\ \A q \in Memory : q # p /\ q # x.page => t.mem[q] = s.mem[q]
  /\ \A z \in N, j \in Index : z # x \/ j # i => t.mem[z.page][j] = s.mem[z.page][j]

(* A new table below a table is one more node, and no new lead. *)
LEMMA AddTable ==
  ASSUME NEW s, NEW N, NEW other, Good(s, N, other), NEW x \in N, NEW i \in Index,
         x.depth < DEPTH_BOTTOM, ~Present(s.mem[x.page][i]), Free(s) # {}
  PROVE  Added(s, N, other, x, i, Min(Free(s)), WithTable(s, x, i), NewTable(s, x, i))
<1> DEFINE p == Min(Free(s))
           e == [page |-> p, bits |-> PM_PERMS]
           a == AllocatePage(s)
           t == Write(a, <<x.page, i>>, e)
           y == [place |-> x.place * ENTRIES + i, depth |-> x.depth + 1,
                 page |-> p, bits |-> PM_PERMS]
           M == N \cup {y}
<1>1. /\ s \in WalkState /\ s.mem \in Contents /\ Tree(s.mem, N)
      /\ N \subseteq TableNode /\ Pages(N) \subseteq Memory
      /\ \A z \in N : /\ z.page \in Memory /\ z.place \in Nat /\ z.depth \in 0 .. DEPTH_BOTTOM
                      /\ z.page \in Pages(N)
  BY GoodTypes
<1>2. /\ p \in Pool \ s.held /\ a \in WalkState
      /\ a.held = s.held \cup {p} /\ a.halted = s.halted
      /\ a.mem = [s.mem EXCEPT ![p] = ZeroTable]
  BY <1>1, AllocateType
<1> HIDE DEF p, a
<1>3. p \in Memory /\ p \in Nat BY <1>2, Constants
<1>4. e \in Entry BY <1>3, EntryTypes
<1>5. <<x.page, i>> \in Memory \X Index BY <1>1
<1>6. /\ t \in WalkState /\ t.held = s.held \cup {p} /\ t.halted = s.halted
      /\ t.mem = [a.mem EXCEPT ![x.page][i] = e]
  <2>1. /\ Write(a, <<x.page, i>>, e) \in WalkState
        /\ Write(a, <<x.page, i>>, e).held = a.held
        /\ Write(a, <<x.page, i>>, e).halted = a.halted
        /\ Write(a, <<x.page, i>>, e).mem = [a.mem EXCEPT ![x.page][i] = e]
    <3> HIDE DEF e
    <3>1. a \in WalkState BY <1>2
    <3> QED BY <1>4, <1>5, <3>1, WriteType
  <2> QED BY <1>2, <2>1
<1> HIDE DEF t
<1>7. p \notin Pages(N) /\ p \notin other
  <2>1. s.held = (Pages(N) \cap Pool) \cup other BY DEF Good
  <2> QED BY <1>2, <2>1
<1>8. x.page # p /\ \A z \in N : z.page # p BY <1>1, <1>7
<1>9. /\ t.mem[p] = ZeroTable /\ t.mem[x.page][i] = e
      /\ \A q \in Memory : q # p /\ q # x.page => t.mem[q] = s.mem[q]
      /\ \A j \in Index : j # i => t.mem[x.page][j] = s.mem[x.page][j]
  <2>1. a.mem \in [Memory -> [Index -> Entry]] /\ s.mem \in [Memory -> [Index -> Entry]]
    BY <1>1, <1>2 DEF WalkState
  <2>2. a.mem[x.page] = s.mem[x.page] /\ s.mem[x.page] \in [Index -> Entry]
    BY <1>1, <1>2, <1>8, <2>1
  <2>3. a.mem[p] = ZeroTable BY <1>2, <1>3, <2>1
  <2>4. \A q \in Memory : q # p => a.mem[q] = s.mem[q] BY <1>2, <2>1
  <2>5. t.mem[x.page] = [a.mem[x.page] EXCEPT ![i] = e] BY <1>1, <1>6, <2>1
  <2>6. \A q \in Memory : q # x.page => t.mem[q] = a.mem[q] BY <1>6, <2>1
  <2> HIDE DEF e
  <2> QED BY <1>1, <1>3, <1>8, <2>2, <2>3, <2>4, <2>5, <2>6
<1>10. \A z \in N, j \in Index : z # x \/ j # i => t.mem[z.page][j] = s.mem[z.page][j]
  <2>1. \A z \in N : z.page = x.page => z = x BY <1>1 DEF Tree
  <2> QED BY <1>1, <1>8, <1>9, <2>1
<1>11. ~Present(s.mem[x.page][i]) /\ Present(e) /\ "PS" \notin e.bits BY DEF Present, PM_PERMS
<1>12. y \in TableNode /\ y.page = p /\ y.depth = x.depth + 1 /\ y.depth # 0 /\ y # RootNode
  <2>1. x.depth + 1 \in 0 .. DEPTH_BOTTOM /\ x.depth \in Nat BY <1>1, Constants
  <2>2. x.place * ENTRIES + i \in Nat BY <1>1, Digits
  <2>3. PM_PERMS \in SUBSET PageTableBits BY DEF PM_PERMS, PageTableBits
  <2>4. y.depth # 0 BY <2>1
  <2> QED BY <1>3, <2>1, <2>2, <2>3, <2>4 DEF TableNode, RootNode
<1>13. y \notin N BY <1>8, <1>12
<1>14. Under(t.mem, x, i) = y /\ Links(t.mem, x, i) /\ ~Maps(t.mem, x, i)
  <2>1. x.depth # DEPTH_BOTTOM BY <1>1, Constants
  <2> QED BY <1>9, <1>11, <2>1 DEF Under, Links, Maps
<1>15. \A z \in N, j \in Index : z # x \/ j # i =>
         /\ Under(t.mem, z, j) = Under(s.mem, z, j)
         /\ Links(t.mem, z, j) = Links(s.mem, z, j)
         /\ Maps(t.mem, z, j) = Maps(s.mem, z, j)
  BY <1>10 DEF Under, Links, Maps
<1>16. ~Links(s.mem, x, i) /\ ~Maps(s.mem, x, i) BY <1>11 DEF Links, Maps
<1>17. \A j \in Index : ~Present(t.mem[p][j])
  BY <1>9 DEF ZeroTable, Zero, Present
<1>18. \A j \in Index : ~Links(t.mem, y, j) /\ ~Maps(t.mem, y, j)
  BY <1>12, <1>17 DEF Links, Maps
<1> HIDE DEF y, e
<1>19. Tree(t.mem, M)
  <2>1. M \subseteq TableNode /\ RootNode \in M /\ \A z \in M : z.depth = 0 => z = RootNode
    BY <1>1, <1>12 DEF Tree
  <2>2. ASSUME NEW z \in M, NEW j \in Index, Links(t.mem, z, j) PROVE Under(t.mem, z, j) \in M
    <3>1. z \in N BY <1>18, <2>2
    <3>2. CASE z = x /\ j = i BY <1>14, <3>2
    <3>3. CASE z # x \/ j # i
      <4>1. Under(s.mem, z, j) \in N BY <1>1, <1>15, <2>2, <3>1, <3>3 DEF Tree
      <4> QED BY <1>15, <3>1, <3>3, <4>1
    <3> QED BY <3>2, <3>3
  <2>3. ASSUME NEW z \in M, z.depth # 0
        PROVE  \E w \in M, j \in Index : Links(t.mem, w, j) /\ z = Under(t.mem, w, j)
    <3>1. CASE z = y BY <1>14, <3>1
    <3>2. CASE z \in N
      <4>1. PICK w \in N, j \in Index : Links(s.mem, w, j) /\ z = Under(s.mem, w, j)
        BY <1>1, <2>3, <3>2 DEF Tree
      <4>2. w # x \/ j # i BY <1>16, <4>1
      <4> QED BY <1>15, <4>1, <4>2
    <3> QED BY <3>1, <3>2
  <2>4. \A z, w \in M : z.page = w.page => z = w
    <3>1. \A z, w \in N : z.page = w.page => z = w BY <1>1 DEF Tree
    <3> QED BY <1>8, <1>12, <3>1
  <2>5. ASSUME NEW z \in M, NEW j \in Index, Present(t.mem[z.page][j])
        PROVE  t.mem[z.page][j].page \in Memory
    <3>1. z \in N BY <1>12, <1>17, <2>5
    <3>2. CASE z = x /\ j = i BY <1>3, <1>9, <3>2 DEF e
    <3>3. CASE z # x \/ j # i
      <4>1. t.mem[z.page][j] = s.mem[z.page][j] BY <1>10, <3>1, <3>3
      <4> QED BY <1>1, <2>5, <3>1, <4>1 DEF Tree
    <3> QED BY <3>2, <3>3
  <2> QED BY <2>1, <2>2, <2>3, <2>4, <2>5 DEF Tree
<1>20. Pages(M) = Pages(N) \cup {p} BY <1>12 DEF Pages
<1>21. Good(t, M, other)
  <2>1. s.held = (Pages(N) \cap Pool) \cup other /\ Pages(N) \cap other = {} BY DEF Good
  <2>2. p \in Pool /\ p \notin s.held /\ t.held = s.held \cup {p} BY <1>2, <1>6
  <2> HIDE DEF M, y
  <2>3. t.held = (Pages(M) \cap Pool) \cup other BY <1>20, <2>1, <2>2
  <2>4. Pages(M) \cap other = {} BY <1>20, <2>1, <2>2
  <2> QED BY <1>6, <1>19, <2>3, <2>4 DEF Good
<1>22. t.mem \in Contents BY <1>6 DEF WalkState, Contents
<1>23. Leads(t.mem, M) = Leads(s.mem, N)
  <2>1. ASSUME NEW l \in Leads(t.mem, M) PROVE l \in Leads(s.mem, N)
    <3>1. PICK z \in M, j \in Index : Maps(t.mem, z, j) /\ l = Under(t.mem, z, j)
      BY <1>19, <1>22, LeadsAre
    <3>2. z \in N /\ (z # x \/ j # i) BY <1>14, <1>18, <3>1
    <3>3. Maps(s.mem, z, j) /\ l = Under(s.mem, z, j) BY <1>15, <3>1, <3>2
    <3> QED BY <1>1, <3>2, <3>3, LeadsAre
  <2>2. ASSUME NEW l \in Leads(s.mem, N) PROVE l \in Leads(t.mem, M)
    <3>1. PICK z \in N, j \in Index : Maps(s.mem, z, j) /\ l = Under(s.mem, z, j)
      BY <1>1, LeadsAre
    <3>2. z # x \/ j # i BY <1>16, <3>1
    <3>3. Maps(t.mem, z, j) /\ l = Under(t.mem, z, j) /\ z \in M BY <1>15, <3>1, <3>2
    <3> QED BY <1>19, <1>22, <3>3, LeadsAre
  <2> QED BY <2>1, <2>2
<1>24. Added(s, N, other, x, i, p, t, y)
  BY <1>3, <1>6, <1>9, <1>10, <1>13, <1>21, <1>23 DEF Added
<1> QED BY <1>24 DEF p, a, t, y, e, WithTable, NewTable

(* The entry of an empty table cleared and its page freed, or, when it was *)
(* not allocated, a panic: one table less, and the same map.               *)
Dropped(s, N, other, x, i, y, u) ==
  /\ y \in N /\ x # y
  /\ Good(u, N \ {y}, other)
  /\ Leads(u.mem, N \ {y}) = Leads(s.mem, N)
  /\ s.halted => u.halted
  /\ \A q \in Memory : q # x.page => u.mem[q] = s.mem[q]
  /\ \A z \in N, j \in Index : z # x \/ j # i => u.mem[z.page][j] = s.mem[z.page][j]

(* An empty table taken out is one node less, and no lead less. *)
LEMMA DropTable ==
  ASSUME NEW s, NEW N, NEW other, Good(s, N, other), NEW x \in N, NEW i \in Index,
         Links(s.mem, x, i), NEW y, y = Under(s.mem, x, i), Empty(s, y.page)
  PROVE  Dropped(s, N, other, x, i, y, FreePage(Write(s, <<x.page, i>>, Zero), y.page))
<1> DEFINE t == Write(s, <<x.page, i>>, Zero)
           u == FreePage(t, y.page)
           M == N \ {y}
<1>1. /\ s \in WalkState /\ s.mem \in Contents /\ Tree(s.mem, N)
      /\ N \subseteq TableNode /\ Pages(N) \subseteq Memory
      /\ \A z \in N : /\ z.page \in Memory /\ z.place \in Nat /\ z.depth \in 0 .. DEPTH_BOTTOM
                      /\ z.page \in Pages(N)
  BY GoodTypes
<1>2. /\ t \in WalkState /\ t.held = s.held /\ t.halted = s.halted
      /\ t.mem = [s.mem EXCEPT ![x.page][i] = Zero]
  <2>1. <<x.page, i>> \in Memory \X Index BY <1>1
  <2>2. /\ Write(s, <<x.page, i>>, Zero) \in WalkState
        /\ Write(s, <<x.page, i>>, Zero).held = s.held
        /\ Write(s, <<x.page, i>>, Zero).halted = s.halted
        /\ Write(s, <<x.page, i>>, Zero).mem = [s.mem EXCEPT ![x.page][i] = Zero]
    BY <1>1, <2>1, EntryTypes, WriteType
  <2> QED BY <2>2
<1> HIDE DEF t
<1>3. /\ u \in WalkState /\ u.mem = t.mem /\ (s.halted => u.halted)
      /\ y.page \in s.held => u.held = s.held \ {y.page}
      /\ y.page \notin s.held => u.held = s.held
  <2>1. t \in WalkState BY <1>2
  <2> QED BY <1>2, <2>1, FreeType, HaltedType
<1> HIDE DEF u
<1>4. /\ u.mem[x.page][i] = Zero
      /\ \A q \in Memory : q # x.page => u.mem[q] = s.mem[q]
      /\ \A j \in Index : j # i => u.mem[x.page][j] = s.mem[x.page][j]
  <2>1. s.mem \in [Memory -> [Index -> Entry]] /\ x.page \in Memory
        /\ s.mem[x.page] \in [Index -> Entry]
    BY <1>1 DEF WalkState
  <2> QED BY <1>2, <1>3, <2>1
<1>5. \A z \in N, j \in Index : z # x \/ j # i => u.mem[z.page][j] = s.mem[z.page][j]
  <2>1. \A z \in N : z.page = x.page => z = x BY <1>1 DEF Tree
  <2> QED BY <1>1, <1>4, <2>1
<1>6. y \in N /\ y.depth = x.depth + 1 /\ y.place = x.place * ENTRIES + i
      /\ y.depth # x.depth /\ y.depth # 0 /\ y # x /\ y # RootNode
  <2>1. y \in N BY <1>1 DEF Tree
  <2>2. y.depth = x.depth + 1 /\ y.place = x.place * ENTRIES + i BY DEF Under
  <2>3. x.depth \in Nat BY <1>1, Constants
  <2>4. y.depth # x.depth /\ y.depth # 0 BY <2>2, <2>3
  <2> QED BY <2>1, <2>2, <2>4 DEF RootNode
<1>7. \A j \in Index : ~Links(s.mem, y, j) /\ ~Maps(s.mem, y, j)
  BY DEF Empty, Links, Maps
<1>8. ~Links(u.mem, x, i) /\ ~Maps(u.mem, x, i) /\ ~Maps(s.mem, x, i)
  <2>1. ~Present(u.mem[x.page][i]) BY <1>4 DEF Present, Zero
  <2>2. ~Maps(s.mem, x, i) BY <1>1, EntryKinds
  <2> QED BY <2>1, <2>2 DEF Links, Maps
<1>9. \A z \in N, j \in Index : z # x \/ j # i =>
         /\ Under(u.mem, z, j) = Under(s.mem, z, j)
         /\ Links(u.mem, z, j) = Links(s.mem, z, j)
         /\ Maps(u.mem, z, j) = Maps(s.mem, z, j)
  BY <1>5 DEF Under, Links, Maps
<1>10. Tree(u.mem, M)
  <2>1. M \subseteq TableNode /\ RootNode \in M /\ \A z \in M : z.depth = 0 => z = RootNode
    BY <1>1, <1>6 DEF Tree
  <2>2. ASSUME NEW z \in M, NEW j \in Index, Links(u.mem, z, j) PROVE Under(u.mem, z, j) \in M
    <3>1. z # x \/ j # i BY <1>8, <2>2
    <3>2. Links(s.mem, z, j) /\ Under(u.mem, z, j) = Under(s.mem, z, j) BY <1>9, <2>2, <3>1
    <3>3. Under(s.mem, z, j) \in N BY <1>1, <3>2 DEF Tree
    <3>4. ASSUME Under(s.mem, z, j) = y PROVE FALSE
      <4>1. y.depth = z.depth + 1 /\ y.place = z.place * ENTRIES + j BY <3>4 DEF Under
      <4>2. z.place = x.place /\ j = i BY <1>1, <1>6, <4>1, DigitsUnique
      <4>3. z.depth = x.depth
        <5>1. z.depth \in Int /\ x.depth \in Int BY <1>1
        <5> QED BY <1>6, <4>1, <5>1
      <4>4. z = x BY <1>1, <4>2, <4>3, TreeUnique
      <4> QED BY <3>1, <4>2, <4>4
    <3> QED BY <3>2, <3>3, <3>4
  <2>3. ASSUME NEW z \in M, z.depth # 0
        PROVE  \E w \in M, j \in Index : Links(u.mem, w, j) /\ z = Under(u.mem, w, j)
    <3>1. PICK w \in N, j \in Index : Links(s.mem, w, j) /\ z = Under(s.mem, w, j)
      BY <1>1, <2>3 DEF Tree
    <3>2. w # y BY <1>7, <3>1
    <3>3. w # x \/ j # i BY <3>1
    <3> QED BY <1>9, <3>1, <3>2, <3>3
  <2>4. \A z, w \in M : z.page = w.page => z = w BY <1>1 DEF Tree
  <2>5. ASSUME NEW z \in M, NEW j \in Index, Present(u.mem[z.page][j])
        PROVE  u.mem[z.page][j].page \in Memory
    <3>1. z # x \/ j # i BY <1>4, <2>5 DEF Present, Zero
    <3>2. u.mem[z.page][j] = s.mem[z.page][j] BY <1>5, <3>1
    <3> QED BY <1>1, <2>5, <3>2 DEF Tree
  <2> QED BY <2>1, <2>2, <2>3, <2>4, <2>5 DEF Tree
<1>11. Pages(M) = Pages(N) \ {y.page}
  <2>1. \A z \in N : z.page = y.page => z = y BY <1>1, <1>6 DEF Tree
  <2> QED BY <1>6, <2>1 DEF Pages
<1>12. Good(u, M, other)
  <2>1. s.held = (Pages(N) \cap Pool) \cup other /\ Pages(N) \cap other = {} BY DEF Good
  <2>2. y.page \in Pages(N) BY <1>1, <1>6
  <2>3. u.held = (Pages(M) \cap Pool) \cup other /\ Pages(M) \cap other = {}
    BY <1>3, <1>11, <2>1, <2>2
  <2> QED BY <1>3, <1>10, <2>3 DEF Good
<1>13. u.mem \in Contents BY <1>3 DEF WalkState, Contents
<1>14. Leads(u.mem, M) = Leads(s.mem, N)
  <2>1. ASSUME NEW l \in Leads(u.mem, M) PROVE l \in Leads(s.mem, N)
    <3>1. PICK z \in M, j \in Index : Maps(u.mem, z, j) /\ l = Under(u.mem, z, j)
      BY <1>10, <1>13, LeadsAre
    <3>2. z # x \/ j # i BY <1>8, <3>1
    <3>3. Maps(s.mem, z, j) /\ l = Under(s.mem, z, j) BY <1>9, <3>1, <3>2
    <3> QED BY <1>1, <3>1, <3>3, LeadsAre
  <2>2. ASSUME NEW l \in Leads(s.mem, N) PROVE l \in Leads(u.mem, M)
    <3>1. PICK z \in N, j \in Index : Maps(s.mem, z, j) /\ l = Under(s.mem, z, j)
      BY <1>1, LeadsAre
    <3>2. (z # x \/ j # i) /\ z # y BY <1>7, <1>8, <3>1
    <3>3. Maps(u.mem, z, j) /\ l = Under(u.mem, z, j) /\ z \in M BY <1>9, <3>1, <3>2
    <3> QED BY <1>10, <1>13, <3>3, LeadsAre
  <2> QED BY <2>1, <2>2
<1>15. Dropped(s, N, other, x, i, y, u)
  BY <1>3, <1>4, <1>5, <1>6, <1>12, <1>14 DEF Dropped
<1> QED BY <1>15 DEF t, u

------------------------------------------------------------------------------
(* The walks *)

(* The turn for entry j of the loop, in the terms of Cuts. *)
ChildAt(m, x, i, a, b) ==
  [page |-> m[x.page][i].page, depth |-> x.depth + 1, start |-> a, end |-> b]

TurnAt(loc, cut, j, i, a, b) ==
  /\ j \in 0 .. EndIndex(loc) - StartIndex(loc) - 1 /\ i = StartIndex(loc) + j
  /\ a = cut[j] /\ b = cut[j + 1]
TurnVisits(visit, s, loc, x, i, below, leaf, a, b) ==
  Turn(visit, s, loc, i, below, leaf) =
    IF s.halted THEN s
    ELSE Visit(visit, s, ChildAt(s.mem, x, i, a, b), <<x.page, i>>, below, leaf)

(* A turn visits the child that its cut gives. *)
LEMMA TurnIs ==
  ASSUME NEW visit, NEW s, NEW below, NEW leaf, NEW loc,
         NEW base, NEW x \in TableNode, loc.page = x.page, loc.depth = x.depth,
         NEW cut, Cuts(loc, base, x.place, cut),
         NEW j, NEW i, NEW a, NEW b, TurnAt(loc, cut, j, i, a, b)
  PROVE  TurnVisits(visit, s, loc, x, i, below, leaf, a, b)
<1>1. i \in Index BY DEF Cuts, TurnAt
<1>2. x.page \in Memory /\ x.page \in Nat /\ i \in Nat
  <2>1. x.page \in Memory BY DEF TableNode
  <2>2. Memory \subseteq Nat /\ Index = 0 .. ENTRIES - 1 BY Constants
  <2>3. i \in Nat BY <1>1, <2>2
  <2> QED BY <2>1, <2>2, <2>3
<1>3. Slot(loc.page, i) = <<x.page, i>> BY <1>1, <1>2, SlotType
<1>4. Read(s, <<x.page, i>>) = s.mem[x.page][i] BY DEF Read
<1>5. \A entry : Child(loc, i, entry) =
        [page |-> entry.page, depth |-> loc.depth + 1, start |-> a, end |-> b]
  BY DEF Cuts, TurnAt
<1>6. Child(loc, i, Read(s, <<x.page, i>>)) = ChildAt(s.mem, x, i, a, b)
  BY <1>4, <1>5 DEF ChildAt
<1> QED BY <1>2, <1>3, <1>6 DEF Turn, TurnVisits

(* The child of a walk is one, and its range one of addresses. *)
LEMMA CoversLocation ==
  ASSUME NEW base, NEW depth \in 0 .. DEPTH_BOTTOM, NEW place, NEW a, NEW b,
         Covers(base, depth, place, a, b), NEW page \in Nat
  PROVE  [page |-> page, depth |-> depth, start |-> a, end |-> b] \in Location
<1>1. a \in Nat /\ b \in Nat /\ a < b /\ b <= VIRTUAL - Span(0) BY DEF Covers
<1>2. Span(0) \in Nat \ {0} /\ VIRTUAL \in Nat
  <2>1. 0 \in 0 .. DEPTH_BOTTOM BY Constants
  <2> QED BY <2>1, SpanIs, Constants
<1>3. a \in 0 .. VIRTUAL - 1 /\ b \in 0 .. VIRTUAL - 1 BY <1>1, <1>2
<1> QED BY <1>3 DEF Location

(* No large page maps an address of [a, b). *)
NoLarge(m, N, base, a, b) ==
  \A l \in Leads(m, N), v \in a .. b - 1 :
    l.depth <= DEPTH_BOTTOM => l.place # PlaceOf(base, l.depth, v)

(* A table of the tree for an address, at a depth; a node is one for an    *)
(* address of [a, b).                                                      *)
Path(N, base, depth, v) ==
  \E y \in N : y.depth = depth /\ y.place = PlaceOf(base, depth, v)
On(y, base, a, b) == \E v \in a .. b - 1 : y.place = PlaceOf(base, y.depth, v)

(* What the reserving walk of [a, b) below a depth does: it adds tables    *)
(* for addresses of the range, all of them unless it runs out of pages,    *)
(* and nothing else.                                                       *)
Reserved(s, N, t, M, other, base, depth, a, b) ==
  /\ Good(t, M, other) /\ N \subseteq M /\ (s.halted => t.halted)
  /\ Leads(t.mem, M) = Leads(s.mem, N)
  /\ \A x \in N, i \in Index :
       Present(s.mem[x.page][i]) => t.mem[x.page][i] = s.mem[x.page][i]
  /\ \A p \in Memory : t.mem[p] # s.mem[p] => p \in Pages(M)
  /\ \A y \in M \ N : On(y, base, a, b) /\ y.page \in Pool
  /\ ~t.halted => \A v \in a .. b - 1, low \in depth + 1 .. DEPTH_BOTTOM : Path(M, base, low, v)

(* Reserving for an empty range. *)
LEMMA ReservedNothing ==
  ASSUME NEW s, NEW N, NEW other, Good(s, N, other), NEW base, NEW depth, NEW a \in Nat
  PROVE  Reserved(s, N, s, N, other, base, depth, a, a)
<1>1. a .. a - 1 = {} OBVIOUS
<1> QED BY <1>1 DEF Reserved

(* Reserving that has stopped has stopped for the rest of the range. *)
LEMMA ReservedHalted ==
  ASSUME NEW s, NEW N, NEW t, NEW M, NEW other, NEW base, NEW depth,
         NEW a \in Nat, NEW b \in Nat, NEW c \in Nat, b <= c,
         Reserved(s, N, t, M, other, base, depth, a, b), t.halted
  PROVE  Reserved(s, N, t, M, other, base, depth, a, c)
<1>1. a .. b - 1 \subseteq a .. c - 1 OBVIOUS
<1>2. \A y \in M \ N : On(y, base, a, c) /\ y.page \in Pool BY <1>1 DEF Reserved, On
<1> QED BY <1>2 DEF Reserved

(* Reserving for two ranges, one after the other. *)
LEMMA ReservedBoth ==
  ASSUME NEW s, NEW N, NEW t, NEW M, NEW u, NEW L, NEW other, NEW base, NEW depth,
         NEW a \in Nat, NEW b \in Nat, NEW c \in Nat, a <= b, b <= c,
         Good(s, N, other),
         Reserved(s, N, t, M, other, base, depth, a, b),
         Reserved(t, M, u, L, other, base, depth, b, c)
  PROVE  Reserved(s, N, u, L, other, base, depth, a, c)
<1>1. a .. b - 1 \subseteq a .. c - 1 /\ b .. c - 1 \subseteq a .. c - 1
      /\ \A v \in a .. c - 1 : v \in a .. b - 1 \/ v \in b .. c - 1
  OBVIOUS
<1>2. Good(u, L, other) /\ N \subseteq L /\ M \subseteq L /\ (s.halted => u.halted)
      /\ Leads(u.mem, L) = Leads(s.mem, N)
  BY DEF Reserved
<1>3. ASSUME NEW x \in N, NEW i \in Index, Present(s.mem[x.page][i])
      PROVE  u.mem[x.page][i] = s.mem[x.page][i]
  <2>1. t.mem[x.page][i] = s.mem[x.page][i] /\ x \in M BY <1>3 DEF Reserved
  <2> QED BY <1>3, <2>1 DEF Reserved
<1>4. \A p \in Memory : u.mem[p] # s.mem[p] => p \in Pages(L)
  <2>1. Pages(M) \subseteq Pages(L) BY <1>2 DEF Pages
  <2> QED BY <2>1 DEF Reserved
<1>5. ASSUME NEW y \in L \ N PROVE On(y, base, a, c) /\ y.page \in Pool
  <2>1. CASE y \in M
    <3>1. On(y, base, a, b) /\ y.page \in Pool BY <2>1 DEF Reserved
    <3> QED BY <1>1, <3>1 DEF On
  <2>2. CASE y \notin M
    <3>1. On(y, base, b, c) /\ y.page \in Pool BY <2>2 DEF Reserved
    <3> QED BY <1>1, <3>1 DEF On
  <2> QED BY <2>1, <2>2
<1>6. ASSUME ~u.halted, NEW v \in a .. c - 1, NEW low \in depth + 1 .. DEPTH_BOTTOM
      PROVE  Path(L, base, low, v)
  <2>1. ~t.halted BY <1>6 DEF Reserved
  <2>2. CASE v \in a .. b - 1
    <3>1. Path(M, base, low, v) BY <2>1, <2>2 DEF Reserved
    <3> QED BY <1>2, <3>1 DEF Path
  <2>3. CASE v \in b .. c - 1 BY <1>6, <2>3 DEF Reserved
  <2> QED BY <1>1, <2>2, <2>3
<1> QED BY <1>2, <1>3, <1>4, <1>5, <1>6 DEF Reserved

(* The walk of tables at a depth does so. *)
Reserves(walk, other, base, depth) ==
  \A s, N, y, a, b :
    /\ Good(s, N, other) /\ ~s.halted /\ NoLarge(s.mem, N, base, a, b)
    /\ y \in N /\ y.depth = depth /\ Covers(base, depth, y.place, a, b)
    => \E M : Reserved(s, N, walk[<<s, [page |-> y.page, depth |-> depth, start |-> a, end |-> b]>>],
                      M, other, base, depth, a, b)

(* node_callback_reserve, when the walk below does what it should. *)
LEMMA ReserveStep ==
  ASSUME NEW s, NEW N, NEW other, Good(s, N, other), ~s.halted,
         NEW x \in N, x.depth < DEPTH_BOTTOM, NEW i \in Index, NEW base, NEW a, NEW b,
         Covers(base, x.depth + 1, x.place * ENTRIES + i, a, b),
         NoLarge(s.mem, N, base, a, b), NEW below,
         x.depth + 1 < DEPTH_BOTTOM => Reserves(below, other, base, x.depth + 1)
  PROVE  \E M : Reserved(s, N, Reserve(s, ChildAt(s.mem, x, i, a, b), <<x.page, i>>, below),
                         M, other, base, x.depth, a, b)
<1> DEFINE c == ChildAt(s.mem, x, i, a, b)
           slot == <<x.page, i>>
           place == x.place * ENTRIES + i
           v0 == a
           r == Reserve(s, c, slot, below)
<1> SUFFICES \E M : Reserved(s, N, r, M, other, base, x.depth, a, b) OBVIOUS
<1>1. /\ s \in WalkState /\ s.mem \in Contents /\ Tree(s.mem, N)
      /\ N \subseteq TableNode /\ Pages(N) \subseteq Memory
      /\ \A z \in N : /\ z.page \in Memory /\ z.place \in Nat /\ z.depth \in 0 .. DEPTH_BOTTOM
                      /\ z.page \in Pages(N)
  BY GoodTypes
<1>2. Read(s, slot) = s.mem[x.page][i] BY DEF Read
<1>3. /\ c.page = s.mem[x.page][i].page /\ c.depth = x.depth + 1
      /\ \A p : [c EXCEPT !.page = p] = [page |-> p, depth |-> x.depth + 1, start |-> a, end |-> b]
      /\ c = [page |-> c.page, depth |-> x.depth + 1, start |-> a, end |-> b]
  BY DEF ChildAt
<1> HIDE DEF c
<1>4. /\ a \in Nat /\ b \in Nat /\ a < b /\ base \in Nat /\ a \in a .. b - 1
      /\ \A v \in a .. b - 1 : PlaceOf(base, x.depth + 1, v) = place
  <2>1. a \in Nat /\ b \in Nat /\ a < b BY DEF Covers
  <2>2. a \in a .. b - 1 BY <2>1
  <2>3. \A v \in a .. b - 1 : PlaceOf(base, x.depth + 1, v) = place /\ base \in Nat
    BY CoversPlace
  <2> QED BY <2>1, <2>2, <2>3
<1>5. x.depth + 1 \in Nat /\ x.depth \in Nat /\ x.depth + 1 <= DEPTH_BOTTOM /\ DEPTH_BOTTOM \in Nat
  BY <1>1, Constants
<1> HIDE DEF place, slot
<1>6. ASSUME NEW t, NEW M, NEW y, Reserved(s, N, t, M, other, base, DEPTH_BOTTOM, a, b), ~t.halted,
             y \in M, y.depth = x.depth + 1, y.place = place,
             r = IF c.depth < DEPTH_BOTTOM
                 THEN below[<<t, [page |-> y.page, depth |-> x.depth + 1, start |-> a, end |-> b]>>]
                 ELSE t
      PROVE  \E L : Reserved(s, N, r, L, other, base, x.depth, a, b)
  <2>1. Good(t, M, other) /\ NoLarge(t.mem, M, base, a, b) BY <1>6 DEF Reserved, NoLarge
  <2>2. \E L : Reserved(t, M, r, L, other, base, x.depth + 1, a, b)
    <3>1. CASE c.depth < DEPTH_BOTTOM
      <4>1. r = below[<<t, [page |-> y.page, depth |-> x.depth + 1, start |-> a, end |-> b]>>]
        BY <1>6, <3>1
      <4> HIDE DEF r
      <4> QED BY <1>3, <1>6, <2>1, <3>1, <4>1 DEF place, Reserves
    <3>2. CASE ~(c.depth < DEPTH_BOTTOM)
      <4>1. r = t BY <1>6, <3>2
      <4>2. x.depth + 1 + 1 .. DEPTH_BOTTOM = {} BY <1>3, <1>5, <3>2
      <4>3. Reserved(t, M, t, M, other, base, x.depth + 1, a, b) BY <2>1, <4>2 DEF Reserved
      <4> QED BY <4>1, <4>3
    <3> QED BY <3>1, <3>2
  <2> HIDE DEF r
  <2>3. PICK L : Reserved(t, M, r, L, other, base, x.depth + 1, a, b) BY <2>2
  <2>4. Good(r, L, other) /\ N \subseteq L /\ M \subseteq L /\ Leads(r.mem, L) = Leads(s.mem, N)
    BY <1>6, <2>3 DEF Reserved
  <2>5. ASSUME NEW z \in N, NEW j \in Index, Present(s.mem[z.page][j])
        PROVE  r.mem[z.page][j] = s.mem[z.page][j]
    <3>1. t.mem[z.page][j] = s.mem[z.page][j] /\ z \in M BY <1>6, <2>5 DEF Reserved
    <3> QED BY <2>3, <2>5, <3>1 DEF Reserved
  <2>6. \A p \in Memory : r.mem[p] # s.mem[p] => p \in Pages(L)
    <3>1. Pages(M) \subseteq Pages(L) BY <2>4 DEF Pages
    <3> QED BY <1>6, <2>3, <3>1 DEF Reserved
  <2>7. \A z \in L \ N : On(z, base, a, b) /\ z.page \in Pool BY <1>6, <2>3 DEF Reserved
  <2>8. ASSUME ~r.halted, NEW v \in a .. b - 1, NEW low \in x.depth + 1 .. DEPTH_BOTTOM
        PROVE  Path(L, base, low, v)
    <3>1. CASE low = x.depth + 1
      <4>1. y \in L /\ y.depth = low /\ y.place = PlaceOf(base, low, v)
        BY <1>4, <1>6, <2>4, <3>1
      <4> QED BY <4>1 DEF Path
    <3>2. CASE low # x.depth + 1
      <4>1. low \in x.depth + 1 + 1 .. DEPTH_BOTTOM BY <1>5, <3>2
      <4> QED BY <2>3, <2>8, <4>1 DEF Reserved
    <3> QED BY <3>1, <3>2
  <2>9. Reserved(s, N, r, L, other, base, x.depth, a, b)
    BY <2>4, <2>5, <2>6, <2>7, <2>8 DEF Reserved
  <2> QED BY <2>9
<1>7. DEPTH_BOTTOM + 1 .. DEPTH_BOTTOM = {} BY <1>5
<1>8. CASE Present(s.mem[x.page][i])
  <2> DEFINE y == Under(s.mem, x, i)
  <2>1. y.depth = x.depth + 1 /\ y.place = place /\ y.page = c.page BY <1>3 DEF Under, place
  <2>2. ~Maps(s.mem, x, i)
    <3> SUFFICES ASSUME Maps(s.mem, x, i) PROVE FALSE OBVIOUS
    <3>1. y \in Leads(s.mem, N) BY <1>1, EntryKinds
    <3>2. y.depth <= DEPTH_BOTTOM BY <1>5, <2>1
    <3>3. y.place = PlaceOf(base, y.depth, a) BY <1>4, <2>1
    <3> HIDE DEF y
    <3> QED BY <1>4, <3>1, <3>2, <3>3 DEF NoLarge
  <2>3. y \in N BY <1>1, <1>8, <2>2, EntryKinds
  <2>4. r = IF c.depth < DEPTH_BOTTOM
            THEN below[<<s, [page |-> y.page, depth |-> x.depth + 1, start |-> a, end |-> b]>>]
            ELSE s
    <3>1. r = IF c.depth < DEPTH_BOTTOM THEN below[<<s, [c EXCEPT !.page = c.page]>>] ELSE s
      BY <1>2, <1>8 DEF Reserve, slot
    <3> HIDE DEF r, y
    <3> QED BY <1>3, <2>1, <3>1
  <2>5. Reserved(s, N, s, N, other, base, DEPTH_BOTTOM, a, b) BY <1>7 DEF Reserved
  <2> HIDE DEF y, r
  <2> QED BY <1>6, <2>1, <2>3, <2>4, <2>5
<1>9. CASE ~Present(s.mem[x.page][i]) /\ Free(s) = {}
  <2>1. r = Halted(s) BY <1>2, <1>9 DEF Reserve, slot
  <2> HIDE DEF r
  <2>2. r \in WalkState /\ r.halted /\ r.mem = s.mem /\ r.held = s.held BY <1>1, <2>1, HaltedType
  <2>3. Good(r, N, other) BY <2>2 DEF Good
  <2>4. Reserved(s, N, r, N, other, base, x.depth, a, b) BY <2>2, <2>3 DEF Reserved
  <2> QED BY <2>4
<1>10. CASE ~Present(s.mem[x.page][i]) /\ Free(s) # {}
  <2> DEFINE p == Min(Free(s))
             t == WithTable(s, x, i)
             y == NewTable(s, x, i)
             M == N \cup {y}
  <2>0. Added(s, N, other, x, i, p, t, y) BY <1>10, AddTable
  <2>8. p \in Pool BY <1>1, <1>10, MinIsFree
  <2> HIDE DEF p, t, y
  <2>1. /\ y \notin N /\ p \in Memory
        /\ Good(t, M, other) /\ t.halted = s.halted
        /\ Leads(t.mem, M) = Leads(s.mem, N)
        /\ \A q \in Memory : q # p /\ q # x.page => t.mem[q] = s.mem[q]
        /\ \A z \in N, j \in Index :
             z # x \/ j # i => t.mem[z.page][j] = s.mem[z.page][j]
    BY <2>0 DEF Added
  <2>2. r = IF c.depth < DEPTH_BOTTOM
            THEN below[<<t, [page |-> p, depth |-> x.depth + 1, start |-> a, end |-> b]>>]
            ELSE t
    <3>1. r = IF c.depth < DEPTH_BOTTOM THEN below[<<t, [c EXCEPT !.page = p]>>] ELSE t
      <4> HIDE DEF p
      <4> QED BY <1>2, <1>10 DEF Reserve, slot, p, t, WithTable
    <3> HIDE DEF r, t, p
    <3> QED BY <1>3, <3>1
  <2> HIDE DEF r
  <2>3. y.depth = x.depth + 1 /\ y.place = place /\ y.page = p BY DEF place, NewTable, p, y
  <2>4. On(y, base, a, b) BY <1>4, <2>3 DEF On
  <2>5. Pages(M) = Pages(N) \cup {p} BY <2>3 DEF Pages
  <2>6. Reserved(s, N, t, M, other, base, DEPTH_BOTTOM, a, b)
    <3>1. \A z \in N, j \in Index :
            Present(s.mem[z.page][j]) => t.mem[z.page][j] = s.mem[z.page][j]
      BY <1>10, <2>1
    <3>2. \A q \in Memory : t.mem[q] # s.mem[q] => q \in Pages(M) BY <1>1, <2>1, <2>5
    <3>3. \A z \in M \ N : On(z, base, a, b) /\ z.page \in Pool BY <2>3, <2>4, <2>8
    <3> QED BY <1>7, <2>1, <3>1, <3>2, <3>3 DEF Reserved
  <2>7. ~t.halted /\ y \in M BY <2>1
  <2> QED BY <1>6, <2>2, <2>3, <2>6, <2>7
<1> QED BY <1>8, <1>9, <1>10

(* The loop of the reserving walk. *)
LEMMA ReserveTurns ==
  ASSUME NEW below \in Walks, NEW leaf, NEW loc \in Location, loc.depth < DEPTH_BOTTOM,
         NEW s, NEW N, NEW other, Good(s, N, other), ~s.halted,
         NEW x \in N, x.page = loc.page, x.depth = loc.depth, NEW base,
         Covers(base, loc.depth, x.place, loc.start, loc.end),
         NoLarge(s.mem, N, base, loc.start, loc.end),
         loc.depth + 1 < DEPTH_BOTTOM => Reserves(below, other, base, loc.depth + 1)
  PROVE  \E M : Reserved(s, N, Turns("reserve", s, loc, below, leaf), M, other, base,
                         loc.depth, loc.start, loc.end)
<1> DEFINE u == StartIndex(loc)
           n == EndIndex(loc) - StartIndex(loc)
           t == Turns("reserve", s, loc, below, leaf)
           turn(z, k) == Turn("reserve", z, loc, u + k, below, leaf)
<1>1. PICK cut : Cuts(loc, base, x.place, cut) BY CutsExist
<1>2. /\ u \in Nat /\ n \in Nat \ {0} /\ cut \in [0 .. n -> Nat]
      /\ cut[0] = loc.start /\ cut[n] = loc.end
      /\ \A j \in 0 .. n - 1 :
           /\ u + j \in Index
           /\ Covers(base, loc.depth + 1, x.place * ENTRIES + (u + j), cut[j], cut[j + 1])
           /\ loc.start <= cut[j] /\ cut[j + 1] <= loc.end
  BY <1>1 DEF Cuts
<1>3. "reserve" \in Visits /\ LeafValues("reserve", leaf) BY DEF Visits, LeafValues
<1>4. s \in WalkState /\ N \subseteq TableNode /\ loc.start \in Nat /\ loc.end \in Nat
  <2>1. loc.start \in Nat /\ loc.end \in Nat BY DEF Covers
  <2> QED BY <2>1, GoodTypes
<1> DEFINE Inv(k, z) == \E M : Reserved(s, N, z, M, other, base, loc.depth, loc.start, cut[k])
           I == {q \in (0 .. n) \X WalkState : Inv(q[1], q[2])}
<1>5. <<0, s>> \in I
  <2>1. Inv(0, s) BY <1>2, <1>4, ReservedNothing
  <2> HIDE DEF Inv
  <2> QED BY <1>2, <1>4, <2>1
<1>6. ASSUME NEW k \in 0 .. n - 1, NEW z \in WalkState, Inv(k, z)
      PROVE  Inv(k + 1, turn(z, k))
  <2> DEFINE i == u + k
             a == cut[k]
             b == cut[k + 1]
             next == turn(z, k)
  <2>1. PICK M : Reserved(s, N, z, M, other, base, loc.depth, loc.start, a) BY <1>6
  <2>2. /\ i \in Index /\ loc.start <= a /\ b <= loc.end
        /\ Covers(base, x.depth + 1, x.place * ENTRIES + i, a, b)
    BY <1>2
  <2>3. a \in Nat /\ b \in Nat /\ a < b BY <2>2 DEF Covers
  <2>4. next = IF z.halted THEN z
               ELSE Reserve(z, ChildAt(z.mem, x, i, a, b), <<x.page, i>>, below)
    <3>1. x \in TableNode BY <1>4
    <3>2. next = IF z.halted THEN z
                 ELSE Visit("reserve", z, ChildAt(z.mem, x, i, a, b), <<x.page, i>>, below, leaf)
      <4>1. TurnAt(loc, cut, k, i, a, b) BY DEF TurnAt
      <4> HIDE DEF i, a, b, n
      <4>2. TurnVisits("reserve", z, loc, x, i, below, leaf, a, b) BY <1>1, <3>1, <4>1, TurnIs
      <4> QED BY <4>2 DEF i, TurnVisits
    <3> HIDE DEF next
    <3> QED BY <3>2 DEF Visit
  <2>5. Good(z, M, other) /\ N \subseteq M /\ Leads(z.mem, M) = Leads(s.mem, N)
    BY <2>1 DEF Reserved
  <2> HIDE DEF a, b, i, next
  <2>6. CASE z.halted
    <3>1. Reserved(s, N, z, M, other, base, loc.depth, loc.start, b)
      BY <1>4, <2>1, <2>2, <2>3, <2>6, ReservedHalted
    <3>2. next = z BY <2>4, <2>6
    <3> QED BY <3>1, <3>2 DEF b, next
  <2>7. CASE ~z.halted
    <3>1. NoLarge(z.mem, M, base, a, b)
      <4>1. \A v \in a .. b - 1 : v \in loc.start .. loc.end - 1 BY <1>4, <2>2, <2>3
      <4> QED BY <2>5, <4>1 DEF NoLarge
    <3>3. \E L : Reserved(z, M, Reserve(z, ChildAt(z.mem, x, i, a, b), <<x.page, i>>, below),
                         L, other, base, x.depth, a, b)
      <4>1. x \in M /\ x.depth < DEPTH_BOTTOM BY <2>5
      <4> QED BY <2>2, <2>5, <2>7, <3>1, <4>1, ReserveStep
    <3>4. PICK L : Reserved(z, M, next, L, other, base, loc.depth, a, b) BY <2>4, <2>7, <3>3
    <3>5. Reserved(s, N, next, L, other, base, loc.depth, loc.start, b)
      <4>1. a <= b BY <2>3
      <4> QED BY <1>4, <2>1, <2>2, <2>3, <3>4, <4>1, ReservedBoth
    <3> QED BY <3>5 DEF b, next
  <2> QED BY <2>6, <2>7
<1>7. t \in WalkState /\ (n > 0 =>
         \A J : /\ <<0, s>> \in J
                /\ \A k \in 0 .. n - 1, z \in WalkState : <<k, z>> \in J => <<k + 1, turn(z, k)>> \in J
                => <<n, t>> \in J)
  BY <1>3, <1>4, TurnsInduction
<1>8. \A k \in 0 .. n - 1, z \in WalkState : <<k, z>> \in I => <<k + 1, turn(z, k)>> \in I
  <2> SUFFICES ASSUME NEW k \in 0 .. n - 1, NEW z \in WalkState, <<k, z>> \in I
               PROVE  <<k + 1, turn(z, k)>> \in I
    OBVIOUS
  <2>1. turn(z, k) \in WalkState
    <3>1. u + k \in Nat BY <1>2
    <3> QED BY <1>3, <3>1, TurnType
  <2>2. k + 1 \in 0 .. n BY <1>2
  <2> HIDE DEF Inv, turn
  <2>3. Inv(k, z) OBVIOUS
  <2> QED BY <1>6, <2>1, <2>2, <2>3
<1>9. <<n, t>> \in I
  <2> HIDE DEF I, t, turn, n
  <2>1. n > 0 BY <1>2
  <2> QED BY <1>5, <1>7, <1>8, <2>1
<1>10. Inv(n, t)
  <2> HIDE DEF Inv, t, n
  <2> QED BY <1>9
<1> QED BY <1>2, <1>10

(* The reserving walk, by induction on the number of levels below. *)
LEMMA ReserveWalk ==
  ASSUME NEW leaf, NEW other, NEW base, NEW depth \in 0 .. DEPTH_BOTTOM - 1
  PROVE  Reserves(ApplyNodes("reserve", leaf)[LEVELS - depth], other, base, depth)
<1> DEFINE nodes == ApplyNodes("reserve", leaf)
           Does(n) == Reserves(nodes[n], other, base, LEVELS - n)
           S == {n \in Nat : 2 <= n /\ n <= LEVELS => Does(n)}
<1>1. LEVELS \in Nat /\ DEPTH_BOTTOM = LEVELS - 1 /\ DEPTH_BOTTOM \in Nat /\ Memory \subseteq Nat
  BY Constants
<1>2. "reserve" \in Visits /\ LeafValues("reserve", leaf) BY DEF Visits, LeafValues
<1>3. /\ \A n \in 0 .. LEVELS : nodes[n] \in Walks
      /\ \A n \in 1 .. LEVELS, s \in WalkState, loc \in Location :
           nodes[n][<<s, loc>>] = Turns("reserve", s, loc, nodes[n - 1], leaf)
  BY <1>2, ApplyNodesIs
<1> HIDE DEF nodes
<1>4. 0 \in S OBVIOUS
<1>5. ASSUME NEW n \in S \cap Nat PROVE n + 1 \in S
  <2> SUFFICES ASSUME 2 <= n + 1, n + 1 <= LEVELS PROVE Does(n + 1)
    <3> HIDE DEF Does
    <3> QED OBVIOUS
  <2> DEFINE d == LEVELS - (n + 1)
  <2>1. /\ n \in 0 .. LEVELS /\ n + 1 \in 1 .. LEVELS /\ (n + 1) - 1 = n
        /\ d \in 0 .. DEPTH_BOTTOM /\ d < DEPTH_BOTTOM /\ LEVELS - n = d + 1
        /\ d + 1 < DEPTH_BOTTOM => 2 <= n
    BY <1>1
  <2>2. d + 1 < DEPTH_BOTTOM => Reserves(nodes[n], other, base, d + 1)
    <3> HIDE DEF d, Does
    <3>1. d + 1 < DEPTH_BOTTOM => Does(n) BY <1>1, <2>1
    <3> QED BY <2>1, <3>1 DEF Does
  <2>3. nodes[n] \in Walks BY <1>3, <2>1
  <2> HIDE DEF d
  <2>4. Reserves(nodes[n + 1], other, base, d)
    <3> SUFFICES ASSUME NEW s, NEW N, NEW y, NEW a, NEW b,
                        Good(s, N, other), ~s.halted, NoLarge(s.mem, N, base, a, b),
                        y \in N, y.depth = d, Covers(base, d, y.place, a, b)
                 PROVE  \E M : Reserved(s, N,
                          nodes[n + 1][<<s, [page |-> y.page, depth |-> d, start |-> a, end |-> b]>>],
                          M, other, base, d, a, b)
      BY DEF Reserves
    <3> DEFINE loc == [page |-> y.page, depth |-> d, start |-> a, end |-> b]
    <3>1. y.page \in Nat /\ s \in WalkState BY <1>1, GoodTypes
    <3>2. loc \in Location BY <2>1, <3>1, CoversLocation
    <3>3. loc.page = y.page /\ loc.depth = d /\ loc.start = a /\ loc.end = b OBVIOUS
    <3> HIDE DEF loc
    <3>4. nodes[n + 1][<<s, loc>>] = Turns("reserve", s, loc, nodes[n], leaf) BY <1>3, <2>1, <3>1, <3>2
    <3>5. \E M : Reserved(s, N, Turns("reserve", s, loc, nodes[n], leaf), M, other, base,
                          loc.depth, loc.start, loc.end)
      BY <2>1, <2>2, <2>3, <3>2, <3>3, ReserveTurns
    <3> QED BY <3>3, <3>4, <3>5 DEF loc
  <2> QED BY <2>4 DEF d
<1> HIDE DEF S
<1>6. \A n \in Nat : n \in S BY <1>4, <1>5, Induction
<1>7. LEVELS - depth \in Nat /\ 2 <= LEVELS - depth /\ LEVELS - depth <= LEVELS
      /\ LEVELS - (LEVELS - depth) = depth
  BY <1>1
<1>8. Does(LEVELS - depth)
  <2> HIDE DEF Does
  <2> QED BY <1>6, <1>7 DEF S
<1> QED BY <1>7, <1>8 DEF nodes

(* Entry i of table x is the one for an address.                           *)
EntryFor(x, i, base, v) ==
  x.depth = DEPTH_BOTTOM /\ x.place * ENTRIES + i = PlaceOf(base, LEVELS, v)

(* An entry of the last level is for one address. *)
LEMMA EntryForOne ==
  ASSUME NEW x, NEW i, NEW base \in Nat, NEW v \in Nat, NEW w \in Nat, base <= v, base <= w,
         EntryFor(x, i, base, v), EntryFor(x, i, base, w)
  PROVE  v = w
<1>1. Region(LEVELS) = 1 BY RegionIs
<1>2. (v - base) \div 1 = (w - base) \div 1 BY <1>1 DEF EntryFor, PlaceOf
<1>3. v - base \in Nat /\ w - base \in Nat OBVIOUS
<1>4. \A k \in Nat : k \div 1 = k OBVIOUS
<1>5. v - base = w - base BY <1>2, <1>3, <1>4
<1> QED BY <1>5

(* An address has one entry of the last level. *)
LEMMA EntriesForOne ==
  ASSUME NEW m \in Contents, NEW N, Tree(m, N), NEW x \in N, NEW i \in Index,
         NEW z \in N, NEW j \in Index, NEW base, NEW v,
         EntryFor(x, i, base, v), EntryFor(z, j, base, v)
  PROVE  z = x /\ j = i
<1>1. x.place \in Nat /\ z.place \in Nat BY DEF Tree, TableNode
<1>2. x.place * ENTRIES + i = z.place * ENTRIES + j BY DEF EntryFor
<1>3. x.place = z.place /\ i = j BY <1>1, <1>2, DigitsUnique
<1>4. x.depth = z.depth BY DEF EntryFor
<1> QED BY <1>3, <1>4, TreeUnique

(* What the walk that writes the leaves of [a, b) does: it writes the      *)
(* entries for the addresses of the range, and nothing else.               *)
Painted(s, t, N, base, a, b, leaf) ==
  /\ t \in WalkState /\ t.held = s.held /\ t.halted = s.halted
  /\ \A p \in Memory : p \notin Pages(N) => t.mem[p] = s.mem[p]
  /\ \A x \in N, i \in Index, v \in a .. b - 1 :
       EntryFor(x, i, base, v) => t.mem[x.page][i] = leaf[v]
  /\ \A x \in N, i \in Index :
       (\A v \in a .. b - 1 : ~EntryFor(x, i, base, v)) => t.mem[x.page][i] = s.mem[x.page][i]

LeavesValid(leaf, a, b) ==
  \A v \in a .. b - 1 : leaf[v] \in Entry /\ (Present(leaf[v]) => leaf[v].page \in Memory)

(* Writing an empty range. *)
LEMMA PaintedNothing ==
  ASSUME NEW s \in WalkState, NEW N, NEW base, NEW a \in Nat, NEW leaf
  PROVE  Painted(s, s, N, base, a, a, leaf)
<1>1. a .. a - 1 = {} OBVIOUS
<1> QED BY <1>1 DEF Painted

(* Writing two ranges, one after the other. *)
LEMMA PaintedBoth ==
  ASSUME NEW s, NEW t, NEW u, NEW N, NEW base \in Nat, NEW leaf,
         NEW a \in Nat, NEW b \in Nat, NEW c \in Nat, base <= a, a <= b, b <= c,
         Painted(s, t, N, base, a, b, leaf), Painted(t, u, N, base, b, c, leaf)
  PROVE  Painted(s, u, N, base, a, c, leaf)
<1>1. /\ a .. b - 1 \subseteq a .. c - 1 /\ b .. c - 1 \subseteq a .. c - 1
      /\ \A v \in a .. c - 1 : v \in a .. b - 1 \/ v \in b .. c - 1
      /\ \A v \in a .. c - 1 : v \in Nat /\ base <= v
      /\ \A v \in a .. b - 1, w \in b .. c - 1 : v # w
  OBVIOUS
<1>2. u \in WalkState /\ u.held = s.held /\ u.halted = s.halted
      /\ \A p \in Memory : p \notin Pages(N) => u.mem[p] = s.mem[p]
  BY DEF Painted
<1>3. ASSUME NEW x \in N, NEW i \in Index, NEW v \in a .. c - 1, EntryFor(x, i, base, v)
      PROVE  u.mem[x.page][i] = leaf[v]
  <2>1. CASE v \in b .. c - 1 BY <1>3, <2>1 DEF Painted
  <2>2. CASE v \in a .. b - 1
    <3>1. t.mem[x.page][i] = leaf[v] BY <1>3, <2>2 DEF Painted
    <3>2. \A w \in b .. c - 1 : ~EntryFor(x, i, base, w)
      BY <1>1, <1>3, <2>2, EntryForOne
    <3> QED BY <3>1, <3>2 DEF Painted
  <2> QED BY <1>1, <2>1, <2>2
<1>4. ASSUME NEW x \in N, NEW i \in Index, \A v \in a .. c - 1 : ~EntryFor(x, i, base, v)
      PROVE  u.mem[x.page][i] = s.mem[x.page][i]
  <2>1. t.mem[x.page][i] = s.mem[x.page][i] BY <1>1, <1>4 DEF Painted
  <2>2. u.mem[x.page][i] = t.mem[x.page][i] BY <1>1, <1>4 DEF Painted
  <2> QED BY <2>1, <2>2
<1> QED BY <1>2, <1>3, <1>4 DEF Painted

(* The leaves are no part of the tree. *)
LEMMA PaintedGood ==
  ASSUME NEW s, NEW N, NEW other, Good(s, N, other), NEW t, NEW base, NEW a, NEW b, NEW leaf,
         Painted(s, t, N, base, a, b, leaf), LeavesValid(leaf, a, b)
  PROVE  /\ Good(t, N, other)
         /\ \A l : l.depth <= DEPTH_BOTTOM => (l \in Leads(t.mem, N) <=> l \in Leads(s.mem, N))
<1>1. /\ s \in WalkState /\ s.mem \in Contents /\ Tree(s.mem, N)
      /\ N \subseteq TableNode /\ Pages(N) \subseteq Memory
      /\ \A z \in N : /\ z.page \in Memory /\ z.place \in Nat /\ z.depth \in 0 .. DEPTH_BOTTOM
                      /\ z.page \in Pages(N)
  BY GoodTypes
<1>2. t \in WalkState /\ t.held = s.held /\ t.mem \in Contents BY DEF Painted, WalkState, Contents
<1>3. DEPTH_BOTTOM \in Nat BY Constants
<1>4. ASSUME NEW x \in N, NEW i \in Index, x.depth # DEPTH_BOTTOM
      PROVE  t.mem[x.page][i] = s.mem[x.page][i]
  <2>1. \A v \in a .. b - 1 : ~EntryFor(x, i, base, v) BY <1>4 DEF EntryFor
  <2> QED BY <2>1 DEF Painted
<1>5. \A x \in N, i \in Index :
        /\ Links(t.mem, x, i) = Links(s.mem, x, i)
        /\ Links(s.mem, x, i) => Under(t.mem, x, i) = Under(s.mem, x, i)
  <2> SUFFICES ASSUME NEW x \in N, NEW i \in Index
               PROVE  /\ Links(t.mem, x, i) = Links(s.mem, x, i)
                      /\ Links(s.mem, x, i) => Under(t.mem, x, i) = Under(s.mem, x, i)
    OBVIOUS
  <2>1. CASE x.depth # DEPTH_BOTTOM
    <3>1. t.mem[x.page][i] = s.mem[x.page][i] BY <1>4, <2>1
    <3> QED BY <3>1 DEF Links, Under
  <2>2. CASE x.depth = DEPTH_BOTTOM
    <3>1. ~(x.depth < DEPTH_BOTTOM) BY <1>3, <2>2
    <3> QED BY <3>1 DEF Links
  <2> QED BY <2>1, <2>2
<1>6. Tree(t.mem, N)
  <2>1. N \subseteq TableNode /\ RootNode \in N /\ (\A x \in N : x.depth = 0 => x = RootNode)
        /\ \A x, y \in N : x.page = y.page => x = y
    BY <1>1 DEF Tree
  <2>2. ASSUME NEW x \in N, NEW i \in Index, Links(t.mem, x, i) PROVE Under(t.mem, x, i) \in N
    BY <1>1, <1>5, <2>2 DEF Tree
  <2>3. ASSUME NEW y \in N, y.depth # 0
        PROVE  \E x \in N, i \in Index : Links(t.mem, x, i) /\ y = Under(t.mem, x, i)
    <3>1. PICK x \in N, i \in Index : Links(s.mem, x, i) /\ y = Under(s.mem, x, i)
      BY <1>1, <2>3 DEF Tree
    <3> QED BY <1>5, <3>1
  <2>4. ASSUME NEW x \in N, NEW i \in Index, Present(t.mem[x.page][i])
        PROVE  t.mem[x.page][i].page \in Memory
    <3>1. CASE \A v \in a .. b - 1 : ~EntryFor(x, i, base, v)
      <4>1. t.mem[x.page][i] = s.mem[x.page][i] BY <3>1 DEF Painted
      <4> QED BY <1>1, <2>4, <4>1 DEF Tree
    <3>2. CASE \E v \in a .. b - 1 : EntryFor(x, i, base, v)
      <4>1. PICK v \in a .. b - 1 : EntryFor(x, i, base, v) BY <3>2
      <4>2. t.mem[x.page][i] = leaf[v] BY <4>1 DEF Painted
      <4> QED BY <2>4, <4>2 DEF LeavesValid
    <3> QED BY <3>1, <3>2
  <2> QED BY <2>1, <2>2, <2>3, <2>4 DEF Tree
<1>7. Good(t, N, other) BY <1>2, <1>6 DEF Good
<1>8. ASSUME NEW l, l.depth <= DEPTH_BOTTOM
      PROVE  l \in Leads(t.mem, N) <=> l \in Leads(s.mem, N)
  <2>1. ASSUME NEW m, NEW x \in N, NEW i \in Index, l = Under(m, x, i)
        PROVE  x.depth # DEPTH_BOTTOM
    <3>1. l.depth = x.depth + 1 BY <2>1 DEF Under
    <3> QED BY <1>1, <1>3, <1>8, <3>1
  <2>2. \A x \in N, i \in Index : x.depth # DEPTH_BOTTOM =>
          Maps(t.mem, x, i) = Maps(s.mem, x, i) /\ Under(t.mem, x, i) = Under(s.mem, x, i)
    BY <1>4 DEF Maps, Under
  <2>3. ASSUME l \in Leads(t.mem, N) PROVE l \in Leads(s.mem, N)
    <3>1. PICK x \in N, i \in Index : Maps(t.mem, x, i) /\ l = Under(t.mem, x, i)
      BY <1>2, <1>6, <2>3, LeadsAre
    <3>2. x.depth # DEPTH_BOTTOM BY <2>1, <3>1
    <3> QED BY <1>1, <2>2, <3>1, <3>2, LeadsAre
  <2>4. ASSUME l \in Leads(s.mem, N) PROVE l \in Leads(t.mem, N)
    <3>1. PICK x \in N, i \in Index : Maps(s.mem, x, i) /\ l = Under(s.mem, x, i)
      BY <1>1, <2>4, LeadsAre
    <3>2. x.depth # DEPTH_BOTTOM BY <2>1, <3>1
    <3> QED BY <1>2, <1>6, <2>2, <3>1, <3>2, LeadsAre
  <2> QED BY <2>3, <2>4
<1> QED BY <1>7, <1>8

(* There are tables for all addresses of [a, b), below a depth. *)
Paths(N, base, depth, a, b) ==
  \A v \in a .. b - 1, low \in depth + 1 .. DEPTH_BOTTOM : Path(N, base, low, v)

(* Tables for a range are tables for the parts of it, and below. *)
LEMMA PathsBelow ==
  ASSUME NEW N, NEW base, NEW depth \in Nat, NEW a \in Nat, NEW b \in Nat,
         NEW c \in Nat, NEW d \in Nat, a <= c, d <= b, Paths(N, base, depth, a, b)
  PROVE  Paths(N, base, depth, c, d) /\ Paths(N, base, depth + 1, c, d)
<1>1. c .. d - 1 \subseteq a .. b - 1 OBVIOUS
<1>2. DEPTH_BOTTOM \in Nat BY Constants
<1>3. depth + 1 + 1 .. DEPTH_BOTTOM \subseteq depth + 1 .. DEPTH_BOTTOM BY <1>2
<1> QED BY <1>1, <1>3 DEF Paths

Paints(walk, other, base, depth, leaf) ==
  \A s, N, y, a, b :
    /\ Good(s, N, other) /\ ~s.halted /\ Paths(N, base, depth, a, b) /\ LeavesValid(leaf, a, b)
    /\ y \in N /\ y.depth = depth /\ Covers(base, depth, y.place, a, b)
    => Painted(s, walk[<<s, [page |-> y.page, depth |-> depth, start |-> a, end |-> b]>>],
               N, base, a, b, leaf)

(* node_callback_leaf, when the walk below does what it should. *)
LEMMA PaintStep ==
  ASSUME NEW s, NEW N, NEW other, Good(s, N, other), ~s.halted,
         NEW x \in N, NEW i \in Index, NEW base, NEW a, NEW b, NEW place,
         place = x.place * ENTRIES + i, Covers(base, x.depth + 1, place, a, b),
         Paths(N, base, x.depth, a, b),
         NEW leaf, LeavesValid(leaf, a, b), NEW below,
         x.depth < DEPTH_BOTTOM => Paints(below, other, base, x.depth + 1, leaf)
  PROVE  Painted(s, Leaf(s, ChildAt(s.mem, x, i, a, b), <<x.page, i>>, below, leaf),
                 N, base, a, b, leaf)
<1> DEFINE c == ChildAt(s.mem, x, i, a, b)
           slot == <<x.page, i>>
           r == Leaf(s, c, slot, below, leaf)
<1> SUFFICES Painted(s, r, N, base, a, b, leaf) OBVIOUS
<1>1. /\ s \in WalkState /\ s.mem \in Contents /\ Tree(s.mem, N)
      /\ N \subseteq TableNode /\ Pages(N) \subseteq Memory
      /\ \A z \in N : /\ z.page \in Memory /\ z.place \in Nat /\ z.depth \in 0 .. DEPTH_BOTTOM
                      /\ z.page \in Pages(N)
  BY GoodTypes
<1>2. DEPTH_BOTTOM \in Nat /\ LEVELS = DEPTH_BOTTOM + 1 /\ x.depth \in Nat /\ x.depth <= DEPTH_BOTTOM
  BY <1>1, Constants
<1>3. c = [page |-> s.mem[x.page][i].page, depth |-> x.depth + 1, start |-> a, end |-> b]
  BY DEF ChildAt
<1> HIDE DEF c
<1>4. /\ a \in Nat /\ b \in Nat /\ base \in Nat /\ a < b /\ a \in a .. b - 1
      /\ \A v \in a .. b - 1 : PlaceOf(base, x.depth + 1, v) = place
  <2>1. a \in Nat /\ b \in Nat /\ a < b BY DEF Covers
  <2>2. a \in a .. b - 1 BY <2>1
  <2>3. \A v \in a .. b - 1 : PlaceOf(base, x.depth + 1, v) = place /\ base \in Nat
    <3> HIDE DEF r
    <3> QED BY CoversPlace
  <2> QED BY <2>1, <2>2, <2>3
<1>5. CASE x.depth < DEPTH_BOTTOM
  <2>1. r = below[<<s, c>>]
    <3>1. c.depth <= DEPTH_BOTTOM BY <1>2, <1>3, <1>5
    <3> QED BY <3>1 DEF Leaf
  <2> HIDE DEF r
  <2>2. PICK y \in N : y.depth = x.depth + 1 /\ y.place = PlaceOf(base, x.depth + 1, a)
    <3>1. x.depth + 1 \in x.depth + 1 .. DEPTH_BOTTOM BY <1>2, <1>5
    <3>2. Path(N, base, x.depth + 1, a) BY <1>4, <3>1 DEF Paths
    <3> QED BY <3>2 DEF Path
  <2>3. y.place = place BY <1>4, <2>2
  <2>4. y = Under(s.mem, x, i)
    <3>1. y.place = x.place * ENTRIES + i BY <2>3
    <3> QED BY <1>1, <2>2, <3>1, TreeParent
  <2>5. c = [page |-> y.page, depth |-> x.depth + 1, start |-> a, end |-> b]
    BY <1>3, <2>4 DEF Under
  <2>6. Paths(N, base, x.depth + 1, a, b)
    <3>1. a <= a /\ b <= b BY <1>4
    <3> QED BY <1>2, <1>4, <3>1, PathsBelow
  <2>7. Covers(base, x.depth + 1, y.place, a, b) BY <2>3
  <2>8. Paints(below, other, base, x.depth + 1, leaf) BY <1>5
  <2> QED BY <2>1, <2>2, <2>5, <2>6, <2>7, <2>8 DEF Paints
<1>6. CASE x.depth = DEPTH_BOTTOM
  <2>1. r = Write(s, slot, leaf[a])
    <3>1. ~(c.depth <= DEPTH_BOTTOM) /\ c.start = a BY <1>2, <1>3, <1>6
    <3> QED BY <3>1 DEF Leaf
  <2> HIDE DEF r
  <2>2. leaf[a] \in Entry BY <1>4 DEF LeavesValid
  <2>3. slot \in Memory \X Index /\ slot[1] = x.page /\ slot[2] = i BY <1>1
  <2>4. /\ r \in WalkState /\ r.held = s.held /\ r.halted = s.halted
        /\ r.mem = [s.mem EXCEPT ![x.page][i] = leaf[a]]
    <3> HIDE DEF slot
    <3> QED BY <1>1, <2>1, <2>2, <2>3, WriteType
  <2>5. /\ r.mem[x.page][i] = leaf[a]
        /\ \A q \in Memory : q # x.page => r.mem[q] = s.mem[q]
        /\ \A j \in Index : j # i => r.mem[x.page][j] = s.mem[x.page][j]
    <3>1. s.mem \in [Memory -> [Index -> Entry]] /\ x.page \in Memory
          /\ s.mem[x.page] \in [Index -> Entry]
      BY <1>1 DEF WalkState
    <3> QED BY <2>4, <3>1
  <2>6. \A v \in a .. b - 1 : v = a
    <3>1. Region(x.depth + 1) = 1 BY <1>2, <1>6, RegionIs
    <3>2. base + place * 1 <= a /\ b <= base + place * 1 + 1 /\ place \in Nat BY <3>1 DEF Covers
    <3> QED BY <1>4, <3>2
  <2>7. EntryFor(x, i, base, a) BY <1>2, <1>4, <1>6 DEF EntryFor
  <2>8. \A z \in N, j \in Index, v \in a .. b - 1 :
          EntryFor(z, j, base, v) => r.mem[z.page][j] = leaf[v]
    BY <1>1, <2>5, <2>6, <2>7, EntriesForOne
  <2>9. ASSUME NEW z \in N, NEW j \in Index, \A v \in a .. b - 1 : ~EntryFor(z, j, base, v)
        PROVE  r.mem[z.page][j] = s.mem[z.page][j]
    <3>1. z # x \/ j # i BY <1>4, <2>7, <2>9
    <3>2. z.page = x.page => z = x BY <1>1 DEF Tree
    <3> QED BY <1>1, <2>5, <3>1, <3>2
  <2>10. \A p \in Memory : p \notin Pages(N) => r.mem[p] = s.mem[p] BY <1>1, <2>5
  <2> QED BY <2>4, <2>8, <2>9, <2>10 DEF Painted
<1> QED BY <1>2, <1>5, <1>6

(* The loop of the writing walk. *)
LEMMA PaintTurns ==
  ASSUME NEW below \in Walks, NEW leaf, LeafValues("leaf", leaf), NEW loc \in Location,
         NEW s, NEW N, NEW other, Good(s, N, other), ~s.halted,
         NEW x \in N, x.page = loc.page, x.depth = loc.depth, NEW base,
         Covers(base, loc.depth, x.place, loc.start, loc.end),
         Paths(N, base, loc.depth, loc.start, loc.end),
         LeavesValid(leaf, loc.start, loc.end),
         loc.depth < DEPTH_BOTTOM => Paints(below, other, base, loc.depth + 1, leaf)
  PROVE  Painted(s, Turns("leaf", s, loc, below, leaf), N, base, loc.start, loc.end, leaf)
<1> DEFINE u == StartIndex(loc)
           n == EndIndex(loc) - StartIndex(loc)
           t == Turns("leaf", s, loc, below, leaf)
           turn(z, k) == Turn("leaf", z, loc, u + k, below, leaf)
<1>1. PICK cut : Cuts(loc, base, x.place, cut) BY CutsExist
<1>2. /\ u \in Nat /\ n \in Nat \ {0} /\ cut \in [0 .. n -> Nat]
      /\ cut[0] = loc.start /\ cut[n] = loc.end
      /\ \A j \in 0 .. n - 1 :
           /\ u + j \in Index
           /\ Covers(base, loc.depth + 1, x.place * ENTRIES + (u + j), cut[j], cut[j + 1])
           /\ loc.start <= cut[j] /\ cut[j + 1] <= loc.end
  BY <1>1 DEF Cuts
<1>3. "leaf" \in Visits BY DEF Visits
<1>4. s \in WalkState /\ N \subseteq TableNode /\ loc.start \in Nat /\ loc.end \in Nat
      /\ loc.depth \in Nat /\ base \in Nat /\ base <= loc.start
  <2>1. loc.start \in Nat /\ loc.end \in Nat /\ loc.start < loc.end BY DEF Covers
  <2>2. loc.depth \in Nat BY Constants DEF Location
  <2>3. loc.start \in loc.start .. loc.end - 1 BY <2>1
  <2>4. base \in Nat /\ base <= loc.start BY <2>3, CoversPlace
  <2> QED BY <2>1, <2>2, <2>4, GoodTypes
<1> DEFINE Inv(k, z) == Painted(s, z, N, base, loc.start, cut[k], leaf)
           I == {q \in (0 .. n) \X WalkState : Inv(q[1], q[2])}
<1>5. <<0, s>> \in I
  <2>1. Inv(0, s) BY <1>2, <1>4, PaintedNothing
  <2> HIDE DEF Inv
  <2> QED BY <1>2, <1>4, <2>1
<1>6. ASSUME NEW k \in 0 .. n - 1, NEW z \in WalkState, Inv(k, z)
      PROVE  Inv(k + 1, turn(z, k))
  <2> DEFINE i == u + k
             a == cut[k]
             b == cut[k + 1]
             place == x.place * ENTRIES + i
             next == turn(z, k)
  <2>1. Painted(s, z, N, base, loc.start, a, leaf) BY <1>6
  <2>2. /\ i \in Index /\ loc.start <= a /\ b <= loc.end
        /\ Covers(base, x.depth + 1, place, a, b)
    BY <1>2
  <2>3. a \in Nat /\ b \in Nat /\ a < b BY <2>2 DEF Covers
  <2>4. TurnVisits("leaf", z, loc, x, i, below, leaf, a, b)
    <3>1. x \in TableNode BY <1>4
    <3>2. TurnAt(loc, cut, k, i, a, b) BY DEF TurnAt
    <3> HIDE DEF i, a, b, n
    <3> QED BY <1>1, <3>1, <3>2, TurnIs
  <2>5. ~z.halted BY <2>1 DEF Painted
  <2>6. next = Leaf(z, ChildAt(z.mem, x, i, a, b), <<x.page, i>>, below, leaf)
    <3> HIDE DEF a, b
    <3> QED BY <2>4, <2>5 DEF TurnVisits, Visit
  <2> HIDE DEF a, b, i, next, place
  <2>7. LeavesValid(leaf, loc.start, a) /\ LeavesValid(leaf, a, b)
    <3>1. \A v \in a .. b - 1 : v \in loc.start .. loc.end - 1 BY <1>4, <2>2, <2>3
    <3>2. \A v \in loc.start .. a - 1 : v \in loc.start .. loc.end - 1 BY <1>4, <2>2, <2>3
    <3> QED BY <3>1, <3>2 DEF LeavesValid
  <2>8. Good(z, N, other) BY <2>1, <2>7, PaintedGood
  <2>9. Paths(N, base, x.depth, a, b) BY <1>4, <2>2, <2>3, PathsBelow
  <2>10. Painted(z, Leaf(z, ChildAt(z.mem, x, i, a, b), <<x.page, i>>, below, leaf),
                 N, base, a, b, leaf)
    <3>1. place = x.place * ENTRIES + i BY DEF place
    <3>2. x.depth < DEPTH_BOTTOM => Paints(below, other, base, x.depth + 1, leaf) OBVIOUS
    <3> QED BY <2>2, <2>5, <2>7, <2>8, <2>9, <3>1, <3>2, PaintStep
  <2>11. Painted(s, next, N, base, loc.start, b, leaf)
    <3>1. a <= b BY <2>3
    <3> QED BY <1>4, <2>1, <2>2, <2>3, <2>6, <2>10, <3>1, PaintedBoth
  <2> QED BY <2>11 DEF b, next
<1>7. t \in WalkState /\ (n > 0 =>
         \A J : /\ <<0, s>> \in J
                /\ \A k \in 0 .. n - 1, z \in WalkState : <<k, z>> \in J => <<k + 1, turn(z, k)>> \in J
                => <<n, t>> \in J)
  BY <1>3, <1>4, TurnsInduction
<1>8. \A k \in 0 .. n - 1, z \in WalkState : <<k, z>> \in I => <<k + 1, turn(z, k)>> \in I
  <2> SUFFICES ASSUME NEW k \in 0 .. n - 1, NEW z \in WalkState, <<k, z>> \in I
               PROVE  <<k + 1, turn(z, k)>> \in I
    OBVIOUS
  <2>1. turn(z, k) \in WalkState
    <3>1. u + k \in Nat BY <1>2
    <3> QED BY <1>3, <3>1, TurnType
  <2>2. k + 1 \in 0 .. n BY <1>2
  <2> HIDE DEF Inv, turn
  <2>3. Inv(k, z) OBVIOUS
  <2> QED BY <1>6, <2>1, <2>2, <2>3
<1>9. <<n, t>> \in I
  <2> HIDE DEF I, t, turn, n
  <2>1. n > 0 BY <1>2
  <2> QED BY <1>5, <1>7, <1>8, <2>1
<1>10. Inv(n, t)
  <2> HIDE DEF Inv, t, n
  <2> QED BY <1>9
<1> QED BY <1>2, <1>10

(* The writing walk, by induction on the number of levels below. *)
LEMMA PaintWalk ==
  ASSUME NEW leaf, LeafValues("leaf", leaf), NEW other, NEW base, NEW depth \in 0 .. DEPTH_BOTTOM
  PROVE  Paints(ApplyNodes("leaf", leaf)[LEVELS - depth], other, base, depth, leaf)
<1> DEFINE nodes == ApplyNodes("leaf", leaf)
           Does(n) == Paints(nodes[n], other, base, LEVELS - n, leaf)
           S == {n \in Nat : 1 <= n /\ n <= LEVELS => Does(n)}
<1>1. LEVELS \in Nat /\ DEPTH_BOTTOM = LEVELS - 1 /\ DEPTH_BOTTOM \in Nat /\ Memory \subseteq Nat
  BY Constants
<1>2. "leaf" \in Visits BY DEF Visits
<1>3. /\ \A n \in 0 .. LEVELS : nodes[n] \in Walks
      /\ \A n \in 1 .. LEVELS, s \in WalkState, loc \in Location :
           nodes[n][<<s, loc>>] = Turns("leaf", s, loc, nodes[n - 1], leaf)
  BY <1>2, ApplyNodesIs
<1> HIDE DEF nodes
<1>4. 0 \in S OBVIOUS
<1>5. ASSUME NEW n \in S \cap Nat PROVE n + 1 \in S
  <2> SUFFICES ASSUME 1 <= n + 1, n + 1 <= LEVELS PROVE Does(n + 1)
    <3> HIDE DEF Does
    <3> QED OBVIOUS
  <2> DEFINE d == LEVELS - (n + 1)
  <2>1. /\ n \in 0 .. LEVELS /\ n + 1 \in 1 .. LEVELS /\ (n + 1) - 1 = n
        /\ d \in 0 .. DEPTH_BOTTOM /\ LEVELS - n = d + 1
        /\ d < DEPTH_BOTTOM => 1 <= n
    BY <1>1
  <2>2. d < DEPTH_BOTTOM => Paints(nodes[n], other, base, d + 1, leaf)
    <3> HIDE DEF d, Does
    <3>1. d < DEPTH_BOTTOM => Does(n) BY <1>1, <2>1
    <3> QED BY <2>1, <3>1 DEF Does
  <2>3. nodes[n] \in Walks BY <1>3, <2>1
  <2> HIDE DEF d
  <2>4. Paints(nodes[n + 1], other, base, d, leaf)
    <3> SUFFICES ASSUME NEW s, NEW N, NEW y, NEW a, NEW b,
                        Good(s, N, other), ~s.halted, Paths(N, base, d, a, b),
                        LeavesValid(leaf, a, b),
                        y \in N, y.depth = d, Covers(base, d, y.place, a, b)
                 PROVE  Painted(s,
                          nodes[n + 1][<<s, [page |-> y.page, depth |-> d, start |-> a, end |-> b]>>],
                          N, base, a, b, leaf)
      BY DEF Paints
    <3> DEFINE loc == [page |-> y.page, depth |-> d, start |-> a, end |-> b]
    <3>1. y.page \in Nat /\ s \in WalkState BY <1>1, GoodTypes
    <3>2. loc \in Location BY <2>1, <3>1, CoversLocation
    <3>3. loc.page = y.page /\ loc.depth = d /\ loc.start = a /\ loc.end = b OBVIOUS
    <3> HIDE DEF loc
    <3>4. nodes[n + 1][<<s, loc>>] = Turns("leaf", s, loc, nodes[n], leaf) BY <1>3, <2>1, <3>1, <3>2
    <3>5. Painted(s, Turns("leaf", s, loc, nodes[n], leaf), N, base, loc.start, loc.end, leaf)
      BY <2>1, <2>2, <2>3, <3>2, <3>3, PaintTurns
    <3> QED BY <3>3, <3>4, <3>5 DEF loc
  <2> QED BY <2>4 DEF d
<1> HIDE DEF S
<1>6. \A n \in Nat : n \in S BY <1>4, <1>5, Induction
<1>7. LEVELS - depth \in Nat /\ 1 <= LEVELS - depth /\ LEVELS - depth <= LEVELS
      /\ LEVELS - (LEVELS - depth) = depth
  BY <1>1
<1>8. Does(LEVELS - depth)
  <2> HIDE DEF Does
  <2> QED BY <1>6, <1>7 DEF S
<1> QED BY <1>7, <1>8 DEF nodes

(* The tables above one for an address. *)
LEMMA PathAbove ==
  ASSUME NEW m \in Contents, NEW N, Tree(m, N), NEW base \in Nat, NEW v \in Nat, base <= v,
         NEW y \in N, y.place = PlaceOf(base, y.depth, v), NEW depth \in Nat, depth <= y.depth
  PROVE  Path(N, base, depth, v)
<1> DEFINE S == {n \in Nat : n <= y.depth => Path(N, base, y.depth - n, v)}
<1>1. N \subseteq TableNode /\ DEPTH_BOTTOM \in Nat BY Constants DEF Tree
<1>2. y.depth \in 0 .. DEPTH_BOTTOM BY <1>1 DEF TableNode
<1>3. 0 \in S
  <2>1. y.depth - 0 = y.depth BY <1>2
  <2> QED BY <2>1 DEF Path
<1>4. ASSUME NEW n \in S \cap Nat PROVE n + 1 \in S
  <2> SUFFICES ASSUME n + 1 <= y.depth PROVE Path(N, base, y.depth - (n + 1), v) OBVIOUS
  <2> DEFINE d == y.depth - (n + 1)
  <2>1. d \in 0 .. DEPTH_BOTTOM /\ d + 1 = y.depth - n /\ d + 1 # 0 /\ n <= y.depth BY <1>1, <1>2
  <2>2. Path(N, base, d + 1, v) BY <2>1
  <2> HIDE DEF d
  <2>3. PICK z \in N : z.depth = d + 1 /\ z.place = PlaceOf(base, d + 1, v) BY <2>2 DEF Path
  <2>4. PICK x \in N, i \in Index : z = Under(m, x, i) BY <2>1, <2>3 DEF Tree
  <2>5. z.place = x.place * ENTRIES + i /\ z.depth = x.depth + 1 BY <2>4 DEF Under
  <2>6. x.place \in Nat /\ x.depth \in Nat BY <1>1, Constants DEF TableNode
  <2>7. x.depth = d BY <2>1, <2>3, <2>5, <2>6
  <2>8. (x.place * ENTRIES + i) \div ENTRIES = x.place BY <2>6, Digits
  <2>9. PlaceOf(base, d, v) = PlaceOf(base, d + 1, v) \div ENTRIES BY <2>1, PlaceAbove
  <2>10. x.place = PlaceOf(base, d, v) BY <2>3, <2>5, <2>8, <2>9
  <2>11. Path(N, base, d, v) BY <2>7, <2>10 DEF Path
  <2> QED BY <2>11 DEF d
<1> HIDE DEF S
<1>5. \A n \in Nat : n \in S BY <1>3, <1>4, Induction
<1>6. y.depth - depth \in S /\ y.depth - depth <= y.depth /\ y.depth - (y.depth - depth) = depth
  BY <1>2, <1>5
<1> QED BY <1>6 DEF S

(* Entry j of a table is one for an address of [a, b); so is its table.    *)
EntryOn(z, j, base, a, b) ==
  \E v \in a .. b - 1 : z.place * ENTRIES + j = PlaceOf(base, z.depth + 1, v)

(* The table of an entry for a range is one for the range. *)
LEMMA EntryOnTable ==
  ASSUME NEW z \in TableNode, NEW j \in Index, NEW base \in Nat, NEW a \in Nat, NEW b \in Nat,
         base <= a, EntryOn(z, j, base, a, b)
  PROVE  On(z, base, a, b)
<1>1. PICK v \in a .. b - 1 : z.place * ENTRIES + j = PlaceOf(base, z.depth + 1, v) BY DEF EntryOn
<1>2. v \in Nat /\ base <= v OBVIOUS
<1>3. z.place \in Nat /\ z.depth \in 0 .. DEPTH_BOTTOM BY DEF TableNode
<1>4. (z.place * ENTRIES + j) \div ENTRIES = z.place BY <1>3, Digits
<1>5. PlaceOf(base, z.depth, v) = PlaceOf(base, z.depth + 1, v) \div ENTRIES
  BY <1>2, <1>3, PlaceAbove
<1>6. z.place = PlaceOf(base, z.depth, v) BY <1>1, <1>4, <1>5
<1> QED BY <1>6 DEF On

(* What the collecting walk of [a, b) below a depth does: it takes out     *)
(* tables for addresses of the range, all that are empty unless one was    *)
(* not allocated, and nothing else.                                        *)
Collected(s, N, t, M, other, base, depth, a, b) ==
  /\ Good(t, M, other) /\ M \subseteq N /\ (s.halted => t.halted)
  /\ Leads(t.mem, M) = Leads(s.mem, N)
  /\ \A p \in Memory : t.mem[p] # s.mem[p] => p \in Pages(N)
  /\ \A y \in N \ M : y.depth > depth /\ On(y, base, a, b)
  /\ \A z \in N, j \in Index :
       t.mem[z.page][j] # s.mem[z.page][j] => z.depth >= depth /\ EntryOn(z, j, base, a, b)
  /\ ~t.halted => \A y \in M : y.depth > depth /\ On(y, base, a, b) => ~Empty(t, y.page)

(* Collecting over an empty range. *)
LEMMA CollectedNothing ==
  ASSUME NEW s, NEW N, NEW other, Good(s, N, other), NEW base, NEW depth, NEW a \in Nat
  PROVE  Collected(s, N, s, N, other, base, depth, a, a)
<1>1. a .. a - 1 = {} OBVIOUS
<1>2. \A y : ~On(y, base, a, a) BY <1>1 DEF On
<1> QED BY <1>2 DEF Collected

(* Collecting that has stopped has stopped for the rest of the range. *)
LEMMA CollectedHalted ==
  ASSUME NEW s, NEW N, NEW t, NEW M, NEW other, NEW base, NEW depth,
         NEW a \in Nat, NEW b \in Nat, NEW c \in Nat, b <= c,
         Collected(s, N, t, M, other, base, depth, a, b), t.halted
  PROVE  Collected(s, N, t, M, other, base, depth, a, c)
<1>1. a .. b - 1 \subseteq a .. c - 1 OBVIOUS
<1>2. \A y : On(y, base, a, b) => On(y, base, a, c) BY <1>1 DEF On
<1>3. \A z, j : EntryOn(z, j, base, a, b) => EntryOn(z, j, base, a, c) BY <1>1 DEF EntryOn
<1> QED BY <1>2, <1>3 DEF Collected

(* Collecting over two ranges, one after the other. *)
LEMMA CollectedBoth ==
  ASSUME NEW s, NEW N, NEW t, NEW M, NEW u, NEW L, NEW other, NEW base \in Nat, NEW depth,
         NEW a \in Nat, NEW b \in Nat, NEW c \in Nat, base <= a, a <= b, b <= c,
         Good(s, N, other),
         Collected(s, N, t, M, other, base, depth, a, b),
         Collected(t, M, u, L, other, base, depth, b, c)
  PROVE  Collected(s, N, u, L, other, base, depth, a, c)
<1>1. /\ a .. b - 1 \subseteq a .. c - 1 /\ b .. c - 1 \subseteq a .. c - 1
      /\ \A v \in a .. c - 1 : v \in a .. b - 1 \/ v \in b .. c - 1
      /\ base <= b
  OBVIOUS
<1>2. Good(u, L, other) /\ Good(t, M, other) /\ L \subseteq M /\ M \subseteq N
      /\ (s.halted => u.halted) /\ Leads(u.mem, L) = Leads(s.mem, N)
  BY DEF Collected
<1>3. \A p \in Memory : u.mem[p] # s.mem[p] => p \in Pages(N)
  <2>1. Pages(M) \subseteq Pages(N) BY <1>2 DEF Pages
  <2> QED BY <2>1 DEF Collected
<1>4. \A y : On(y, base, a, b) => On(y, base, a, c) BY <1>1 DEF On
<1>5. \A y : On(y, base, b, c) => On(y, base, a, c) BY <1>1 DEF On
<1>6. \A y : On(y, base, a, c) => On(y, base, a, b) \/ On(y, base, b, c) BY <1>1 DEF On
<1>7. \A z, j : EntryOn(z, j, base, a, b) \/ EntryOn(z, j, base, b, c) => EntryOn(z, j, base, a, c)
  BY <1>1 DEF EntryOn
<1>8. ASSUME NEW y \in N \ L PROVE y.depth > depth /\ On(y, base, a, c)
  <2>1. CASE y \in M BY <1>5, <2>1 DEF Collected
  <2>2. CASE y \notin M BY <1>4, <2>2 DEF Collected
  <2> QED BY <2>1, <2>2
<1>9. ASSUME NEW z \in N, NEW j \in Index, u.mem[z.page][j] # s.mem[z.page][j]
      PROVE  z.depth >= depth /\ EntryOn(z, j, base, a, c)
  <2>1. CASE t.mem[z.page][j] # s.mem[z.page][j] BY <1>7, <2>1 DEF Collected
  <2>2. CASE t.mem[z.page][j] = s.mem[z.page][j]
    <3>1. u.mem[z.page][j] # t.mem[z.page][j] BY <1>9, <2>2
    <3>2. CASE z \in M BY <1>7, <3>1, <3>2 DEF Collected
    <3>3. CASE z \notin M
      <4>1. z.page \in Memory BY GoodTypes
      <4>2. z.page \in Pages(M) BY <3>1, <4>1 DEF Collected
      <4>3. PICK w \in M : w.page = z.page BY <4>2 DEF Pages
      <4>4. \A q \in N : q.page = z.page => q = z BY DEF Good, Tree
      <4>5. w = z BY <1>2, <4>3, <4>4
      <4> QED BY <3>3, <4>5
    <3> QED BY <3>2, <3>3
  <2> QED BY <2>1, <2>2
<1>10. ASSUME ~u.halted, NEW y \in L, y.depth > depth, On(y, base, a, c)
       PROVE  ~Empty(u, y.page)
  <2>1. CASE On(y, base, b, c) BY <1>10, <2>1 DEF Collected
  <2>2. CASE ~On(y, base, b, c)
    <3>1. y \in M /\ y \in TableNode BY <1>2, GoodTypes
    <3>2. ~t.halted BY <1>10 DEF Collected
    <3>3. ~Empty(t, y.page) BY <1>6, <1>10, <2>2, <3>1, <3>2 DEF Collected
    <3>4. \A j \in Index : u.mem[y.page][j] = t.mem[y.page][j]
      <4>1. \A j \in Index : ~EntryOn(y, j, base, b, c) BY <1>1, <2>2, <3>1, EntryOnTable
      <4> QED BY <3>1, <4>1 DEF Collected
    <3> QED BY <3>3, <3>4 DEF Empty
  <2> QED BY <2>1, <2>2
<1> QED BY <1>2, <1>3, <1>8, <1>9, <1>10 DEF Collected

(* The walk of tables at a depth does so. *)
Collects(walk, other, base, depth) ==
  \A s, N, y, a, b :
    /\ Good(s, N, other) /\ ~s.halted /\ NoLarge(s.mem, N, base, a, b)
    /\ y \in N /\ y.depth = depth /\ Covers(base, depth, y.place, a, b)
    => \E M : Collected(s, N, walk[<<s, [page |-> y.page, depth |-> depth, start |-> a, end |-> b]>>],
                      M, other, base, depth, a, b)

(* No table below an entry that leads to none. *)
LEMMA NothingBelow ==
  ASSUME NEW m \in Contents, NEW N, Tree(m, N), NEW x \in N, NEW i \in Index,
         NEW base \in Nat, NEW a \in Nat, NEW b \in Nat, base <= a,
         \A v \in a .. b - 1 : PlaceOf(base, x.depth + 1, v) = x.place * ENTRIES + i,
         NEW y \in N, y.depth > x.depth, On(y, base, a, b)
  PROVE  /\ Links(m, x, i)
         /\ y.depth = x.depth + 1 => y = Under(m, x, i)
<1>1. PICK v \in a .. b - 1 : y.place = PlaceOf(base, y.depth, v) BY DEF On
<1>2. v \in Nat /\ base <= v OBVIOUS
<1>3. x.depth \in Nat /\ y.depth \in Nat BY Constants DEF Tree, TableNode
<1>4. x.depth + 1 \in Nat /\ x.depth + 1 <= y.depth BY <1>3
<1>5. Path(N, base, x.depth + 1, v) BY <1>1, <1>2, <1>4, PathAbove
<1>6. PICK z \in N : z.depth = x.depth + 1 /\ z.place = PlaceOf(base, x.depth + 1, v)
  BY <1>5 DEF Path
<1>7. z.place = x.place * ENTRIES + i BY <1>6
<1>8. Links(m, x, i) /\ z = Under(m, x, i) BY <1>6, <1>7, TreeParent
<1>9. ASSUME y.depth = x.depth + 1 PROVE y = Under(m, x, i)
  <2>1. y.place = z.place BY <1>1, <1>6, <1>9
  <2>2. y = z BY <1>6, <1>9, <2>1, TreeUnique
  <2> QED BY <1>8, <2>2
<1> QED BY <1>8, <1>9

(* node_callback_gc, when the walk below does what it should. *)
LEMMA CollectStep ==
  ASSUME NEW s, NEW N, NEW other, Good(s, N, other), ~s.halted,
         NEW x \in N, x.depth < DEPTH_BOTTOM, NEW i \in Index, NEW base, NEW a, NEW b,
         NEW place, place = x.place * ENTRIES + i, Covers(base, x.depth + 1, place, a, b),
         NoLarge(s.mem, N, base, a, b), NEW below,
         x.depth + 1 < DEPTH_BOTTOM => Collects(below, other, base, x.depth + 1)
  PROVE  \E M : Collected(s, N, Gc(s, ChildAt(s.mem, x, i, a, b), <<x.page, i>>, below),
                          M, other, base, x.depth, a, b)
<1> DEFINE c == ChildAt(s.mem, x, i, a, b)
           slot == <<x.page, i>>
           t == IF c.depth < DEPTH_BOTTOM THEN below[<<s, c>>] ELSE s
           y == Under(s.mem, x, i)
           r == Gc(s, c, slot, below)
<1> SUFFICES \E M : Collected(s, N, r, M, other, base, x.depth, a, b) OBVIOUS
<1>1. /\ s \in WalkState /\ s.mem \in Contents /\ Tree(s.mem, N)
      /\ N \subseteq TableNode /\ Pages(N) \subseteq Memory
      /\ \A z \in N : /\ z.page \in Memory /\ z.place \in Nat /\ z.depth \in 0 .. DEPTH_BOTTOM
                      /\ z.page \in Pages(N)
  BY GoodTypes
<1>2. DEPTH_BOTTOM \in Nat /\ x.depth \in Nat /\ x.depth + 1 <= DEPTH_BOTTOM BY <1>1, Constants
<1>3. Read(s, slot) = s.mem[x.page][i] BY DEF Read
<1>4. c = [page |-> s.mem[x.page][i].page, depth |-> x.depth + 1, start |-> a, end |-> b]
      /\ c.page = y.page /\ c.depth = x.depth + 1
  BY DEF ChildAt, Under
<1> HIDE DEF c
<1>5. /\ a \in Nat /\ b \in Nat /\ base \in Nat /\ a < b /\ base <= a /\ a \in a .. b - 1
      /\ \A v \in a .. b - 1 : PlaceOf(base, x.depth + 1, v) = place
  <2>1. a \in Nat /\ b \in Nat /\ a < b BY DEF Covers
  <2>2. a \in a .. b - 1 BY <2>1
  <2>3. /\ \A v \in a .. b - 1 : PlaceOf(base, x.depth + 1, v) = place
        /\ base \in Nat /\ base <= a
    <3> HIDE DEF r, t, y
    <3> QED BY <2>2, CoversPlace
  <2> QED BY <2>1, <2>2, <2>3
<1>6. r = IF ~Present(s.mem[x.page][i]) THEN s
          ELSE IF t.halted \/ ~Empty(t, y.page) THEN t
          ELSE FreePage(Write(t, slot, Zero), y.page)
  <2> HIDE DEF y, slot
  <2> QED BY <1>3, <1>4 DEF Gc
<1> HIDE DEF r, t
<1>7. CASE ~Present(s.mem[x.page][i])
  <2>1. \A z \in N : ~(z.depth > x.depth /\ On(z, base, a, b))
    <3>1. ~Links(s.mem, x, i) BY <1>7 DEF Links
    <3> QED BY <1>1, <1>5, <3>1, NothingBelow
  <2>2. Collected(s, N, s, N, other, base, x.depth, a, b) BY <2>1 DEF Collected
  <2>3. r = s BY <1>6, <1>7
  <2> QED BY <2>2, <2>3
<1>8. CASE Present(s.mem[x.page][i])
  <2>1. y.depth = x.depth + 1 /\ y.place = place /\ EntryOn(x, i, base, a, b)
    <3>1. y.depth = x.depth + 1 /\ y.place = place BY DEF Under
    <3>2. x.place * ENTRIES + i = PlaceOf(base, x.depth + 1, a) BY <1>5
    <3> QED BY <1>5, <3>1, <3>2 DEF EntryOn
  <2>2. ~Maps(s.mem, x, i)
    <3> SUFFICES ASSUME Maps(s.mem, x, i) PROVE FALSE OBVIOUS
    <3>1. y \in Leads(s.mem, N) BY <1>1, EntryKinds
    <3>2. y.depth <= DEPTH_BOTTOM BY <1>2, <2>1
    <3>3. y.place = PlaceOf(base, y.depth, a) BY <1>5, <2>1
    <3> HIDE DEF y
    <3> QED BY <1>5, <3>1, <3>2, <3>3 DEF NoLarge
  <2>3. Links(s.mem, x, i) /\ y \in N BY <1>1, <1>8, <2>2, EntryKinds
  <2> HIDE DEF y, slot
  <2>4. \E M : Collected(s, N, t, M, other, base, x.depth + 1, a, b)
    <3>1. CASE c.depth < DEPTH_BOTTOM
      <4>1. t = below[<<s, [page |-> y.page, depth |-> x.depth + 1, start |-> a, end |-> b]>>]
        BY <1>4, <3>1 DEF t
      <4>2. Covers(base, x.depth + 1, y.place, a, b) BY <2>1
      <4>3. Collects(below, other, base, x.depth + 1) BY <1>4, <3>1
      <4> QED BY <2>1, <2>3, <4>1, <4>2, <4>3 DEF Collects
    <3>2. CASE ~(c.depth < DEPTH_BOTTOM)
      <4>1. t = s BY <3>2 DEF t
      <4>2. \A z \in N : ~(z.depth > x.depth + 1) BY <1>1, <1>2, <1>4, <3>2
      <4>3. Collected(s, N, s, N, other, base, x.depth + 1, a, b) BY <4>2 DEF Collected
      <4> QED BY <4>1, <4>3
    <3> QED BY <3>1, <3>2
  <2>5. PICK M : Collected(s, N, t, M, other, base, x.depth + 1, a, b) BY <2>4
  <2>6. Good(t, M, other) /\ M \subseteq N /\ Leads(t.mem, M) = Leads(s.mem, N)
        /\ (\A p \in Memory : t.mem[p] # s.mem[p] => p \in Pages(N))
        /\ \A z \in N : z \notin M => z.depth > x.depth + 1 /\ On(z, base, a, b)
    BY <2>5 DEF Collected
  <2>7. \A z \in N : z.depth > x.depth + 1 => z.depth > x.depth
    BY <1>1, <1>2
  <2>8. \A z \in N : z.depth >= x.depth + 1 => z.depth >= x.depth /\ z # x
    BY <1>1, <1>2
  <2>9. x \in M /\ y \in M
    <3>1. ~(x.depth > x.depth + 1) /\ ~(y.depth > x.depth + 1) BY <1>2, <2>1
    <3> QED BY <2>3, <2>6, <3>1
  <2>10. t.mem[x.page][i] = s.mem[x.page][i]
    <3>1. ~(x.depth >= x.depth + 1) BY <1>2
    <3> QED BY <2>5, <3>1 DEF Collected
  <2>11. Links(t.mem, x, i) /\ y = Under(t.mem, x, i) BY <2>3, <2>10 DEF Links, Under, y
  <2>12. \A z \in N, j \in Index : t.mem[z.page][j] # s.mem[z.page][j] =>
           z.depth >= x.depth /\ EntryOn(z, j, base, a, b)
    BY <2>5, <2>8 DEF Collected
  <2>13. ASSUME NEW z \in M, z.depth > x.depth, On(z, base, a, b), z # y
         PROVE  z.depth > x.depth + 1
    <3>1. t.mem \in Contents /\ Tree(t.mem, M) BY <2>6, GoodTypes
    <3>2. z.depth = x.depth + 1 => z = y
      <4>1. z.depth = x.depth + 1 => z = Under(t.mem, x, i)
        BY <1>5, <2>9, <2>13, <3>1, NothingBelow
      <4> QED BY <2>11, <4>1
    <3> QED BY <1>1, <1>2, <2>6, <2>13, <3>2
  <2>14. CASE t.halted \/ ~Empty(t, y.page)
    <3>1. r = t BY <1>6, <1>8, <2>14
    <3>2. ASSUME ~t.halted, NEW z \in M, z.depth > x.depth, On(z, base, a, b)
          PROVE  ~Empty(t, z.page)
      <4>1. CASE z = y BY <2>14, <3>2, <4>1
      <4>2. CASE z # y
        <5>1. z.depth > x.depth + 1 BY <2>13, <3>2, <4>2
        <5> QED BY <2>5, <3>2, <5>1 DEF Collected
      <4> QED BY <4>1, <4>2
    <3>3. \A z \in N \ M : z.depth > x.depth /\ On(z, base, a, b) BY <2>6, <2>7
    <3>4. Collected(s, N, t, M, other, base, x.depth, a, b)
      BY <2>6, <2>12, <3>2, <3>3 DEF Collected
    <3> QED BY <3>1, <3>4
  <2>15. CASE ~t.halted /\ Empty(t, y.page)
    <3> DEFINE L == M \ {y}
    <3>1. r = FreePage(Write(t, <<x.page, i>>, Zero), y.page) BY <1>6, <1>8, <2>15 DEF slot
    <3>2. /\ Good(r, L, other) /\ Leads(r.mem, L) = Leads(t.mem, M)
          /\ \A q \in Memory : q # x.page => r.mem[q] = t.mem[q]
          /\ \A z \in M, j \in Index :
               z # x \/ j # i => r.mem[z.page][j] = t.mem[z.page][j]
      <4>1. Dropped(t, M, other, x, i, y, r) BY <2>6, <2>9, <2>11, <2>15, <3>1, DropTable
      <4> QED BY <4>1 DEF Dropped
    <3>3. \A p \in Memory : r.mem[p] # s.mem[p] => p \in Pages(N) BY <1>1, <2>6, <3>2
    <3>4. \A z \in N \ L : z.depth > x.depth /\ On(z, base, a, b)
      <4>1. y.depth > x.depth BY <1>2, <2>1
      <4>2. On(y, base, a, b) BY <1>5, <2>1 DEF On
      <4> QED BY <2>6, <2>7, <4>1, <4>2
    <3>5. ASSUME NEW z \in N, NEW j \in Index, r.mem[z.page][j] # s.mem[z.page][j]
          PROVE  z.depth >= x.depth /\ EntryOn(z, j, base, a, b)
      <4>1. CASE z = x /\ j = i BY <1>2, <2>1, <4>1
      <4>2. CASE z # x \/ j # i
        <5>1. r.mem[z.page][j] = t.mem[z.page][j]
          <6>1. CASE z = x BY <2>9, <3>2, <4>2, <6>1
          <6>2. CASE z # x
            <7>1. z.page # x.page BY <1>1, <6>2 DEF Tree
            <7> QED BY <1>1, <3>2, <7>1
          <6> QED BY <6>1, <6>2
        <5> QED BY <2>12, <3>5, <5>1
      <4> QED BY <4>1, <4>2
    <3>6. ASSUME NEW z \in L, z.depth > x.depth, On(z, base, a, b)
          PROVE  ~Empty(r, z.page)
      <4>1. z.depth > x.depth + 1 BY <2>13, <3>6
      <4>2. ~Empty(t, z.page) BY <2>5, <2>15, <3>6, <4>1 DEF Collected
      <4>3. z # x BY <1>2, <3>6
      <4>4. \A j \in Index : r.mem[z.page][j] = t.mem[z.page][j] BY <3>2, <4>3
      <4> QED BY <4>2, <4>4 DEF Empty
    <3>7. L \subseteq N /\ Leads(r.mem, L) = Leads(s.mem, N) BY <2>6, <3>2
    <3> HIDE DEF L
    <3>8. Collected(s, N, r, L, other, base, x.depth, a, b)
      BY <3>2, <3>3, <3>4, <3>5, <3>6, <3>7 DEF Collected
    <3> QED BY <3>8
  <2> QED BY <2>14, <2>15
<1> QED BY <1>7, <1>8

(* The loop of the collecting walk. *)
LEMMA CollectTurns ==
  ASSUME NEW below \in Walks, NEW leaf, NEW loc \in Location, loc.depth < DEPTH_BOTTOM,
         NEW s, NEW N, NEW other, Good(s, N, other), ~s.halted,
         NEW x \in N, x.page = loc.page, x.depth = loc.depth, NEW base,
         Covers(base, loc.depth, x.place, loc.start, loc.end),
         NoLarge(s.mem, N, base, loc.start, loc.end),
         loc.depth + 1 < DEPTH_BOTTOM => Collects(below, other, base, loc.depth + 1)
  PROVE  \E M : Collected(s, N, Turns("gc", s, loc, below, leaf), M, other, base,
                         loc.depth, loc.start, loc.end)
<1> DEFINE u == StartIndex(loc)
           n == EndIndex(loc) - StartIndex(loc)
           t == Turns("gc", s, loc, below, leaf)
           turn(z, k) == Turn("gc", z, loc, u + k, below, leaf)
<1>1. PICK cut : Cuts(loc, base, x.place, cut) BY CutsExist
<1>2. /\ u \in Nat /\ n \in Nat \ {0} /\ cut \in [0 .. n -> Nat]
      /\ cut[0] = loc.start /\ cut[n] = loc.end
      /\ \A j \in 0 .. n - 1 :
           /\ u + j \in Index
           /\ Covers(base, loc.depth + 1, x.place * ENTRIES + (u + j), cut[j], cut[j + 1])
           /\ loc.start <= cut[j] /\ cut[j + 1] <= loc.end
  BY <1>1 DEF Cuts
<1>3. "gc" \in Visits /\ LeafValues("gc", leaf) BY DEF Visits, LeafValues
<1>4. s \in WalkState /\ N \subseteq TableNode /\ loc.start \in Nat /\ loc.end \in Nat
      /\ loc.depth \in Nat /\ base \in Nat /\ base <= loc.start
  <2>1. loc.start \in Nat /\ loc.end \in Nat /\ loc.start < loc.end BY DEF Covers
  <2>2. loc.depth \in Nat BY Constants DEF Location
  <2>3. loc.start \in loc.start .. loc.end - 1 BY <2>1
  <2>4. base \in Nat /\ base <= loc.start BY <2>3, CoversPlace
  <2> QED BY <2>1, <2>2, <2>4, GoodTypes
<1> DEFINE Inv(k, z) == \E M : Collected(s, N, z, M, other, base, loc.depth, loc.start, cut[k])
           I == {q \in (0 .. n) \X WalkState : Inv(q[1], q[2])}
<1>5. <<0, s>> \in I
  <2>1. Inv(0, s) BY <1>2, <1>4, CollectedNothing
  <2> HIDE DEF Inv
  <2> QED BY <1>2, <1>4, <2>1
<1>6. ASSUME NEW k \in 0 .. n - 1, NEW z \in WalkState, Inv(k, z)
      PROVE  Inv(k + 1, turn(z, k))
  <2> DEFINE i == u + k
             a == cut[k]
             b == cut[k + 1]
             next == turn(z, k)
  <2>1. PICK M : Collected(s, N, z, M, other, base, loc.depth, loc.start, a) BY <1>6
  <2>2. /\ i \in Index /\ loc.start <= a /\ b <= loc.end
        /\ Covers(base, x.depth + 1, x.place * ENTRIES + i, a, b)
    BY <1>2
  <2>3. a \in Nat /\ b \in Nat /\ a < b BY <2>2 DEF Covers
  <2>4. next = IF z.halted THEN z
               ELSE Gc(z, ChildAt(z.mem, x, i, a, b), <<x.page, i>>, below)
    <3>1. x \in TableNode BY <1>4
    <3>2. next = IF z.halted THEN z
                 ELSE Visit("gc", z, ChildAt(z.mem, x, i, a, b), <<x.page, i>>, below, leaf)
      <4>1. TurnAt(loc, cut, k, i, a, b) BY DEF TurnAt
      <4> HIDE DEF i, a, b, n
      <4>2. TurnVisits("gc", z, loc, x, i, below, leaf, a, b) BY <1>1, <3>1, <4>1, TurnIs
      <4> QED BY <4>2 DEF i, TurnVisits
    <3> HIDE DEF next
    <3> QED BY <3>2 DEF Visit
  <2>5. Good(z, M, other) /\ x \in M /\ Leads(z.mem, M) = Leads(s.mem, N)
    <3>1. x \notin M => x.depth > loc.depth BY <2>1 DEF Collected
    <3>2. ~(x.depth > loc.depth) BY <1>4
    <3> QED BY <2>1, <3>1, <3>2 DEF Collected
  <2> HIDE DEF a, b, i, next
  <2>6. CASE z.halted
    <3>1. Collected(s, N, z, M, other, base, loc.depth, loc.start, b)
      BY <1>4, <2>1, <2>2, <2>3, <2>6, CollectedHalted
    <3>2. next = z BY <2>4, <2>6
    <3> QED BY <3>1, <3>2 DEF b, next
  <2>7. CASE ~z.halted
    <3>1. NoLarge(z.mem, M, base, a, b)
      <4>1. \A v \in a .. b - 1 : v \in loc.start .. loc.end - 1 BY <1>4, <2>2, <2>3
      <4> QED BY <2>5, <4>1 DEF NoLarge
    <3>3. \E L : Collected(z, M, Gc(z, ChildAt(z.mem, x, i, a, b), <<x.page, i>>, below),
                         L, other, base, x.depth, a, b)
      <4>1. x \in M /\ x.depth < DEPTH_BOTTOM BY <2>5
      <4> QED BY <2>2, <2>5, <2>7, <3>1, <4>1, CollectStep
    <3>4. PICK L : Collected(z, M, next, L, other, base, loc.depth, a, b) BY <2>4, <2>7, <3>3
    <3>5. Collected(s, N, next, L, other, base, loc.depth, loc.start, b)
      <4>1. a <= b BY <2>3
      <4> QED BY <1>4, <2>1, <2>2, <2>3, <3>4, <4>1, CollectedBoth
    <3> QED BY <3>5 DEF b, next
  <2> QED BY <2>6, <2>7
<1>7. t \in WalkState /\ (n > 0 =>
         \A J : /\ <<0, s>> \in J
                /\ \A k \in 0 .. n - 1, z \in WalkState : <<k, z>> \in J => <<k + 1, turn(z, k)>> \in J
                => <<n, t>> \in J)
  BY <1>3, <1>4, TurnsInduction
<1>8. \A k \in 0 .. n - 1, z \in WalkState : <<k, z>> \in I => <<k + 1, turn(z, k)>> \in I
  <2> SUFFICES ASSUME NEW k \in 0 .. n - 1, NEW z \in WalkState, <<k, z>> \in I
               PROVE  <<k + 1, turn(z, k)>> \in I
    OBVIOUS
  <2>1. turn(z, k) \in WalkState
    <3>1. u + k \in Nat BY <1>2
    <3> QED BY <1>3, <3>1, TurnType
  <2>2. k + 1 \in 0 .. n BY <1>2
  <2> HIDE DEF Inv, turn
  <2>3. Inv(k, z) OBVIOUS
  <2> QED BY <1>6, <2>1, <2>2, <2>3
<1>9. <<n, t>> \in I
  <2> HIDE DEF I, t, turn, n
  <2>1. n > 0 BY <1>2
  <2> QED BY <1>5, <1>7, <1>8, <2>1
<1>10. Inv(n, t)
  <2> HIDE DEF Inv, t, n
  <2> QED BY <1>9
<1> QED BY <1>2, <1>10

(* The collecting walk, by induction on the number of levels below. *)
LEMMA CollectWalk ==
  ASSUME NEW leaf, NEW other, NEW base, NEW depth \in 0 .. DEPTH_BOTTOM - 1
  PROVE  Collects(ApplyNodes("gc", leaf)[LEVELS - depth], other, base, depth)
<1> DEFINE nodes == ApplyNodes("gc", leaf)
           Does(n) == Collects(nodes[n], other, base, LEVELS - n)
           S == {n \in Nat : 2 <= n /\ n <= LEVELS => Does(n)}
<1>1. LEVELS \in Nat /\ DEPTH_BOTTOM = LEVELS - 1 /\ DEPTH_BOTTOM \in Nat /\ Memory \subseteq Nat
  BY Constants
<1>2. "gc" \in Visits /\ LeafValues("gc", leaf) BY DEF Visits, LeafValues
<1>3. /\ \A n \in 0 .. LEVELS : nodes[n] \in Walks
      /\ \A n \in 1 .. LEVELS, s \in WalkState, loc \in Location :
           nodes[n][<<s, loc>>] = Turns("gc", s, loc, nodes[n - 1], leaf)
  BY <1>2, ApplyNodesIs
<1> HIDE DEF nodes
<1>4. 0 \in S OBVIOUS
<1>5. ASSUME NEW n \in S \cap Nat PROVE n + 1 \in S
  <2> SUFFICES ASSUME 2 <= n + 1, n + 1 <= LEVELS PROVE Does(n + 1)
    <3> HIDE DEF Does
    <3> QED OBVIOUS
  <2> DEFINE d == LEVELS - (n + 1)
  <2>1. /\ n \in 0 .. LEVELS /\ n + 1 \in 1 .. LEVELS /\ (n + 1) - 1 = n
        /\ d \in 0 .. DEPTH_BOTTOM /\ d < DEPTH_BOTTOM /\ LEVELS - n = d + 1
        /\ d + 1 < DEPTH_BOTTOM => 2 <= n
    BY <1>1
  <2>2. d + 1 < DEPTH_BOTTOM => Collects(nodes[n], other, base, d + 1)
    <3> HIDE DEF d, Does
    <3>1. d + 1 < DEPTH_BOTTOM => Does(n) BY <1>1, <2>1
    <3> QED BY <2>1, <3>1 DEF Does
  <2>3. nodes[n] \in Walks BY <1>3, <2>1
  <2> HIDE DEF d
  <2>4. Collects(nodes[n + 1], other, base, d)
    <3> SUFFICES ASSUME NEW s, NEW N, NEW y, NEW a, NEW b,
                        Good(s, N, other), ~s.halted, NoLarge(s.mem, N, base, a, b),
                        y \in N, y.depth = d, Covers(base, d, y.place, a, b)
                 PROVE  \E M : Collected(s, N,
                          nodes[n + 1][<<s, [page |-> y.page, depth |-> d, start |-> a, end |-> b]>>],
                          M, other, base, d, a, b)
      BY DEF Collects
    <3> DEFINE loc == [page |-> y.page, depth |-> d, start |-> a, end |-> b]
    <3>1. y.page \in Nat /\ s \in WalkState BY <1>1, GoodTypes
    <3>2. loc \in Location BY <2>1, <3>1, CoversLocation
    <3>3. loc.page = y.page /\ loc.depth = d /\ loc.start = a /\ loc.end = b OBVIOUS
    <3> HIDE DEF loc
    <3>4. nodes[n + 1][<<s, loc>>] = Turns("gc", s, loc, nodes[n], leaf) BY <1>3, <2>1, <3>1, <3>2
    <3>5. \E M : Collected(s, N, Turns("gc", s, loc, nodes[n], leaf), M, other, base,
                          loc.depth, loc.start, loc.end)
      BY <2>1, <2>2, <2>3, <3>2, <3>3, CollectTurns
    <3> QED BY <3>3, <3>4, <3>5 DEF loc
  <2> QED BY <2>4 DEF d
<1> HIDE DEF S
<1>6. \A n \in Nat : n \in S BY <1>4, <1>5, Induction
<1>7. LEVELS - depth \in Nat /\ 2 <= LEVELS - depth /\ LEVELS - depth <= LEVELS
      /\ LEVELS - (LEVELS - depth) = depth
  BY <1>1
<1>8. Does(LEVELS - depth)
  <2> HIDE DEF Does
  <2> QED BY <1>6, <1>7 DEF S
<1> QED BY <1>7, <1>8 DEF nodes

------------------------------------------------------------------------------
(* The halves of the address space *)

(* The halves, as numbers. *)
LEMMA HalfIs ==
  /\ HALF \in Nat /\ Power[LEVELS] = 2 * HALF /\ VIRTUAL \in Nat /\ VIRTUAL > 2 * HALF
  /\ HIGHER_HALF_MIN = VIRTUAL - HALF
  /\ Span(0) \in Nat \ {0} /\ Span(0) <= HALF
<1> DEFINE k == Span(0)
           h == ENTRIES \div 2
<1>1. k \in Nat \ {0} /\ Power[LEVELS] = ENTRIES * k
  <2>1. 0 \in 0 .. DEPTH_BOTTOM /\ LEVELS - 0 = LEVELS BY Constants
  <2> QED BY <2>1, SpanIs
<1>2. h \in Nat \ {0} /\ ENTRIES = 2 * h
  <2>1. ENTRIES \in Nat \ {0} /\ ENTRIES % 2 = 0 BY LayoutAssumption
  <2> QED BY <2>1
<1>3. HALF = k * h BY DEF HALF
<1>4. VIRTUAL \in Nat /\ VIRTUAL > Power[LEVELS] BY LayoutAssumption
<1> HIDE DEF k, h
<1>5. \A x, y \in Nat : (2 * x) * y = 2 * (y * x) /\ y * x \in Nat OBVIOUS
<1>6. \A x, y \in Nat \ {0} : y <= y * x OBVIOUS
<1>7. (2 * h) * k = 2 * (k * h) /\ k * h \in Nat /\ k <= k * h BY <1>1, <1>2, <1>5, <1>6
<1>8. Power[LEVELS] = 2 * HALF /\ HALF \in Nat /\ k <= HALF BY <1>1, <1>2, <1>3, <1>7
<1> QED BY <1>1, <1>4, <1>8 DEF HIGHER_HALF_MIN, k

(* An address in the half with a base. *)
InHalf(base, v) ==
  \/ base = 0 /\ v < HALF
  \/ base = VIRTUAL - Power[LEVELS] /\ v >= HIGHER_HALF_MIN

(* Sign extension in a half. *)
LEMMA Extended ==
  ASSUME NEW base, NEW v \in Nat, InHalf(base, v), NEW w \in Nat
  PROVE  base \in Nat /\ base <= v /\ (SignExtend(w) = v <=> w = v - base)
BY HalfIs DEF InHalf, SignExtend

(* What a node that leads to memory maps in a half. *)
LEMMA PlaceIs ==
  ASSUME NEW base, NEW v \in Nat, InHalf(base, v),
         NEW l, l.place \in Nat, l.depth \in 1 .. LEVELS
  PROVE  v \in Covered(l) <=> l.place = PlaceOf(base, l.depth, v)
<1> DEFINE d == l.depth - 1
           k == Span(d)
           p == l.place
           x == v - base
<1>1. d \in 0 .. DEPTH_BOTTOM /\ d + 1 = l.depth BY Constants
<1>2. k \in Nat \ {0} /\ Region(l.depth) = k BY <1>1, SpanIs, RegionIs
<1>3. base \in Nat /\ base <= v /\ \A w \in Nat : SignExtend(w) = v <=> w = v - base BY Extended
<1>4. x \in Nat BY <1>3
<1>5. v \in Covered(l) <=> \E j \in 0 .. k - 1 : SignExtend(p * k + j) = v
  <2> DEFINE T(j) == [virtual |-> SignExtend(p * k + j), page |-> l.page + j, bits |-> l.bits]
  <2>1. Translations(d, l) = {T(j) : j \in 0 .. k - 1} BY DEF Translations
  <2>2. \A j : T(j).virtual = SignExtend(p * k + j) OBVIOUS
  <2>3. Covered(l) = {t.virtual : t \in Translations(d, l)} BY DEF Covered
  <2> HIDE DEF T, k, d
  <2>4. v \in Covered(l) <=> \E j \in 0 .. k - 1 : T(j).virtual = v BY <2>1, <2>3
  <2> QED BY <2>2, <2>4
<1>6. PlaceOf(base, l.depth, v) = x \div k BY <1>2 DEF PlaceOf
<1> HIDE DEF k, x
<1>7. p * k = k * p /\ p * k \in Nat /\ p \in Nat BY <1>2, TimesNat
<1>8. \A j \in 0 .. k - 1 : SignExtend(p * k + j) = v <=> p * k + j = x
  <2>1. \A j \in 0 .. k - 1 : p * k + j \in Nat BY <1>2, <1>7
  <2> QED BY <1>3, <2>1 DEF x
<1>9. (\E j \in 0 .. k - 1 : p * k + j = x) <=> p = x \div k
  <2>1. ASSUME NEW j \in 0 .. k - 1, p * k + j = x PROVE p = x \div k
    <3>1. (k * p + j) \div k = p BY <1>2, <1>7, DivModUnique
    <3> QED BY <1>7, <2>1, <3>1
  <2>2. ASSUME p = x \div k PROVE \E j \in 0 .. k - 1 : p * k + j = x
    <3>1. x \div k \in Nat /\ x % k \in 0 .. k - 1 /\ x = k * (x \div k) + (x % k)
      BY <1>2, <1>4, DivMod
    <3>2. p * k + (x % k) = x BY <1>7, <2>2, <3>1
    <3> QED BY <3>1, <3>2
  <2> QED BY <2>1, <2>2
<1> QED BY <1>5, <1>6, <1>8, <1>9

(* At the last level it maps one page. *)
LEMMA MapsOnePage ==
  ASSUME NEW base, NEW v \in Nat, InHalf(base, v),
         NEW l, l.place \in Nat, l.page \in Nat, l.depth = LEVELS,
         l.place = PlaceOf(base, LEVELS, v)
  PROVE  Translations(l.depth - 1, l) = {[virtual |-> v, page |-> l.page, bits |-> l.bits]}
<1>1. l.depth - 1 = DEPTH_BOTTOM /\ DEPTH_BOTTOM \in 0 .. DEPTH_BOTTOM /\ DEPTH_BOTTOM + 1 = LEVELS
  BY Constants
<1>2. Span(DEPTH_BOTTOM) = 1 BY <1>1, RegionIs
<1>3. Translations(l.depth - 1, l) =
        {[virtual |-> SignExtend(l.place * 1 + j), page |-> l.page + j, bits |-> l.bits] : j \in 0 .. 0}
  BY <1>1, <1>2 DEF Translations
<1>4. base \in Nat /\ base <= v /\ \A w \in Nat : SignExtend(w) = v <=> w = v - base BY Extended
<1>5. l.place = v - base
  <2>1. l.place = (v - base) \div 1 BY RegionIs DEF PlaceOf
  <2>2. v - base \in Nat BY <1>4
  <2> QED BY <2>1, <2>2
<1>6. SignExtend(l.place) = v BY <1>4, <1>5
<1>7. l.place * 1 + 0 = l.place /\ l.page + 0 = l.page /\ 0 .. 0 = {0} OBVIOUS
<1> QED BY <1>3, <1>6, <1>7

(* What apply_nodes_entry checks of a request puts its range under the     *)
(* top-level table, in one half.                                           *)
Checked(r) ==
  /\ Loc(r).start < Loc(r).end
  /\ Canonical(Loc(r).start) /\ Canonical(Loc(r).end)
  /\ SameHalf(Loc(r).start, Loc(r).end)
RangeOf(r) == r.address .. r.address + r.size - 1
Fits(r) == r.address \in Nat /\ r.size \in Nat /\ r.address + r.size <= VIRTUAL - Span(0)

(* What callers ask for does, unless it is the last slot. *)
LEMMA RequestFits == ASSUME ~LastSlot, NEW r \in Request PROVE Fits(r)
<1>1. r.address \in 0 .. VIRTUAL - 1 /\ r.size \in Nat /\ r.address + r.size <= VIRTUAL - Span(0)
  BY LayoutAssumption DEF Request
<1>2. r.address \in Nat BY <1>1, HalfIs
<1> QED BY <1>1, <1>2 DEF Fits

(* apply_nodes_entry is the walk, or a panic. *)
LEMMA EntryIs ==
  ASSUME NEW s, NEW visit, NEW r, NEW leaf
  PROVE  ApplyNodesEntry(s, visit, Loc(r), leaf) =
           IF ~s.halted /\ Checked(r)
           THEN ApplyNodes(visit, leaf)[LEVELS - 0][<<s, Loc(r)>>] ELSE Halted(s)
<1>1. Loc(r).depth = 0 BY DEF Loc
<1> QED BY <1>1 DEF ApplyNodesEntry, Checked

(* The location of a request: nothing wraps. *)
LEMMA RangeIs ==
  ASSUME NEW r, Fits(r)
  PROVE  /\ r.address \in Nat /\ r.size \in Nat
         /\ Loc(r) = [page |-> Root, depth |-> 0, start |-> r.address, end |-> r.address + r.size]
         /\ r.address + r.size <= VIRTUAL - Span(0)
<1>1. r.address \in Nat /\ r.size \in Nat /\ r.address + r.size <= VIRTUAL - Span(0)
  BY DEF Fits
<1>2. r.address + r.size \in 0 .. VIRTUAL - 1 BY <1>1, HalfIs
<1>3. Wrap(r.address + r.size) = r.address + r.size BY <1>2, WrapType
<1> QED BY <1>1, <1>3 DEF Loc

(* A request that passes the checks lies in one half. *)
LEMMA CheckedIs ==
  ASSUME NEW r, Fits(r), Checked(r)
  PROVE  \E base : /\ Covers(base, 0, 0, r.address, r.address + r.size)
                   /\ \A v \in RangeOf(r) : v \in Nat /\ base \in Nat /\ base <= v /\ InHalf(base, v)
<1> DEFINE a == r.address
           b == r.address + r.size
           base == IF a < HALF THEN 0 ELSE VIRTUAL - Power[LEVELS]
<1>1. a \in Nat /\ b \in Nat /\ b <= VIRTUAL - Span(0) /\ Loc(r).start = a /\ Loc(r).end = b
  BY RangeIs
<1>2. a < b /\ Canonical(a) /\ Canonical(b) /\ SameHalf(a, b) BY <1>1 DEF Checked
<1>3. /\ HALF \in Nat /\ Power[LEVELS] = 2 * HALF /\ VIRTUAL \in Nat /\ VIRTUAL > 2 * HALF
      /\ HIGHER_HALF_MIN = VIRTUAL - HALF /\ Span(0) \in Nat \ {0} /\ Span(0) <= HALF
  BY HalfIs
<1>4. \/ a < HALF /\ b < HALF /\ base = 0
      \/ a >= HIGHER_HALF_MIN /\ base = VIRTUAL - 2 * HALF
  <2> HIDE DEF a, b
  <2> QED BY <1>1, <1>2, <1>3 DEF Canonical, SameHalf
<1> HIDE DEF base
<1>5. base \in Halves BY <1>3, <1>4 DEF Halves
<1>6. Region(0) = 2 * HALF BY <1>3, RegionIs
<1>7. base \in Nat /\ base <= a /\ b <= base + Region(0) BY <1>1, <1>2, <1>3, <1>4, <1>6
<1>8. Covers(base, 0, 0, a, b)
  <2>1. 0 * Region(0) = 0 /\ base + 0 = base BY <1>3, <1>6, <1>7
  <2>2. 0 \in 0 .. LEVELS BY Constants
  <2> QED BY <1>1, <1>2, <1>5, <1>7, <2>1, <2>2 DEF Covers
<1>9. ASSUME NEW v \in RangeOf(r) PROVE v \in Nat /\ base <= v /\ InHalf(base, v)
  <2>1. v \in Nat /\ a <= v /\ v < b
    <3>1. r.address \in Nat /\ r.size \in Nat BY RangeIs
    <3>2. v \in r.address .. r.address + r.size - 1 BY DEF RangeOf
    <3> QED BY <3>1, <3>2
  <2> QED BY <1>1, <1>3, <1>4, <1>7, <2>1 DEF InHalf
<1> QED BY <1>7, <1>8, <1>9

------------------------------------------------------------------------------
(* What the writing walk makes of the map *)

(* Types of a lead. *)
LEMMA LeadTypes ==
  ASSUME NEW m \in Contents, NEW N, Tree(m, N), NEW l \in Leads(m, N)
  PROVE  l.place \in Nat /\ l.depth \in 1 .. LEVELS /\ l.page \in Memory /\ l.page \in Nat
<1>1. PICK x \in N, i \in Index : Maps(m, x, i) /\ l = Under(m, x, i) BY LeadsAre
<1>2. x \in TableNode /\ Present(m[x.page][i]) BY <1>1, EntryKinds
<1>3. l.place = x.place * ENTRIES + i /\ l.depth = x.depth + 1 /\ l.page = m[x.page][i].page
  BY <1>1 DEF Under
<1>4. x.place \in Nat /\ x.depth \in 0 .. DEPTH_BOTTOM BY <1>2 DEF TableNode
<1>5. l.place \in Nat BY <1>3, <1>4, Digits
<1>6. l.depth \in 1 .. LEVELS BY <1>3, <1>4, Constants
<1>7. l.page \in Memory BY <1>2, <1>3 DEF Tree
<1> QED BY <1>5, <1>6, <1>7, Constants

(* A table of the last level for an address has an entry for it. *)
LEMMA EntryExists ==
  ASSUME NEW N \in SUBSET TableNode, NEW base \in Nat, NEW v \in Nat, base <= v,
         NEW y \in N, y.depth = DEPTH_BOTTOM, y.place = PlaceOf(base, DEPTH_BOTTOM, v)
  PROVE  \E i \in Index : EntryFor(y, i, base, v)
<1> DEFINE q == PlaceOf(base, LEVELS, v)
<1>1. DEPTH_BOTTOM \in 0 .. DEPTH_BOTTOM /\ DEPTH_BOTTOM + 1 = LEVELS /\ ENTRIES \in Nat \ {0}
      /\ Index = 0 .. ENTRIES - 1
  BY Constants
<1>2. q \in Nat /\ y.place = q \div ENTRIES BY <1>1, PlaceAbove
<1> HIDE DEF q
<1>3. PICK p \in Nat, i \in 0 .. ENTRIES - 1 : p = q \div ENTRIES /\ q = ENTRIES * p + i
  <2>1. /\ q \div ENTRIES \in Nat /\ q % ENTRIES \in 0 .. ENTRIES - 1
        /\ q = ENTRIES * (q \div ENTRIES) + (q % ENTRIES)
    BY <1>1, <1>2, DivMod
  <2> QED BY <2>1
<1>4. y.place * ENTRIES + i = q
  <2>1. ENTRIES * p = p * ENTRIES BY <1>1
  <2> QED BY <1>2, <1>3, <2>1
<1> QED BY <1>1, <1>4 DEF EntryFor, q

(* The node of an address at the last level, for an entry. *)
LeafNode(base, v, entry) ==
  [place |-> PlaceOf(base, LEVELS, v), depth |-> LEVELS, page |-> entry.page, bits |-> entry.bits]
At(l, base, v) == l.depth = LEVELS /\ l.place = PlaceOf(base, LEVELS, v)

Rewritten(before, after, base, a, b, leaf) ==
  /\ \A l \in before : (\A v \in a .. b - 1 : ~At(l, base, v)) => l \in after
  /\ \A v \in a .. b - 1 : Present(leaf[v]) => LeafNode(base, v, leaf[v]) \in after
  /\ \A l \in after : \/ l \in before /\ \A v \in a .. b - 1 : ~At(l, base, v)
                      \/ \E v \in a .. b - 1 : Present(leaf[v]) /\ l = LeafNode(base, v, leaf[v])

(* The writing walk rewrites the leads of its range. *)
LEMMA PaintedLeads ==
  ASSUME NEW s, NEW N, NEW other, Good(s, N, other), NEW t, NEW base \in Nat,
         NEW a \in Nat, NEW b \in Nat, base <= a, NEW leaf,
         Painted(s, t, N, base, a, b, leaf), LeavesValid(leaf, a, b),
         \A v \in a .. b - 1 : Path(N, base, DEPTH_BOTTOM, v)
  PROVE  Rewritten(Leads(s.mem, N), Leads(t.mem, N), base, a, b, leaf)
<1>1. /\ s.mem \in Contents /\ Tree(s.mem, N) /\ N \subseteq TableNode
      /\ \A z \in N : z.depth \in 0 .. DEPTH_BOTTOM
  BY GoodTypes
<1>2. Good(t, N, other) BY PaintedGood
<1>3. t.mem \in Contents /\ Tree(t.mem, N) BY <1>2, GoodTypes
<1>4. LEVELS = DEPTH_BOTTOM + 1 /\ DEPTH_BOTTOM \in Nat BY Constants
<1>5. \A m, v : \A x \in N, i \in Index : At(Under(m, x, i), base, v) <=> EntryFor(x, i, base, v)
  <2> SUFFICES ASSUME NEW m, NEW v, NEW x \in N, NEW i \in Index
               PROVE  At(Under(m, x, i), base, v) <=> EntryFor(x, i, base, v)
    OBVIOUS
  <2>1. Under(m, x, i).depth = x.depth + 1 /\ Under(m, x, i).place = x.place * ENTRIES + i
    BY DEF Under
  <2>2. x.depth + 1 = LEVELS <=> x.depth = DEPTH_BOTTOM BY <1>1, <1>4
  <2> QED BY <2>1, <2>2 DEF At, EntryFor
<1>6. ASSUME NEW l \in Leads(s.mem, N), \A v \in a .. b - 1 : ~At(l, base, v)
      PROVE  l \in Leads(t.mem, N)
  <2>1. PICK x \in N, i \in Index : Maps(s.mem, x, i) /\ l = Under(s.mem, x, i)
    BY <1>1, LeadsAre
  <2>2. \A v \in a .. b - 1 : ~EntryFor(x, i, base, v) BY <1>5, <1>6, <2>1
  <2>3. t.mem[x.page][i] = s.mem[x.page][i] BY <2>2 DEF Painted
  <2>4. Maps(t.mem, x, i) /\ l = Under(t.mem, x, i) BY <2>1, <2>3 DEF Maps, Under
  <2> QED BY <1>3, <2>4, LeadsAre
<1>7. ASSUME NEW x \in N, NEW i \in Index, NEW v \in a .. b - 1, EntryFor(x, i, base, v)
      PROVE  /\ t.mem[x.page][i] = leaf[v] /\ x.depth = DEPTH_BOTTOM
             /\ Under(t.mem, x, i) = LeafNode(base, v, leaf[v])
  <2>1. t.mem[x.page][i] = leaf[v] BY <1>7 DEF Painted
  <2>2. x.depth = DEPTH_BOTTOM /\ x.place * ENTRIES + i = PlaceOf(base, LEVELS, v)
    BY <1>7 DEF EntryFor
  <2>3. x.depth + 1 = LEVELS BY <1>4, <2>2
  <2> QED BY <2>1, <2>2, <2>3 DEF Under, LeafNode
<1>8. ASSUME NEW v \in a .. b - 1, Present(leaf[v])
      PROVE  LeafNode(base, v, leaf[v]) \in Leads(t.mem, N)
  <2>1. PICK y \in N : y.depth = DEPTH_BOTTOM /\ y.place = PlaceOf(base, DEPTH_BOTTOM, v)
    BY DEF Path
  <2>2. v \in Nat /\ base <= v OBVIOUS
  <2>3. PICK i \in Index : EntryFor(y, i, base, v) BY <1>1, <2>1, <2>2, EntryExists
  <2>4. Maps(t.mem, y, i) BY <1>7, <1>8, <2>3 DEF Maps
  <2> QED BY <1>3, <1>7, <2>3, <2>4, LeadsAre
<1>9. ASSUME NEW l \in Leads(t.mem, N)
      PROVE  \/ l \in Leads(s.mem, N) /\ \A v \in a .. b - 1 : ~At(l, base, v)
             \/ \E v \in a .. b - 1 : Present(leaf[v]) /\ l = LeafNode(base, v, leaf[v])
  <2>1. PICK x \in N, i \in Index : Maps(t.mem, x, i) /\ l = Under(t.mem, x, i)
    BY <1>3, LeadsAre
  <2>2. CASE \E v \in a .. b - 1 : EntryFor(x, i, base, v)
    <3>1. PICK v \in a .. b - 1 : EntryFor(x, i, base, v) BY <2>2
    <3>2. Present(leaf[v]) BY <1>7, <2>1, <3>1 DEF Maps
    <3> QED BY <1>7, <2>1, <3>1, <3>2
  <2>3. CASE \A v \in a .. b - 1 : ~EntryFor(x, i, base, v)
    <3>1. t.mem[x.page][i] = s.mem[x.page][i] BY <2>3 DEF Painted
    <3>2. Maps(s.mem, x, i) /\ l = Under(s.mem, x, i) BY <2>1, <3>1 DEF Maps, Under
    <3>3. l \in Leads(s.mem, N) BY <1>1, <3>2, LeadsAre
    <3>4. \A v \in a .. b - 1 : ~At(l, base, v) BY <1>5, <2>1, <2>3
    <3> QED BY <3>3, <3>4
  <2> QED BY <2>2, <2>3
<1> QED BY <1>6, <1>8, <1>9 DEF Rewritten

(* The large pages of a memory leave the range out. *)
LEMMA NoLargeIs ==
  ASSUME NEW m \in Contents, NEW N, Tree(m, N), NEW base, NEW a, NEW b,
         \A v \in a .. b - 1 : v \in Nat /\ InHalf(base, v),
         LargePages(m) \cap (a .. b - 1) = {}
  PROVE  NoLarge(m, N, base, a, b)
<1> SUFFICES ASSUME NEW l \in Leads(m, N), NEW v \in a .. b - 1, l.depth <= DEPTH_BOTTOM,
                    l.place = PlaceOf(base, l.depth, v)
             PROVE  FALSE
  BY DEF NoLarge
<1>1. l.place \in Nat /\ l.depth \in 1 .. LEVELS BY LeadTypes
<1>2. v \in Covered(l) BY <1>1, PlaceIs
<1>3. v \in LargePages(m) BY <1>2, MappedIs
<1> QED BY <1>3

(* The same leads map the same, and what is rewritten maps the leaves in   *)
(* the range and what was mapped before outside it.                        *)
LEMMA SameMap ==
  ASSUME NEW m \in Contents, NEW N, Tree(m, N), NEW k \in Contents, NEW M, Tree(k, M),
         Leads(k, M) = Leads(m, N)
  PROVE  Mapped(k) = Mapped(m)
<1>1. \A t : t \in Mapped(k) <=> t \in Mapped(m) BY MappedIs
<1> QED BY <1>1

(* The same leads above the last level give the same large pages. *)
LEMMA SameLarge ==
  ASSUME NEW m \in Contents, NEW N, Tree(m, N), NEW k \in Contents, NEW M, Tree(k, M),
         \A l : l.depth <= DEPTH_BOTTOM => (l \in Leads(k, M) <=> l \in Leads(m, N))
  PROVE  LargePages(k) = LargePages(m)
<1>1. \A v : v \in LargePages(k) <=> v \in LargePages(m) BY MappedIs
<1> QED BY <1>1

(* What is rewritten maps the leaves in the range, and as before outside. *)
LEMMA RewrittenMap ==
  ASSUME NEW m \in Contents, NEW N, Tree(m, N), NEW k \in Contents, NEW M, Tree(k, M),
         NEW base, NEW a, NEW b, NEW leaf,
         \A v \in a .. b - 1 : v \in Nat /\ InHalf(base, v),
         NoLarge(m, N, base, a, b), LeavesValid(leaf, a, b),
         Rewritten(Leads(m, N), Leads(k, M), base, a, b, leaf), NEW t
  PROVE  t \in Mapped(k) <=>
           \/ t \in Mapped(m) /\ t.virtual \notin a .. b - 1
           \/ \E v \in a .. b - 1 :
                Present(leaf[v]) /\ t = [virtual |-> v, page |-> leaf[v].page, bits |-> leaf[v].bits]
<1>1. LEVELS = DEPTH_BOTTOM + 1 /\ DEPTH_BOTTOM \in Nat BY Constants
<1>2. ASSUME NEW l \in Leads(m, N), t \in Translations(l.depth - 1, l)
      PROVE  t.virtual \in a .. b - 1 <=> \E v \in a .. b - 1 : At(l, base, v)
  <2>1. l.place \in Nat /\ l.depth \in 1 .. LEVELS /\ l.page \in Nat BY LeadTypes
  <2>2. ASSUME t.virtual \in a .. b - 1 PROVE \E v \in a .. b - 1 : At(l, base, v)
    <3>1. t.virtual \in Covered(l) BY <1>2 DEF Covered
    <3>2. t.virtual \in Nat /\ InHalf(base, t.virtual) BY <2>2
    <3>3. l.place = PlaceOf(base, l.depth, t.virtual) BY <2>1, <3>1, <3>2, PlaceIs
    <3>4. ~(l.depth <= DEPTH_BOTTOM) BY <2>2, <3>3 DEF NoLarge
    <3>5. l.depth = LEVELS BY <1>1, <2>1, <3>4
    <3> QED BY <2>2, <3>3, <3>5 DEF At
  <2>3. ASSUME NEW v \in a .. b - 1, At(l, base, v) PROVE t.virtual \in a .. b - 1
    <3>1. l.depth = LEVELS /\ l.place = PlaceOf(base, LEVELS, v) BY <2>3 DEF At
    <3>2. v \in Nat /\ InHalf(base, v) OBVIOUS
    <3>3. t \in {[virtual |-> v, page |-> l.page, bits |-> l.bits]} BY <1>2, <2>1, <3>1, <3>2, MapsOnePage
    <3> QED BY <3>3
  <2> QED BY <2>2, <2>3
<1>3. ASSUME NEW v \in a .. b - 1
      PROVE  Translations(LeafNode(base, v, leaf[v]).depth - 1, LeafNode(base, v, leaf[v]))
               = {[virtual |-> v, page |-> leaf[v].page, bits |-> leaf[v].bits]}
  <2> DEFINE l == LeafNode(base, v, leaf[v])
  <2>1. l.depth = LEVELS /\ l.place = PlaceOf(base, LEVELS, v) /\ l.page = leaf[v].page
        /\ l.bits = leaf[v].bits
    BY DEF LeafNode
  <2> HIDE DEF l
  <2>2. leaf[v].page \in Nat BY DEF LeavesValid, Entry
  <2>3. v \in Nat /\ InHalf(base, v) OBVIOUS
  <2>4. l.place \in Nat
    <3>1. DEPTH_BOTTOM \in 0 .. DEPTH_BOTTOM BY <1>1
    <3>2. base \in Nat /\ base <= v
      <4>1. 0 \in Nat OBVIOUS
      <4> QED BY <2>3, <4>1, Extended
    <3>3. PlaceOf(base, DEPTH_BOTTOM + 1, v) \in Nat BY <2>3, <3>1, <3>2, PlaceAbove
    <3> QED BY <1>1, <2>1, <3>3
  <2>5. Translations(l.depth - 1, l) = {[virtual |-> v, page |-> l.page, bits |-> l.bits]}
    BY <2>1, <2>2, <2>3, <2>4, MapsOnePage
  <2> QED BY <2>1, <2>5 DEF l
<1>4. ASSUME t \in Mapped(k)
      PROVE  \/ t \in Mapped(m) /\ t.virtual \notin a .. b - 1
             \/ \E v \in a .. b - 1 :
                  Present(leaf[v]) /\ t = [virtual |-> v, page |-> leaf[v].page, bits |-> leaf[v].bits]
  <2>1. PICK l \in Leads(k, M) : t \in Translations(l.depth - 1, l) BY <1>4, MappedIs
  <2>2. CASE l \in Leads(m, N) /\ \A v \in a .. b - 1 : ~At(l, base, v)
    <3>1. t \in Mapped(m) BY <2>1, <2>2, MappedIs
    <3>2. t.virtual \notin a .. b - 1 BY <1>2, <2>1, <2>2
    <3> QED BY <3>1, <3>2
  <2>3. CASE \E v \in a .. b - 1 : Present(leaf[v]) /\ l = LeafNode(base, v, leaf[v])
    <3>1. PICK v \in a .. b - 1 : Present(leaf[v]) /\ l = LeafNode(base, v, leaf[v]) BY <2>3
    <3>2. t \in {[virtual |-> v, page |-> leaf[v].page, bits |-> leaf[v].bits]}
      BY <1>3, <2>1, <3>1
    <3> QED BY <3>1, <3>2
  <2> QED BY <2>2, <2>3 DEF Rewritten
<1>5. ASSUME t \in Mapped(m), t.virtual \notin a .. b - 1 PROVE t \in Mapped(k)
  <2>1. PICK l \in Leads(m, N) : t \in Translations(l.depth - 1, l) BY <1>5, MappedIs
  <2>2. \A v \in a .. b - 1 : ~At(l, base, v) BY <1>2, <1>5, <2>1
  <2>3. l \in Leads(k, M) BY <2>2 DEF Rewritten
  <2> QED BY <2>1, <2>3, MappedIs
<1>6. ASSUME NEW v \in a .. b - 1, Present(leaf[v]),
             t = [virtual |-> v, page |-> leaf[v].page, bits |-> leaf[v].bits]
      PROVE  t \in Mapped(k)
  <2>1. LeafNode(base, v, leaf[v]) \in Leads(k, M) BY <1>6 DEF Rewritten
  <2>2. t \in Translations(LeafNode(base, v, leaf[v]).depth - 1, LeafNode(base, v, leaf[v]))
    BY <1>3, <1>6
  <2> QED BY <2>1, <2>2, MappedIs
<1> QED BY <1>4, <1>5, <1>6

------------------------------------------------------------------------------
(* The walks from the top-level table *)

(* The reserving walk from the top-level table. *)
LEMMA WholeReserve ==
  ASSUME NEW s, NEW N, NEW other, Good(s, N, other), ~s.halted, NEW base, NEW a, NEW b,
         Covers(base, 0, 0, a, b), NoLarge(s.mem, N, base, a, b), NEW leaf,
         NEW loc, loc = [page |-> Root, depth |-> 0, start |-> a, end |-> b]
  PROVE  \E M : Reserved(s, N, ApplyNodes("reserve", leaf)[LEVELS - 0][<<s, loc>>], M,
                         other, base, 0, a, b)
<1>1. 0 \in 0 .. DEPTH_BOTTOM - 1 BY Constants
<1>2. Reserves(ApplyNodes("reserve", leaf)[LEVELS - 0], other, base, 0) BY <1>1, ReserveWalk
<1>3. RootNode \in N BY DEF Good, Tree
<1>4. RootNode.page = Root /\ RootNode.depth = 0 /\ RootNode.place = 0 BY DEF RootNode
<1> QED BY <1>2, <1>3, <1>4 DEF Reserves

(* The writing walk from the top-level table. *)
LEMMA WholePaint ==
  ASSUME NEW s, NEW N, NEW other, Good(s, N, other), ~s.halted, NEW base, NEW a, NEW b,
         Covers(base, 0, 0, a, b), Paths(N, base, 0, a, b),
         NEW leaf, LeafValues("leaf", leaf), LeavesValid(leaf, a, b),
         NEW loc, loc = [page |-> Root, depth |-> 0, start |-> a, end |-> b]
  PROVE  Painted(s, ApplyNodes("leaf", leaf)[LEVELS - 0][<<s, loc>>], N, base, a, b, leaf)
<1>1. 0 \in 0 .. DEPTH_BOTTOM BY Constants
<1>2. Paints(ApplyNodes("leaf", leaf)[LEVELS - 0], other, base, 0, leaf) BY <1>1, PaintWalk
<1>3. RootNode \in N BY DEF Good, Tree
<1>4. RootNode.page = Root /\ RootNode.depth = 0 /\ RootNode.place = 0 BY DEF RootNode
<1> QED BY <1>2, <1>3, <1>4 DEF Paints

(* The collecting walk from the top-level table. *)
LEMMA WholeCollect ==
  ASSUME NEW s, NEW N, NEW other, Good(s, N, other), ~s.halted, NEW base, NEW a, NEW b,
         Covers(base, 0, 0, a, b), NoLarge(s.mem, N, base, a, b), NEW leaf,
         NEW loc, loc = [page |-> Root, depth |-> 0, start |-> a, end |-> b]
  PROVE  \E M : Collected(s, N, ApplyNodes("gc", leaf)[LEVELS - 0][<<s, loc>>], M,
                          other, base, 0, a, b)
<1>1. 0 \in 0 .. DEPTH_BOTTOM - 1 BY Constants
<1>2. Collects(ApplyNodes("gc", leaf)[LEVELS - 0], other, base, 0) BY <1>1, CollectWalk
<1>3. RootNode \in N BY DEF Good, Tree
<1>4. RootNode.page = Root /\ RootNode.depth = 0 /\ RootNode.place = 0 BY DEF RootNode
<1> QED BY <1>2, <1>3, <1>4 DEF Collects

(* A table with a table below it, for the same address, is not empty.      *)
LEMMA LinkToBelow ==
  ASSUME NEW m \in Contents, NEW N, Tree(m, N), NEW base \in Nat, NEW v \in Nat, base <= v,
         NEW y \in N, y.depth < DEPTH_BOTTOM, y.place = PlaceOf(base, y.depth, v),
         Path(N, base, y.depth + 1, v)
  PROVE  \E i \in Index : Present(m[y.page][i])
<1> DEFINE q == PlaceOf(base, y.depth + 1, v)
<1>1. y \in TableNode BY DEF Tree
<1>2. y.place \in Nat /\ y.depth \in 0 .. DEPTH_BOTTOM BY <1>1 DEF TableNode
<1>3. ENTRIES \in Nat \ {0} /\ Index = 0 .. ENTRIES - 1 BY Constants
<1>4. q \in Nat /\ y.place = q \div ENTRIES BY <1>2, PlaceAbove
<1>5. PICK z \in N : z.depth = y.depth + 1 /\ z.place = q BY DEF Path
<1> HIDE DEF q
<1>6. PICK p \in Nat, i \in 0 .. ENTRIES - 1 : p = q \div ENTRIES /\ q = ENTRIES * p + i
  <2>1. /\ q \div ENTRIES \in Nat /\ q % ENTRIES \in 0 .. ENTRIES - 1
        /\ q = ENTRIES * (q \div ENTRIES) + (q % ENTRIES)
    BY <1>3, <1>4, DivMod
  <2> QED BY <2>1
<1>7. z.place = y.place * ENTRIES + i
  <2>1. ENTRIES * p = p * ENTRIES BY <1>3
  <2> QED BY <1>4, <1>5, <1>6, <2>1
<1>8. i \in Index BY <1>3
<1>9. Links(m, y, i) BY <1>5, <1>7, <1>8, TreeParent
<1> QED BY <1>8, <1>9 DEF Links

------------------------------------------------------------------------------
(* mmu_assign *)

(* The leaves of mmu_assign are present and refer to memory. *)
LEMMA LinearIs ==
  ASSUME NEW r, Fits(r), NEW flags, NEW page \in Nat, page .. page + r.size - 1 \subseteq Memory,
         NEW leaf, leaf = Linear(r, flags, page)
  PROVE  /\ LeafValues("leaf", leaf)
         /\ LeavesValid(leaf, r.address, r.address + r.size)
         /\ \A v \in RangeOf(r) : /\ Present(leaf[v])
                                  /\ leaf[v].page = page + (v - r.address)
                                  /\ leaf[v].bits = ConvertFlags(flags)
<1> DEFINE E(v) == [page |-> Wrap(v - r.address + page), bits |-> ConvertFlags(flags)]
<1>1. r.address \in Nat /\ r.size \in Nat /\ r.address + r.size <= VIRTUAL - Span(0) BY RangeIs
<1>2. page \in Nat /\ page .. page + r.size - 1 \subseteq Memory OBVIOUS
<1>3. Memory \subseteq 0 .. VIRTUAL - 1 /\ VIRTUAL \in Nat BY LayoutAssumption
<1>4. Span(0) \in Nat \ {0} BY HalfIs
<1>5. leaf = [v \in 0 .. VIRTUAL - 1 |-> E(v)] BY DEF Linear
<1>6. ASSUME NEW x \in Nat PROVE [page |-> x, bits |-> ConvertFlags(flags)] \in Entry
  BY EntryTypes
<1>7. \A v \in 0 .. VIRTUAL - 1 : E(v) \in Entry
  <2> SUFFICES ASSUME NEW v \in 0 .. VIRTUAL - 1 PROVE E(v) \in Entry OBVIOUS
  <2>1. v - r.address + page \in Int BY <1>1, <1>2, <1>3
  <2>2. Wrap(v - r.address + page) \in 0 .. VIRTUAL - 1 BY <2>1, WrapType
  <2>3. Wrap(v - r.address + page) \in Nat BY <1>3, <2>2
  <2> QED BY <1>6, <2>3
<1>8. LeafValues("leaf", leaf)
  <2> HIDE DEF E
  <2> QED BY <1>5, <1>7 DEF LeafValues
<1>9. \A v \in r.address .. r.address + r.size - 1 :
        /\ leaf[v] \in Entry /\ leaf[v].page = page + (v - r.address)
        /\ leaf[v].bits = ConvertFlags(flags) /\ leaf[v].page \in Memory
  <2> SUFFICES ASSUME NEW v \in r.address .. r.address + r.size - 1
               PROVE  /\ leaf[v] \in Entry /\ leaf[v].page = page + (v - r.address)
                      /\ leaf[v].bits = ConvertFlags(flags) /\ leaf[v].page \in Memory
    OBVIOUS
  <2>1. v \in 0 .. VIRTUAL - 1 BY <1>1, <1>3, <1>4
  <2>2. leaf[v] = E(v)
    <3> HIDE DEF E
    <3> QED BY <1>5, <2>1
  <2>3. page + (v - r.address) \in page .. page + r.size - 1 BY <1>1, <1>2
  <2>4. page + (v - r.address) \in Memory BY <1>2, <2>3
  <2>5. v - r.address + page = page + (v - r.address) /\ v - r.address + page \in Int
    BY <1>1, <1>2
  <2>6. Wrap(v - r.address + page) = page + (v - r.address) BY <1>3, <2>4, <2>5, WrapType
  <2>7. E(v) \in Entry BY <1>7, <2>1
  <2> QED BY <2>2, <2>4, <2>6, <2>7
<1>10. "P" \in ConvertFlags(flags) BY DEF ConvertFlags
<1> HIDE DEF E
<1>11. LeavesValid(leaf, r.address, r.address + r.size)
  <2>1. \A v \in r.address .. r.address + r.size - 1 : leaf[v] \in Entry /\ leaf[v].page \in Memory
    BY <1>9
  <2>2. r.address .. (r.address + r.size) - 1 = r.address .. r.address + r.size - 1 BY <1>1
  <2> QED BY <2>1, <2>2 DEF LeavesValid
<1>12. \A v \in RangeOf(r) : /\ Present(leaf[v]) /\ leaf[v].page = page + (v - r.address)
                             /\ leaf[v].bits = ConvertFlags(flags)
  <2> SUFFICES ASSUME NEW v \in RangeOf(r)
               PROVE  /\ Present(leaf[v]) /\ leaf[v].page = page + (v - r.address)
                      /\ leaf[v].bits = ConvertFlags(flags)
    OBVIOUS
  <2>1. v \in r.address .. r.address + r.size - 1 BY DEF RangeOf
  <2>2. leaf[v].page = page + (v - r.address) /\ leaf[v].bits = ConvertFlags(flags)
    BY <1>9, <2>1
  <2> QED BY <1>10, <2>2 DEF Present
<1> QED BY <1>8, <1>11, <1>12

(* What mmu_assign makes of the page tables.                               *)
Assigned(s, N, w, M, other, r, flags, page) ==
  /\ Good(w, M, other) /\ N \subseteq M /\ \A y \in M \ N : y.page \in Pool
  /\ \A p \in Memory : w.mem[p] # s.mem[p] => p \in Pages(M)
  /\ LargePages(w.mem) = LargePages(s.mem)
  /\ \/ w.halted /\ Mapped(w.mem) = Mapped(s.mem)
     \/ /\ ~w.halted
        /\ Mapped(w.mem) = {t \in Mapped(s.mem) : t.virtual \notin RangeOf(r)} \cup
             {[virtual |-> v, page |-> page + (v - r.address), bits |-> ConvertFlags(flags)] :
                v \in RangeOf(r)}
  /\ ~w.halted => \A y \in M : (y \in N => ~Empty(s, y.page)) => ~Empty(w, y.page)

(* Nothing happens but a panic.                                            *)
LEMMA HaltedGood ==
  ASSUME NEW s, NEW N, NEW other, Good(s, N, other)
  PROVE  Good(Halted(s), N, other) /\ Halted(s).mem = s.mem /\ Halted(s).halted
<1>1. s \in WalkState BY DEF Good
<1> QED BY <1>1, HaltedType DEF Good

(* mmu_assign when the pages for tables run out: the map is as before. *)
LEMMA AssignReserved ==
  ASSUME NEW s, NEW N, NEW other, Good(s, N, other), NEW r, NEW flags, NEW page,
         NEW base, NEW a, NEW b, NEW u, NEW M, Reserved(s, N, u, M, other, base, 0, a, b),
         u.halted
  PROVE  Assigned(s, N, Halted(u), M, other, r, flags, page)
<1>1. /\ Good(u, M, other) /\ N \subseteq M /\ Leads(u.mem, M) = Leads(s.mem, N)
      /\ \A y \in M \ N : y.page \in Pool
      /\ \A p \in Memory : u.mem[p] # s.mem[p] => p \in Pages(M)
  BY DEF Reserved
<1>2. Good(Halted(u), M, other) /\ Halted(u).mem = u.mem /\ Halted(u).halted BY <1>1, HaltedGood
<1>3. s.mem \in Contents /\ Tree(s.mem, N) BY GoodTypes
<1>4. u.mem \in Contents /\ Tree(u.mem, M) BY <1>1, GoodTypes
<1>5. Mapped(u.mem) = Mapped(s.mem) BY <1>1, <1>3, <1>4, SameMap
<1>6. LargePages(u.mem) = LargePages(s.mem)
  <2>1. \A l : l.depth <= DEPTH_BOTTOM => (l \in Leads(u.mem, M) <=> l \in Leads(s.mem, N))
    BY <1>1
  <2> QED BY <1>3, <1>4, <2>1, SameLarge
<1> QED BY <1>1, <1>2, <1>5, <1>6 DEF Assigned

(* mmu_assign when they do not. *)
LEMMA AssignPainted ==
  ASSUME NEW s, NEW N, NEW other, Good(s, N, other),
         NEW r, Fits(r), NEW flags, NEW page \in Nat, page .. page + r.size - 1 \subseteq Memory,
         NEW base, NEW a, NEW b, a = r.address, b = r.address + r.size,
         \A v \in RangeOf(r) : v \in Nat /\ base \in Nat /\ base <= v /\ InHalf(base, v),
         a < b, NoLarge(s.mem, N, base, a, b),
         NEW u, NEW M, Reserved(s, N, u, M, other, base, 0, a, b), ~u.halted,
         NEW leaf, leaf = Linear(r, flags, page),
         NEW w, Painted(u, w, M, base, a, b, leaf)
  PROVE  Assigned(s, N, w, M, other, r, flags, page)
<1>1. /\ Good(u, M, other) /\ N \subseteq M /\ Leads(u.mem, M) = Leads(s.mem, N)
      /\ \A p \in Memory : u.mem[p] # s.mem[p] => p \in Pages(M)
      /\ \A x \in N, i \in Index :
           Present(s.mem[x.page][i]) => u.mem[x.page][i] = s.mem[x.page][i]
      /\ \A y \in M \ N : On(y, base, a, b) /\ y.page \in Pool
      /\ \A v \in a .. b - 1, low \in 0 + 1 .. DEPTH_BOTTOM : Path(M, base, low, v)
  BY DEF Reserved
<1>2. a \in Nat /\ b \in Nat /\ RangeOf(r) = a .. b - 1 BY RangeIs DEF RangeOf
<1>3. base \in Nat /\ base <= a
  <2>1. a \in a .. b - 1 BY <1>2
  <2> QED BY <1>2, <2>1
<1>4. /\ LeafValues("leaf", leaf) /\ LeavesValid(leaf, a, b)
      /\ \A v \in RangeOf(r) : /\ Present(leaf[v]) /\ leaf[v].page = page + (v - r.address)
                               /\ leaf[v].bits = ConvertFlags(flags)
  BY LinearIs
<1>5. s.mem \in Contents /\ Tree(s.mem, N) BY GoodTypes
<1>6. u.mem \in Contents /\ Tree(u.mem, M) /\ M \subseteq TableNode
      /\ \A y \in M : y.depth \in 0 .. DEPTH_BOTTOM /\ y.page \in Memory
  BY <1>1, GoodTypes
<1>7. /\ Good(w, M, other)
      /\ \A l : l.depth <= DEPTH_BOTTOM => (l \in Leads(w.mem, M) <=> l \in Leads(u.mem, M))
  BY <1>1, <1>4, PaintedGood
<1>8. w.mem \in Contents /\ Tree(w.mem, M) BY <1>7, GoodTypes
<1>9. DEPTH_BOTTOM \in 0 + 1 .. DEPTH_BOTTOM BY Constants
<1>10. Rewritten(Leads(u.mem, M), Leads(w.mem, M), base, a, b, leaf)
  <2>1. \A v \in a .. b - 1 : Path(M, base, DEPTH_BOTTOM, v) BY <1>1, <1>9
  <2> QED BY <1>1, <1>2, <1>3, <1>4, <2>1, PaintedLeads
<1>11. NoLarge(u.mem, M, base, a, b) BY <1>1 DEF NoLarge
<1>12. Mapped(u.mem) = Mapped(s.mem) BY <1>1, <1>5, <1>6, SameMap
<1>13. \A t : t \in Mapped(w.mem) <=>
              \/ t \in Mapped(s.mem) /\ t.virtual \notin RangeOf(r)
              \/ \E v \in RangeOf(r) : t = [virtual |-> v, page |-> page + (v - r.address),
                                           bits |-> ConvertFlags(flags)]
  <2> SUFFICES ASSUME NEW t
               PROVE  t \in Mapped(w.mem) <=>
                        \/ t \in Mapped(s.mem) /\ t.virtual \notin RangeOf(r)
                        \/ \E v \in RangeOf(r) : t = [virtual |-> v, page |-> page + (v - r.address),
                                                     bits |-> ConvertFlags(flags)]
    OBVIOUS
  <2>1. \A v \in a .. b - 1 : v \in Nat /\ InHalf(base, v) BY <1>2
  <2>2. t \in Mapped(w.mem) <=>
          \/ t \in Mapped(u.mem) /\ t.virtual \notin a .. b - 1
          \/ \E v \in a .. b - 1 :
               Present(leaf[v]) /\ t = [virtual |-> v, page |-> leaf[v].page, bits |-> leaf[v].bits]
    BY <1>4, <1>6, <1>8, <1>10, <1>11, <2>1, RewrittenMap
  <2> QED BY <1>2, <1>4, <1>12, <2>2
<1>14. Mapped(w.mem) = {t \in Mapped(s.mem) : t.virtual \notin RangeOf(r)} \cup
         {[virtual |-> v, page |-> page + (v - r.address), bits |-> ConvertFlags(flags)] :
            v \in RangeOf(r)}
  BY <1>13
<1>15. LargePages(w.mem) = LargePages(s.mem)
  <2>1. \A l : l.depth <= DEPTH_BOTTOM => (l \in Leads(w.mem, M) <=> l \in Leads(s.mem, N))
    BY <1>1, <1>7
  <2> QED BY <1>5, <1>8, <2>1, SameLarge
<1>16. \A p \in Memory : w.mem[p] # s.mem[p] => p \in Pages(M) BY <1>1 DEF Painted
<1>17. ASSUME NEW y \in M, NEW i \in Index, Present(u.mem[y.page][i])
       PROVE  ~Empty(w, y.page)
  <2>1. CASE \E v \in a .. b - 1 : EntryFor(y, i, base, v)
    <3>1. PICK v \in a .. b - 1 : EntryFor(y, i, base, v) BY <2>1
    <3>2. w.mem[y.page][i] = leaf[v] BY <3>1 DEF Painted
    <3> QED BY <1>2, <1>4, <3>2 DEF Empty
  <2>2. CASE \A v \in a .. b - 1 : ~EntryFor(y, i, base, v)
    <3>1. w.mem[y.page][i] = u.mem[y.page][i] BY <2>2 DEF Painted
    <3> QED BY <1>17, <3>1 DEF Empty
  <2> QED BY <2>1, <2>2
<1>18. ASSUME NEW y \in M, y \in N => ~Empty(s, y.page) PROVE ~Empty(w, y.page)
  <2>1. CASE y \in N
    <3>1. PICK i \in Index : Present(s.mem[y.page][i]) BY <1>18, <2>1 DEF Empty
    <3>2. Present(u.mem[y.page][i]) BY <1>1, <2>1, <3>1
    <3> QED BY <1>17, <3>2
  <2>2. CASE y \notin N
    <3>1. PICK v \in a .. b - 1 : y.place = PlaceOf(base, y.depth, v) BY <1>1, <2>2 DEF On
    <3>2. v \in Nat /\ base <= v BY <1>2, <1>3
    <3>3. CASE y.depth = DEPTH_BOTTOM
      <4>1. PICK i \in Index : EntryFor(y, i, base, v)
        BY <1>3, <1>6, <3>1, <3>2, <3>3, EntryExists
      <4>2. w.mem[y.page][i] = leaf[v] BY <4>1 DEF Painted
      <4> QED BY <1>2, <1>4, <4>2 DEF Empty
    <3>4. CASE y.depth < DEPTH_BOTTOM
      <4>1. y.depth + 1 \in 0 + 1 .. DEPTH_BOTTOM BY <1>6, <3>4, Constants
      <4>2. Path(M, base, y.depth + 1, v) BY <1>1, <4>1
      <4>3. PICK i \in Index : Present(u.mem[y.page][i])
        BY <1>3, <1>6, <3>1, <3>2, <3>4, <4>2, LinkToBelow
      <4> QED BY <1>17, <4>3
    <3>5. y.depth = DEPTH_BOTTOM \/ y.depth < DEPTH_BOTTOM BY <1>6, Constants
    <3> QED BY <3>3, <3>4, <3>5
  <2> QED BY <2>1, <2>2
<1>19. ~w.halted BY DEF Painted
<1> QED BY <1>1, <1>7, <1>14, <1>15, <1>16, <1>18, <1>19 DEF Assigned

(* mmu_assign, all of it. *)
LEMMA AssignIs ==
  ASSUME NEW s, NEW N, NEW other, Good(s, N, other), ~s.halted,
         NEW r, Fits(r), LargePages(s.mem) \cap RangeOf(r) = {},
         NEW flags, NEW page \in Nat, page .. page + r.size - 1 \subseteq Memory
  PROVE  \E M : Assigned(s, N, ApplyNodesEntry(ApplyNodesEntry(s, "reserve", Loc(r), <<>>),
                                               "leaf", Loc(r), Linear(r, flags, page)),
                         M, other, r, flags, page)
<1> DEFINE u == ApplyNodesEntry(s, "reserve", Loc(r), <<>>)
           leaf == Linear(r, flags, page)
           w == ApplyNodesEntry(u, "leaf", Loc(r), leaf)
           a == r.address
           b == r.address + r.size
<1>1. s.mem \in Contents /\ Tree(s.mem, N) BY GoodTypes
<1>2. a \in Nat /\ b \in Nat /\ RangeOf(r) = a .. b - 1
      /\ Loc(r) = [page |-> Root, depth |-> 0, start |-> a, end |-> b]
  BY RangeIs DEF RangeOf
<1>3. CASE ~Checked(r)
  <2>1. u = Halted(s) BY <1>3, EntryIs
  <2>2. Good(u, N, other) /\ u.mem = s.mem /\ u.halted BY <2>1, HaltedGood
  <2> HIDE DEF u
  <2>3. w = Halted(u) BY <2>2, EntryIs
  <2>4. Good(w, N, other) /\ w.mem = u.mem /\ w.halted BY <2>2, <2>3, HaltedGood
  <2> HIDE DEF w
  <2>5. Assigned(s, N, w, N, other, r, flags, page) BY <2>2, <2>4 DEF Assigned
  <2> QED BY <2>5 DEF w, u
<1>4. CASE Checked(r)
  <2>1. PICK base : /\ Covers(base, 0, 0, a, b)
                    /\ \A v \in RangeOf(r) : v \in Nat /\ base \in Nat /\ base <= v /\ InHalf(base, v)
    BY <1>4, CheckedIs
  <2>2. NoLarge(s.mem, N, base, a, b)
    <3>1. LargePages(s.mem) \cap (a .. b - 1) = {} BY <1>2
    <3>2. \A v \in a .. b - 1 : v \in Nat /\ InHalf(base, v) BY <1>2, <2>1
    <3> QED BY <1>1, <3>1, <3>2, NoLargeIs
  <2>3. a < b BY <2>1 DEF Covers
  <2>4. u = ApplyNodes("reserve", <<>>)[LEVELS - 0][<<s, Loc(r)>>] BY <1>4, EntryIs
  <2> HIDE DEF u
  <2>5. PICK M : Reserved(s, N, u, M, other, base, 0, a, b)
    <3> HIDE DEF a, b
    <3> QED BY <1>2, <2>1, <2>2, <2>4, WholeReserve
  <2>6. Good(u, M, other) BY <2>5 DEF Reserved
  <2>7. CASE u.halted
    <3>1. w = Halted(u) BY <2>7, EntryIs
    <3>2. Assigned(s, N, Halted(u), M, other, r, flags, page)
      <4> HIDE DEF a, b
      <4> QED BY <2>5, <2>7, AssignReserved
    <3> HIDE DEF w
    <3>3. Assigned(s, N, w, M, other, r, flags, page) BY <3>1, <3>2
    <3> QED BY <3>3 DEF w, u
  <2>8. CASE ~u.halted
    <3>1. w = ApplyNodes("leaf", leaf)[LEVELS - 0][<<u, Loc(r)>>] BY <1>4, <2>8, EntryIs
    <3>2. LeafValues("leaf", leaf) /\ LeavesValid(leaf, a, b) BY LinearIs
    <3>3. Paths(M, base, 0, a, b) BY <2>5, <2>8 DEF Reserved, Paths
    <3> HIDE DEF w, leaf
    <3>4. Painted(u, w, M, base, a, b, leaf)
      <4> HIDE DEF a, b
      <4> QED BY <1>2, <2>1, <2>6, <2>8, <3>1, <3>2, <3>3, WholePaint
    <3>5. Assigned(s, N, w, M, other, r, flags, page)
      <4>1. a = r.address /\ b = r.address + r.size /\ leaf = Linear(r, flags, page) BY DEF leaf
      <4> HIDE DEF a, b
      <4> QED BY <2>1, <2>2, <2>3, <2>5, <2>8, <3>4, <4>1, AssignPainted
    <3> QED BY <3>5 DEF w, u, leaf
  <2> QED BY <2>7, <2>8
<1> QED BY <1>3, <1>4

------------------------------------------------------------------------------
(* mmu_remove *)

(* The leaves of mmu_remove are not present. *)
LEMMA ClearIs ==
  /\ LeafValues("leaf", Clear)
  /\ \A v \in 0 .. VIRTUAL - 1 : Clear[v] = Zero
  /\ Zero \in Entry /\ ~Present(Zero)
<1>1. Zero \in Entry BY EntryTypes
<1>2. ~Present(Zero) BY DEF Present, Zero
<1>3. Clear \in [0 .. VIRTUAL - 1 -> Entry] BY <1>1 DEF Clear
<1>4. \A v \in 0 .. VIRTUAL - 1 : Clear[v] = Zero BY DEF Clear
<1> QED BY <1>1, <1>2, <1>3, <1>4 DEF LeafValues

(* The tables above an address that is mapped by a page of the last level. *)
LEMMA PathToMapped ==
  ASSUME NEW m \in Contents, NEW N, Tree(m, N), NEW base \in Nat, NEW a, NEW b,
         NoLarge(m, N, base, a, b),
         NEW v \in a .. b - 1, v \in Nat, base <= v, InHalf(base, v),
         v \in {t.virtual : t \in Mapped(m)}, NEW depth \in 0 .. DEPTH_BOTTOM
  PROVE  Path(N, base, depth, v)
<1>1. PICK t \in Mapped(m) : t.virtual = v OBVIOUS
<1>2. PICK l \in Leads(m, N) : t \in Translations(l.depth - 1, l) BY <1>1, MappedIs
<1>3. v \in Covered(l) BY <1>1, <1>2 DEF Covered
<1>4. l.place \in Nat /\ l.depth \in 1 .. LEVELS BY LeadTypes
<1>5. l.place = PlaceOf(base, l.depth, v) BY <1>3, <1>4, PlaceIs
<1>6. ~(l.depth <= DEPTH_BOTTOM) BY <1>5 DEF NoLarge
<1>7. LEVELS = DEPTH_BOTTOM + 1 /\ DEPTH_BOTTOM \in Nat BY Constants
<1>8. l.depth = LEVELS BY <1>4, <1>6, <1>7
<1>9. PICK x \in N, i \in Index : Maps(m, x, i) /\ l = Under(m, x, i) BY LeadsAre
<1>10. x \in TableNode BY DEF Tree
<1>11. x.place \in Nat /\ x.depth \in 0 .. DEPTH_BOTTOM BY <1>10 DEF TableNode
<1>12. x.depth + 1 = LEVELS /\ x.place * ENTRIES + i = PlaceOf(base, LEVELS, v)
  BY <1>5, <1>8, <1>9 DEF Under
<1>13. x.depth = DEPTH_BOTTOM /\ DEPTH_BOTTOM \in 0 .. DEPTH_BOTTOM BY <1>7, <1>11, <1>12
<1>14. PlaceOf(base, DEPTH_BOTTOM, v) = PlaceOf(base, DEPTH_BOTTOM + 1, v) \div ENTRIES
  BY <1>13, PlaceAbove
<1>15. (x.place * ENTRIES + i) \div ENTRIES = x.place BY <1>11, Digits
<1>16. x.place = PlaceOf(base, x.depth, v) BY <1>7, <1>12, <1>13, <1>14, <1>15
<1>17. depth \in Nat /\ depth <= x.depth BY <1>7, <1>13
<1> QED BY <1>16, <1>17, PathAbove

(* What mmu_remove makes of the page tables.                               *)
Removed(s, N, w, M, other, r) ==
  /\ Good(w, M, other) /\ M \subseteq N
  /\ \A p \in Memory : w.mem[p] # s.mem[p] => p \in Pages(N)
  /\ LargePages(w.mem) = LargePages(s.mem)
  /\ \/ w.halted /\ Mapped(w.mem) = Mapped(s.mem)
     \/ Mapped(w.mem) = {t \in Mapped(s.mem) : t.virtual \notin RangeOf(r)}
  /\ ~w.halted => \A y \in M : y.depth # 0 /\ ~Empty(s, y.page) => ~Empty(w, y.page)

(* mmu_remove of a range that has tables. *)
LEMMA RemoveCollected ==
  ASSUME NEW s, NEW N, NEW other, Good(s, N, other), NEW r, Fits(r),
         NEW base, NEW a, NEW b, a = r.address, b = r.address + r.size,
         \A v \in RangeOf(r) : v \in Nat /\ base \in Nat /\ base <= v /\ InHalf(base, v),
         a < b, NoLarge(s.mem, N, base, a, b),
         \A v \in a .. b - 1 : Path(N, base, DEPTH_BOTTOM, v),
         NEW u, Painted(s, u, N, base, a, b, Clear), LeavesValid(Clear, a, b),
         \A v \in a .. b - 1 : ~Present(Clear[v]),
         NEW w, NEW M, Collected(u, N, w, M, other, base, 0, a, b)
  PROVE  Removed(s, N, w, M, other, r)
<1>1. /\ Good(w, M, other) /\ M \subseteq N
      /\ Leads(w.mem, M) = Leads(u.mem, N)
      /\ \A p \in Memory : w.mem[p] # u.mem[p] => p \in Pages(N)
      /\ \A z \in N, j \in Index :
           w.mem[z.page][j] # u.mem[z.page][j] => EntryOn(z, j, base, a, b)
      /\ ~w.halted => \A y \in M : y.depth > 0 /\ On(y, base, a, b) => ~Empty(w, y.page)
  BY DEF Collected
<1>2. a \in Nat /\ b \in Nat /\ RangeOf(r) = a .. b - 1 BY RangeIs DEF RangeOf
<1>3. base \in Nat /\ base <= a
  <2>1. a \in a .. b - 1 BY <1>2
  <2> QED BY <1>2, <2>1
<1>4. s.mem \in Contents /\ Tree(s.mem, N) /\ N \subseteq TableNode
      /\ \A y \in N : y.depth \in 0 .. DEPTH_BOTTOM /\ y.page \in Memory
  BY GoodTypes
<1>5. /\ Good(u, N, other)
      /\ \A l : l.depth <= DEPTH_BOTTOM => (l \in Leads(u.mem, N) <=> l \in Leads(s.mem, N))
  BY PaintedGood
<1>6. u.mem \in Contents /\ Tree(u.mem, N) BY <1>5, GoodTypes
<1>7. w.mem \in Contents /\ Tree(w.mem, M) BY <1>1, GoodTypes
<1>8. Rewritten(Leads(s.mem, N), Leads(u.mem, N), base, a, b, Clear)
  BY <1>2, <1>3, PaintedLeads
<1>9. \A t : t \in Mapped(u.mem) <=> t \in Mapped(s.mem) /\ t.virtual \notin RangeOf(r)
  <2> SUFFICES ASSUME NEW t
               PROVE  t \in Mapped(u.mem) <=> t \in Mapped(s.mem) /\ t.virtual \notin RangeOf(r)
    OBVIOUS
  <2>1. \A v \in a .. b - 1 : v \in Nat /\ InHalf(base, v) BY <1>2
  <2>2. t \in Mapped(u.mem) <=>
          \/ t \in Mapped(s.mem) /\ t.virtual \notin a .. b - 1
          \/ \E v \in a .. b - 1 :
               Present(Clear[v]) /\ t = [virtual |-> v, page |-> Clear[v].page, bits |-> Clear[v].bits]
    BY <1>4, <1>6, <1>8, <2>1, RewrittenMap
  <2> QED BY <1>2, <2>2
<1>10. Mapped(w.mem) = Mapped(u.mem) BY <1>1, <1>6, <1>7, SameMap
<1>11. Mapped(w.mem) = {t \in Mapped(s.mem) : t.virtual \notin RangeOf(r)} BY <1>9, <1>10
<1>12. LargePages(w.mem) = LargePages(s.mem)
  <2>1. \A l : l.depth <= DEPTH_BOTTOM => (l \in Leads(w.mem, M) <=> l \in Leads(s.mem, N))
    BY <1>1, <1>5
  <2> QED BY <1>4, <1>7, <2>1, SameLarge
<1>13. \A p \in Memory : w.mem[p] # s.mem[p] => p \in Pages(N) BY <1>1 DEF Painted
<1>14. ASSUME ~w.halted, NEW y \in M, y.depth # 0, ~Empty(s, y.page) PROVE ~Empty(w, y.page)
  <2>0. y \in N /\ y \in TableNode /\ y.depth > 0
    <3>1. y \in N BY <1>1
    <3>2. y.depth \in 0 .. DEPTH_BOTTOM BY <1>4, <3>1
    <3> QED BY <1>4, <1>14, <3>1, <3>2
  <2>1. CASE On(y, base, a, b) BY <1>1, <1>14, <2>0, <2>1
  <2>2. CASE ~On(y, base, a, b)
    <3>1. PICK i \in Index : Present(s.mem[y.page][i]) BY <1>14 DEF Empty
    <3>2. ~EntryOn(y, i, base, a, b) BY <1>2, <1>3, <2>0, <2>2, EntryOnTable
    <3>3. \A v \in a .. b - 1 : ~EntryFor(y, i, base, v)
      <4>1. DEPTH_BOTTOM + 1 = LEVELS BY Constants
      <4> QED BY <3>2, <4>1 DEF EntryFor, EntryOn
    <3>4. u.mem[y.page][i] = s.mem[y.page][i] BY <2>0, <3>3 DEF Painted
    <3>5. w.mem[y.page][i] = u.mem[y.page][i] BY <1>1, <2>0, <3>2
    <3> QED BY <3>1, <3>4, <3>5 DEF Empty
  <2> QED BY <2>1, <2>2
<1> QED BY <1>1, <1>11, <1>12, <1>13, <1>14 DEF Removed

(* mmu_remove of a range that is mapped, all of it. *)
LEMMA RemoveIs ==
  ASSUME NEW s, NEW N, NEW other, Good(s, N, other), ~s.halted,
         NEW r, Fits(r), LargePages(s.mem) \cap RangeOf(r) = {}, RangeOf(r) \subseteq {t.virtual : t \in Mapped(s.mem)}
  PROVE  \E M : Removed(s, N, ApplyNodesEntry(ApplyNodesEntry(s, "leaf", Loc(r), Clear),
                                              "gc", Loc(r), <<>>), M, other, r)
<1> DEFINE u == ApplyNodesEntry(s, "leaf", Loc(r), Clear)
           w == ApplyNodesEntry(u, "gc", Loc(r), <<>>)
           a == r.address
           b == r.address + r.size
<1>1. s.mem \in Contents /\ Tree(s.mem, N) BY GoodTypes
<1>2. a \in Nat /\ b \in Nat /\ RangeOf(r) = a .. b - 1
      /\ Loc(r) = [page |-> Root, depth |-> 0, start |-> a, end |-> b]
      /\ b <= VIRTUAL - Span(0)
  <2>1. a \in Nat /\ r.size \in Nat /\ b <= VIRTUAL - Span(0)
        /\ Loc(r) = [page |-> Root, depth |-> 0, start |-> a, end |-> b]
    BY RangeIs
  <2>2. RangeOf(r) = a .. b - 1 BY <2>1 DEF RangeOf
  <2>3. b \in Nat BY <2>1
  <2> QED BY <2>1, <2>2, <2>3
<1>3. CASE ~Checked(r)
  <2>1. u = Halted(s) BY <1>3, EntryIs
  <2>2. Good(u, N, other) /\ u.mem = s.mem /\ u.halted BY <2>1, HaltedGood
  <2> HIDE DEF u
  <2>3. w = Halted(u) BY <2>2, EntryIs
  <2>4. Good(w, N, other) /\ w.mem = u.mem /\ w.halted BY <2>2, <2>3, HaltedGood
  <2> HIDE DEF w
  <2>5. Removed(s, N, w, N, other, r) BY <2>2, <2>4 DEF Removed
  <2> QED BY <2>5 DEF w, u
<1>4. CASE Checked(r)
  <2>1. PICK base : /\ Covers(base, 0, 0, a, b)
                    /\ \A v \in RangeOf(r) : v \in Nat /\ base \in Nat /\ base <= v /\ InHalf(base, v)
    BY <1>4, CheckedIs
  <2>2. NoLarge(s.mem, N, base, a, b)
    <3>1. LargePages(s.mem) \cap (a .. b - 1) = {} BY <1>2
    <3>2. \A v \in a .. b - 1 : v \in Nat /\ InHalf(base, v) BY <1>2, <2>1
    <3> QED BY <1>1, <3>1, <3>2, NoLargeIs
  <2>3. a < b BY <2>1 DEF Covers
  <2>4. ASSUME NEW v \in a .. b - 1, NEW depth \in 0 .. DEPTH_BOTTOM
        PROVE  Path(N, base, depth, v)
    <3>1. v \in RangeOf(r) BY <1>2
    <3>2. v \in Nat /\ base \in Nat /\ base <= v /\ InHalf(base, v) BY <2>1, <3>1
    <3>3. v \in {t.virtual : t \in Mapped(s.mem)} BY <3>1
    <3> HIDE DEF a, b
    <3> QED BY <1>1, <2>2, <3>2, <3>3, PathToMapped
  <2>5. Paths(N, base, 0, a, b)
    <3>1. 0 + 1 .. DEPTH_BOTTOM \subseteq 0 .. DEPTH_BOTTOM OBVIOUS
    <3> HIDE DEF a, b
    <3> QED BY <2>4, <3>1 DEF Paths
  <2>6. \A v \in a .. b - 1 : Clear[v] = Zero
    <3>1. a .. b - 1 \subseteq 0 .. VIRTUAL - 1 BY <1>2, HalfIs
    <3> QED BY <3>1, ClearIs
  <2>7. LeavesValid(Clear, a, b) BY <2>6, ClearIs DEF LeavesValid
  <2>8. u = ApplyNodes("leaf", Clear)[LEVELS - 0][<<s, Loc(r)>>] BY <1>4, EntryIs
  <2> HIDE DEF u
  <2>9. Painted(s, u, N, base, a, b, Clear)
    <3>1. LeafValues("leaf", Clear) BY ClearIs
    <3> HIDE DEF a, b
    <3> QED BY <1>2, <2>1, <2>5, <2>7, <2>8, <3>1, WholePaint
  <2>10. ~u.halted BY <2>9 DEF Painted
  <2>11. /\ Good(u, N, other)
         /\ \A l : l.depth <= DEPTH_BOTTOM => (l \in Leads(u.mem, N) <=> l \in Leads(s.mem, N))
    <3> HIDE DEF a, b
    <3> QED BY <2>7, <2>9, PaintedGood
  <2>12. NoLarge(u.mem, N, base, a, b) BY <2>2, <2>11 DEF NoLarge
  <2>13. w = ApplyNodes("gc", <<>>)[LEVELS - 0][<<u, Loc(r)>>] BY <1>4, <2>10, EntryIs
  <2> HIDE DEF w
  <2>14. PICK M : Collected(u, N, w, M, other, base, 0, a, b)
    <3> HIDE DEF a, b
    <3> QED BY <1>2, <2>1, <2>10, <2>11, <2>12, <2>13, WholeCollect
  <2>15. Removed(s, N, w, M, other, r)
    <3>1. a = r.address /\ b = r.address + r.size OBVIOUS
    <3>2. \A v \in a .. b - 1 : Path(N, base, DEPTH_BOTTOM, v)
      <4>1. DEPTH_BOTTOM \in 0 .. DEPTH_BOTTOM BY Constants
      <4> QED BY <2>4, <4>1
    <3>3. \A v \in a .. b - 1 : ~Present(Clear[v]) BY <2>6, ClearIs
    <3> HIDE DEF a, b
    <3> QED BY <2>1, <2>2, <2>3, <2>7, <2>9, <2>14, <3>1, <3>2, <3>3, RemoveCollected
  <2> QED BY <2>15 DEF w, u
<1> QED BY <1>3, <1>4

------------------------------------------------------------------------------
(* The specification *)

(* A good state, said of its memory.                                       *)
LEMMA GoodIs ==
  ASSUME NEW s, NEW N, Good(s, N, {})
  PROVE  /\ s.mem \in [Memory -> [Index -> Entry]] /\ s.held \subseteq Pool /\ s.halted \in BOOLEAN
         /\ TablesOf(s.mem) = Pages(N) /\ TablesOf(s.mem) \subseteq Memory
         /\ EntriesValid(s.mem) /\ IsTree(s.mem)
         /\ TablesOf(s.mem) \cap Pool = s.held
<1>1. /\ s \in WalkState /\ s.mem \in Contents /\ Tree(s.mem, N)
      /\ Pages(N) \subseteq Memory /\ s.held = Pages(N) \cap Pool
  BY GoodTypes DEF Good
<1>2. TableNodes(s.mem) = N BY <1>1, TreeIs
<1>3. TablesOf(s.mem) = Pages(N) BY <1>2 DEF TablesOf, Pages
<1>4. EntriesValid(s.mem) BY <1>1, <1>3 DEF EntriesValid, Tree, Pages
<1>5. IsTree(s.mem) BY <1>1, <1>2 DEF IsTree, Tree
<1> QED BY <1>1, <1>3, <1>4, <1>5 DEF WalkState

(* The inductive invariant: besides what is to be shown, the large pages   *)
(* are the bootloader's, so that no request meets one.                     *)
Inv ==
  /\ TypeOK /\ TablesAreOwned /\ NoEmptyTables
  /\ LargePages(mem) = LargePages(BootMemory)

(* The invariant makes the state a good one. *)
LEMMA InvIs ==
  ASSUME Inv
  PROVE  /\ Good(State, TableNodes(mem), {})
         /\ Tables = Pages(TableNodes(mem))
         /\ ~halted => \A y \in TableNodes(mem) : y.page \in Pool => ~Empty(State, y.page)
<1>1. State.mem = mem /\ State.held = held /\ State.halted = halted BY DEF State
<1>2. State \in WalkState BY DEF State, WalkState, Inv, TypeOK
<1>3. Tables = Pages(TableNodes(mem)) BY DEF Tables, TablesOf, Pages
<1>4. Tree(mem, TableNodes(mem))
  BY TreeExists DEF Inv, TypeOK, TablesAreOwned, Contents
<1>5. held = Pages(TableNodes(mem)) \cap Pool BY <1>3 DEF Inv, TablesAreOwned
<1>6. Good(State, TableNodes(mem), {}) BY <1>1, <1>2, <1>4, <1>5 DEF Good
<1>7. ASSUME ~halted, NEW y \in TableNodes(mem), y.page \in Pool PROVE ~Empty(State, y.page)
  <2>1. y.page \in held BY <1>5, <1>7 DEF Pages
  <2> QED BY <1>7, <2>1 DEF Inv, NoEmptyTables
<1> QED BY <1>3, <1>6, <1>7

(* The next state, when the state a call ends in is good.                  *)
LEMMA BecomeInv ==
  ASSUME NEW w, NEW M, Good(w, M, {}), Become(w),
         LargePages(w.mem) = LargePages(BootMemory),
         ~w.halted => \A y \in M : y.page \in Pool => ~Empty(w, y.page)
  PROVE  Inv' /\ Tables' = Pages(M)
<1>1. mem' = w.mem /\ held' = w.held /\ halted' = w.halted BY DEF Become
<1>2. /\ w.mem \in [Memory -> [Index -> Entry]] /\ w.held \subseteq Pool /\ w.halted \in BOOLEAN
      /\ TablesOf(w.mem) = Pages(M) /\ TablesOf(w.mem) \subseteq Memory
      /\ EntriesValid(w.mem) /\ IsTree(w.mem)
      /\ TablesOf(w.mem) \cap Pool = w.held
  BY GoodIs
<1>3. TypeOK' BY <1>1, <1>2 DEF TypeOK
<1>4. Tables' = Pages(M) BY <1>1, <1>2 DEF Tables
<1>5. TablesAreOwned' BY <1>1, <1>2, <1>4 DEF TablesAreOwned
<1>6. NoEmptyTables'
  <2> SUFFICES ASSUME ~halted', NEW table \in held' PROVE ~Empty(State, table)'
    BY DEF NoEmptyTables
  <2>1. PICK y \in M : y.page = table BY <1>1, <1>2 DEF Pages
  <2>2. y.page \in Pool BY <1>1, <1>2, <2>1
  <2>3. ~Empty(w, table) BY <1>1, <2>1, <2>2
  <2>4. State'.mem = w.mem BY <1>1 DEF State
  <2> QED BY <2>3, <2>4 DEF Empty
<1> QED BY <1>1, <1>3, <1>4, <1>5, <1>6 DEF Inv

(* A request of a caller fits, and meets none of the large pages.          *)
LEMMA NoLargeRequested ==
  ASSUME ~LastSlot, LargePages(mem) = LargePages(BootMemory), NEW r \in Request
  PROVE  Fits(r) /\ LargePages(mem) \cap RangeOf(r) = {}
<1>1. Fits(r) BY RequestFits
<1>2. LargePages(BootMemory) \cap (r.address .. r.address + r.size - 1) = {}
  BY CallerAssumption, Zenon
<1> QED BY <1>1, <1>2 DEF RangeOf

(* What a step writes.                                                     *)
WritesTables == \A page \in Memory : mem'[page] # mem[page] => page \in Tables \cup Tables'

(* A step of mmu_assign keeps the invariant and the promise. *)
LEMMA AssignStep ==
  ASSUME ~LastSlot, Inv, NEW r \in Request, NEW flags, NEW page \in Page,
         MmuAssign(r, flags, page)
  PROVE  /\ Inv' /\ WritesTables
         /\ ~halted /\ halted' \in BOOLEAN
         /\ Promise!Assign(Mapped(mem), Mapped(mem'), r, flags, page)
<1> DEFINE N == TableNodes(mem)
           w == ApplyNodesEntry(ApplyNodesEntry(State, "reserve", Loc(r), <<>>),
                                "leaf", Loc(r), Linear(r, flags, page))
<1>1. ~halted /\ Become(w) BY DEF MmuAssign
<1>2. State.mem = mem /\ State.halted = halted BY DEF State
<1>3. /\ Good(State, N, {}) /\ Tables = Pages(N)
      /\ \A y \in N : y.page \in Pool => ~Empty(State, y.page)
  BY <1>1, InvIs
<1>4. LargePages(mem) = LargePages(BootMemory) BY DEF Inv
<1>5. \E M : Assigned(State, N, w, M, {}, r, flags, page)
  <2>1. Fits(r) /\ LargePages(mem) \cap RangeOf(r) = {} BY <1>4, NoLargeRequested
  <2>2. page \in Nat /\ page .. page + r.size - 1 \subseteq Memory
    <3>1. page \in Memory /\ page .. page + r.size - 1 \subseteq Memory BY CallerAssumption, Zenon
    <3> QED BY <3>1, Constants
  <2> QED BY <1>1, <1>2, <1>3, <2>1, <2>2, AssignIs
<1> HIDE DEF N, w
<1>6. PICK M : Assigned(State, N, w, M, {}, r, flags, page) BY <1>5
<1>7. Good(w, M, {}) /\ N \subseteq M /\ LargePages(w.mem) = LargePages(BootMemory)
  BY <1>2, <1>4, <1>6 DEF Assigned
<1>8. ASSUME ~w.halted, NEW y \in M, y.page \in Pool PROVE ~Empty(w, y.page)
  <2>1. y \in N => ~Empty(State, y.page) BY <1>3, <1>8
  <2> QED BY <1>6, <1>8, <2>1 DEF Assigned
<1>9. Inv' /\ Tables' = Pages(M) BY <1>1, <1>7, <1>8, BecomeInv
<1>10. mem' = w.mem /\ halted' = w.halted BY <1>1 DEF Become
<1>11. WritesTables
  <2>1. \A p \in Memory : w.mem[p] # mem[p] => p \in Pages(M) BY <1>2, <1>6 DEF Assigned
  <2> QED BY <1>9, <1>10, <2>1 DEF WritesTables
<1>12. halted' \in BOOLEAN BY <1>9 DEF Inv, TypeOK
<1>13. Promise!Assign(Mapped(mem), Mapped(mem'), r, flags, page)
  <2>1. \/ w.halted /\ Mapped(w.mem) = Mapped(mem)
        \/ /\ ~w.halted
           /\ Mapped(w.mem) = {t \in Mapped(mem) : t.virtual \notin RangeOf(r)} \cup
                {[virtual |-> v, page |-> page + (v - r.address), bits |-> ConvertFlags(flags)] :
                   v \in RangeOf(r)}
    BY <1>2, <1>6 DEF Assigned
  <2>2. halted \in BOOLEAN BY DEF Inv, TypeOK
  <2>3. ~halted' => UNCHANGED halted BY <1>1, <1>12, <2>2, Zenon
  <2>4. CASE halted' /\ Mapped(mem') = Mapped(mem) BY <2>4 DEF Promise!Assign
  <2>5. CASE /\ ~halted'
             /\ Mapped(mem') = {t \in Mapped(mem) : t.virtual \notin RangeOf(r)} \cup
                  {[virtual |-> v, page |-> page + (v - r.address), bits |-> ConvertFlags(flags)] :
                     v \in RangeOf(r)}
    BY <2>3, <2>5 DEF Promise!Assign, Promise!Outside, Promise!Pages, RangeOf
  <2> QED BY <1>10, <2>1, <2>4, <2>5
<1> QED BY <1>1, <1>9, <1>11, <1>12, <1>13

(* A step of mmu_remove keeps the invariant and the promise. *)
LEMMA RemoveStep ==
  ASSUME ~LastSlot, ~RemoveUnmapped, Inv, NEW r \in Request, MmuRemove(r)
  PROVE  /\ Inv' /\ WritesTables
         /\ ~halted /\ halted' \in BOOLEAN
         /\ Promise!Remove(Mapped(mem), Mapped(mem'), r)
<1> DEFINE N == TableNodes(mem)
           w == ApplyNodesEntry(ApplyNodesEntry(State, "leaf", Loc(r), Clear),
                                "gc", Loc(r), <<>>)
<1>1. /\ ~halted /\ Become(w)
      /\ r.address .. r.address + r.size - 1 \subseteq {t.virtual : t \in Mapped(mem)}
  BY DEF MmuRemove
<1>2. State.mem = mem /\ State.halted = halted BY DEF State
<1>3. /\ Good(State, N, {}) /\ Tables = Pages(N)
      /\ \A y \in N : y.page \in Pool => ~Empty(State, y.page)
  BY <1>1, InvIs
<1>4. LargePages(mem) = LargePages(BootMemory) BY DEF Inv
<1>5. \E M : Removed(State, N, w, M, {}, r)
  <2>1. RangeOf(r) \subseteq {t.virtual : t \in Mapped(mem)} BY <1>1 DEF RangeOf
  <2>2. Fits(r) /\ LargePages(mem) \cap RangeOf(r) = {} BY <1>4, NoLargeRequested
  <2> QED BY <1>1, <1>2, <1>3, <2>1, <2>2, RemoveIs
<1> HIDE DEF N, w
<1>6. PICK M : Removed(State, N, w, M, {}, r) BY <1>5
<1>7. Good(w, M, {}) /\ M \subseteq N /\ LargePages(w.mem) = LargePages(BootMemory)
  BY <1>2, <1>4, <1>6 DEF Removed
<1>8. ASSUME ~w.halted, NEW y \in M, y.page \in Pool PROVE ~Empty(w, y.page)
  <2>1. y.depth # 0
    <3>1. \A x \in M : x.depth = 0 => x = RootNode BY <1>7 DEF Good, Tree
    <3>2. RootNode.page = Root /\ Root \notin Pool BY Constants DEF RootNode
    <3> QED BY <1>8, <3>1, <3>2
  <2>2. y \in N /\ ~Empty(State, y.page) BY <1>3, <1>7, <1>8
  <2> QED BY <1>6, <1>8, <2>1, <2>2 DEF Removed
<1>9. Inv' /\ Tables' = Pages(M) BY <1>1, <1>7, <1>8, BecomeInv
<1>10. mem' = w.mem /\ halted' = w.halted BY <1>1 DEF Become
<1>11. WritesTables
  <2>1. \A p \in Memory : w.mem[p] # mem[p] => p \in Pages(N) BY <1>2, <1>6 DEF Removed
  <2> QED BY <1>3, <1>10, <2>1 DEF WritesTables
<1>12. halted' \in BOOLEAN BY <1>9 DEF Inv, TypeOK
<1>13. Promise!Remove(Mapped(mem), Mapped(mem'), r)
  <2>1. \/ w.halted /\ Mapped(w.mem) = Mapped(mem)
        \/ Mapped(w.mem) = {t \in Mapped(mem) : t.virtual \notin RangeOf(r)}
    BY <1>2, <1>6 DEF Removed
  <2> QED BY <1>10, <2>1 DEF Promise!Remove, Promise!Outside, Promise!Pages, RangeOf
<1> QED BY <1>1, <1>9, <1>11, <1>12, <1>13

(* The invariant holds at first. *)
LEMMA InitInv == Init => Inv
<1> SUFFICES ASSUME Init PROVE Inv OBVIOUS
<1>1. mem = BootMemory /\ held = {} /\ halted = FALSE BY DEF Init
<1>2. BootMemory \in [Memory -> [Index -> Entry]] BY LayoutAssumption
<1>3. /\ TablesOf(BootMemory) \subseteq Memory \ Pool
      /\ IsTree(BootMemory) /\ EntriesValid(BootMemory)
  BY BootAssumption
<1>4. TypeOK BY <1>1, <1>2, <1>3 DEF TypeOK
<1>5. TablesAreOwned BY <1>1, <1>3 DEF TablesAreOwned, Tables
<1>6. NoEmptyTables BY <1>1 DEF NoEmptyTables
<1> QED BY <1>1, <1>4, <1>5, <1>6 DEF Inv

(* Every step keeps it, and writes to tables only. *)
LEMMA NextInv ==
  ASSUME ~LastSlot, ~RemoveUnmapped, Inv, [Next]_vars
  PROVE  Inv' /\ (UNCHANGED vars \/ WritesTables)
<1>1. CASE UNCHANGED vars
  <2>1. mem' = mem /\ held' = held /\ halted' = halted BY <1>1 DEF vars
  <2>2. TypeOK' BY <2>1 DEF Inv, TypeOK
  <2>3. TablesAreOwned' BY <2>1 DEF Inv, TablesAreOwned, Tables
  <2>4. NoEmptyTables' BY <2>1 DEF Inv, NoEmptyTables, State
  <2> QED BY <1>1, <2>1, <2>2, <2>3, <2>4 DEF Inv
<1>2. ASSUME NEW r \in Request, NEW flags \in Flags, NEW page \in Page,
             MmuAssign(r, flags, page)
      PROVE  Inv' /\ WritesTables
  BY <1>2, AssignStep
<1>3. ASSUME NEW r \in Request, MmuRemove(r) PROVE Inv' /\ WritesTables
  BY <1>3, RemoveStep
<1> QED BY <1>1, <1>2, <1>3 DEF Next, Halt

(* The invariant holds always. *)
LEMMA InvHolds ==
  ASSUME ~LastSlot, ~RemoveUnmapped PROVE Spec => []Inv
<1>1. Init => Inv BY InitInv
<1>2. Inv /\ [Next]_vars => Inv' BY NextInv
<1> QED BY <1>1, <1>2, PTL DEF Spec

(* The state keeps its types: what the tables of the tree refer to is RAM, *)
(* and so are the tables, after every mmu_assign and mmu_remove.           *)
THEOREM TypeCorrect ==
  ASSUME ~LastSlot, ~RemoveUnmapped PROVE Spec => []TypeOK
<1>1. Inv => TypeOK BY DEF Inv
<1> QED BY <1>1, InvHolds, PTL

(* No page table is lost and none is used after it is freed: the pages     *)
(* taken from the allocator are the tables of the tree, for any memory a   *)
(* bootloader leaves and also when an allocation fails halfway.            *)
THEOREM TablesStayOwned ==
  ASSUME ~LastSlot, ~RemoveUnmapped PROVE Spec => []TablesAreOwned
<1>1. Inv => TablesAreOwned BY DEF Inv
<1> QED BY <1>1, InvHolds, PTL

(* mmu_remove collects every table it empties, at every level.             *)
THEOREM NoEmptyTablesStay ==
  ASSUME ~LastSlot, ~RemoveUnmapped PROVE Spec => []NoEmptyTables
<1>1. Inv => NoEmptyTables BY DEF Inv
<1> QED BY <1>1, InvHolds, PTL

(* mmu_assign and mmu_remove write to page tables only.                    *)
THEOREM OnlyTablesAreWritten ==
  ASSUME ~LastSlot, ~RemoveUnmapped PROVE Spec => OnlyTablesWritten
<1>1. Inv /\ [Next]_vars => [WritesTables]_vars BY NextInv
<1> QED BY <1>1, InvHolds, PTL DEF Spec, OnlyTablesWritten, WritesTables

(* The page tables are the map that mmu.h promises: a call maps or unmaps  *)
(* its whole range and nothing else, or panics and changes no translation. *)
THEOREM Refinement ==
  ASSUME ~LastSlot, ~RemoveUnmapped PROVE Spec => ImplementsAddressMap
<1>1. Init => Promise!Init BY DEF Init, Promise!Init
<1>2. Inv /\ [Next]_vars => [Promise!Next]_(Promise!vars)
  <2> SUFFICES ASSUME Inv, [Next]_vars PROVE [Promise!Next]_(Promise!vars) OBVIOUS
  <2>1. CASE UNCHANGED vars BY <2>1 DEF vars, Promise!vars
  <2>2. ASSUME NEW r \in Request, NEW flags \in Flags, NEW page \in Page,
               MmuAssign(r, flags, page)
        PROVE  Promise!Next
    BY <2>2, AssignStep DEF Promise!Next
  <2>3. ASSUME NEW r \in Request, MmuRemove(r) PROVE Promise!Next
    BY <2>3, RemoveStep DEF Promise!Next
  <2> QED BY <2>1, <2>2, <2>3 DEF Next, Halt
<1> QED BY <1>1, <1>2, InvHolds, PTL DEF Spec, ImplementsAddressMap, Promise!Spec
==============================================================================
