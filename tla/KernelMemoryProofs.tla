-------------------------- MODULE KernelMemoryProofs --------------------------
(***************************************************************************)
(* The self tests, proved for all sizes of tables and numbers of levels,   *)
(* all memories a bootloader may leave and every amount of memory, with a  *)
(* processor that keeps no translation the page tables no longer hold.     *)
(* The calls of the driver are those of MmuProofs; what is added are the   *)
(* tables of the lower half, the page of the test and the places in        *)
(* kernel_main.                                                            *)
(***************************************************************************)
EXTENDS KernelMemory, MmuProofs

------------------------------------------------------------------------------
(* The lower half *)

(* A table or an entry for an address of the lower half.                   *)
Lower(y) == On(y, 0, 0, HALF)

(* What is mapped there.                                                   *)
LowerMap(m) == {t \in Mapped(m) : t.virtual < HALF}

(* The lower half is a number of whole regions, at each depth but that of  *)
(* the top-level table.                                                    *)
LEMMA HalfDivides ==
  ASSUME NEW depth \in 1 .. LEVELS PROVE HALF \in Nat /\ HALF % Region(depth) = 0
<1> DEFINE S == {n \in Nat : n + 1 <= LEVELS => \E q \in Nat : HALF = Region(n + 1) * q}
<1>1. LEVELS \in Nat /\ LEVELS >= 2 /\ DEPTH_BOTTOM = LEVELS - 1 /\ ENTRIES \in Nat \ {0}
  BY Constants
<1>2. 0 \in S
  <2>1. 0 \in 0 .. DEPTH_BOTTOM /\ 0 + 1 = 1 BY <1>1
  <2>2. Region(1) = Span(0) BY <2>1, RegionIs
  <2>3. ENTRIES \div 2 \in Nat BY <1>1
  <2> QED BY <2>1, <2>2, <2>3 DEF HALF
<1>3. ASSUME NEW n \in S \cap Nat PROVE n + 1 \in S
  <2> SUFFICES ASSUME (n + 1) + 1 <= LEVELS PROVE \E q \in Nat : HALF = Region((n + 1) + 1) * q
    OBVIOUS
  <2>1. n + 1 \in 0 .. DEPTH_BOTTOM /\ n + 1 <= LEVELS /\ (n + 1) + 1 \in 0 .. LEVELS BY <1>1
  <2>2. PICK q \in Nat : HALF = Region(n + 1) * q BY <2>1
  <2> DEFINE k == Region((n + 1) + 1)
  <2>3. Region(n + 1) = ENTRIES * k /\ k \in Nat BY <2>1, RegionIs
  <2> HIDE DEF k
  <2>4. \A x, y, z \in Nat : (x * y) * z = y * (x * z) /\ x * z \in Nat OBVIOUS
  <2>5. HALF = k * (ENTRIES * q) /\ ENTRIES * q \in Nat BY <1>1, <2>2, <2>3, <2>4
  <2> QED BY <2>5 DEF k
<1> HIDE DEF S
<1>4. \A n \in Nat : n \in S BY <1>2, <1>3, Induction
<1>5. depth - 1 \in S /\ (depth - 1) + 1 = depth /\ depth \in 0 .. LEVELS BY <1>1, <1>4
<1>6. \E q \in Nat : HALF = Region(depth) * q BY <1>5 DEF S
<1>7. HALF \in Nat /\ Region(depth) \in Nat \ {0} BY <1>5, HalfIs, RegionIs
<1> QED BY <1>6, <1>7, MultipleIs

(* An address under a place, from the place.                               *)
LEMMA PlaceStart ==
  ASSUME NEW depth \in 0 .. LEVELS, NEW place \in Nat
  PROVE  place * Region(depth) \in Nat /\ PlaceOf(0, depth, place * Region(depth)) = place
<1>1. Region(depth) \in Nat \ {0} BY RegionIs
<1> DEFINE k == Region(depth)
<1> HIDE DEF k
<1>2. k \in Nat \ {0} BY <1>1 DEF k
<1>3. place * k = k * place + 0 /\ place * k \in Nat /\ 0 \in 0 .. k - 1 BY <1>2
<1>4. (k * place + 0) \div k = place BY <1>2, <1>3, DivModUnique
<1>5. (place * k - 0) \div k = place BY <1>3, <1>4
<1> QED BY <1>3, <1>5 DEF PlaceOf, k

(* What is below a table of the lower half is in the lower half, and what  *)
(* is below another table is not.                                          *)
LEMMA LowerBelow ==
  ASSUME NEW z \in TableNode, z.depth # 0, NEW j \in Index, NEW y,
         y.depth = z.depth + 1, y.place = z.place * ENTRIES + j
  PROVE  Lower(y) <=> Lower(z)
<1> DEFINE d == z.depth
           R == Region(d)
           k == Region(d + 1)
<1>1. d \in 0 .. DEPTH_BOTTOM /\ d \in 1 .. LEVELS /\ d + 1 \in 0 .. LEVELS /\ z.place \in Nat
      /\ d \in 0 .. LEVELS
  BY Constants DEF TableNode
<1>2. R \in Nat \ {0} /\ k \in Nat \ {0} /\ R = ENTRIES * k BY <1>1, RegionIs
<1>3. HALF \in Nat /\ HALF % R = 0 BY <1>1, HalfDivides
<1>4. ENTRIES \in Nat \ {0} /\ Index = 0 .. ENTRIES - 1 BY Constants
<1>5. ASSUME Lower(y) PROVE Lower(z)
  <2>1. EntryOn(z, j, 0, 0, HALF) BY <1>5 DEF Lower, On, EntryOn
  <2> QED BY <1>3, <2>1, EntryOnTable DEF Lower
<1>6. ASSUME Lower(z) PROVE Lower(y)
  <2>1. PICK v \in 0 .. HALF - 1 : z.place = PlaceOf(0, d, v) BY <1>6 DEF Lower, On
  <2>2. z.place = v \div R
    <3>1. v - 0 = v BY <1>3
    <3> QED BY <2>1, <3>1 DEF PlaceOf
  <2> DEFINE c == (z.place * ENTRIES + j) * k
  <2>3. y.place \in Nat BY <1>1, Digits
  <2>4. c \in Nat /\ PlaceOf(0, d + 1, c) = y.place BY <1>1, <2>3, PlaceStart
  <2> HIDE DEF R, k
  <2>5. v \in Nat /\ v < HALF BY <1>3
  <2>6. R * z.place <= v /\ R * z.place \in Nat BY <1>2, <2>2, <2>5, DivBounds
  <2>7. R * z.place + R <= HALF
    <3>1. (R * z.place) % R = 0 BY <1>1, <1>2, <2>6, MultipleIs
    <3> QED BY <1>2, <1>3, <2>5, <2>6, <3>1, MultiplesApart
  <2>8. c < R * z.place + R
    <3>1. j \in Int /\ ENTRIES \in Int /\ j < ENTRIES BY <1>4
    <3>2. k * j + k <= k * ENTRIES /\ k * j \in Int BY <1>2, <3>1, UnitsApart
    <3>3. \A p, q, e, i \in Nat : (p * e + i) * q = (e * q) * p + q * i OBVIOUS
    <3>4. c = (ENTRIES * k) * z.place + k * j BY <1>1, <1>2, <1>4, <3>3
    <3>5. k * ENTRIES = ENTRIES * k BY <1>2, <1>4
    <3> HIDE DEF c
    <3>6. c = R * z.place + k * j BY <1>2, <3>4
    <3> QED BY <1>2, <2>6, <3>2, <3>5, <3>6
  <2>9. c \in 0 .. HALF - 1
    <3> HIDE DEF c
    <3> QED BY <1>3, <2>4, <2>6, <2>7, <2>8, <1>2
  <2>10. y.place = PlaceOf(0, y.depth, c) BY <2>4
  <2> HIDE DEF c
  <2> QED BY <2>9, <2>10 DEF Lower, On
<1> QED BY <1>5, <1>6

(* Of the top-level table, the entries of the first half are in the lower  *)
(* half.                                                                   *)
LEMMA LowerTop ==
  ASSUME NEW y, y.depth = 1, NEW i \in Index, y.place = i
  PROVE  Lower(y) <=> i < ENTRIES \div 2
<1> DEFINE k == Region(1)
           h == ENTRIES \div 2
<1>1. ENTRIES \in Nat \ {0} /\ Index = 0 .. ENTRIES - 1 /\ 0 \in 0 .. DEPTH_BOTTOM /\ 0 + 1 = 1
      /\ 1 \in 0 .. LEVELS
  BY Constants
<1>2. k \in Nat \ {0} /\ k = Span(0) BY <1>1, RegionIs
<1>3. h \in Nat /\ i \in Nat BY <1>1
<1>4. HALF = k * h /\ HALF \in Nat BY <1>2, HalfIs DEF HALF
<1>5. ASSUME Lower(y) PROVE i < h
  <2>1. PICK v \in 0 .. HALF - 1 : i = PlaceOf(0, 1, v) BY <1>5 DEF Lower, On
  <2>2. i = v \div k
    <3>1. v - 0 = v BY <1>4
    <3> QED BY <2>1, <3>1 DEF PlaceOf
  <2> HIDE DEF k, h
  <2>3. v \in Nat /\ v < HALF BY <1>4
  <2>4. k * i <= v BY <1>2, <2>2, <2>3, DivBounds
  <2>5. ASSUME h <= i PROVE FALSE
    <3>1. k * h <= k * i /\ k * i \in Int BY <1>2, <1>3, <2>5, TimesMonotonic
    <3> QED BY <1>4, <2>3, <2>4, <3>1
  <2> QED BY <1>3, <2>5
<1>6. ASSUME i < h PROVE Lower(y)
  <2>1. i * Region(1) \in Nat /\ PlaceOf(0, 1, i * Region(1)) = i BY <1>1, <1>3, PlaceStart
  <2>2. i * k < HALF
    <3> HIDE DEF k, h
    <3>1. k * i + k <= k * h /\ k * i \in Nat /\ i * k = k * i
      BY <1>2, <1>3, <1>6, UnitsApart, TimesNat
    <3> QED BY <1>2, <1>4, <3>1
  <2>3. i * Region(1) \in 0 .. HALF - 1 BY <1>4, <2>1, <2>2
  <2> QED BY <2>1, <2>3 DEF Lower, On
<1> QED BY <1>5, <1>6

(* A translation has an address.                                           *)
LEMMA TranslationTypes ==
  ASSUME NEW l, l.place \in Nat, l.depth \in 1 .. LEVELS, NEW t \in Translations(l.depth - 1, l)
  PROVE  t.virtual \in Nat
<1> DEFINE k == Span(l.depth - 1)
<1>1. l.depth - 1 \in 0 .. DEPTH_BOTTOM BY Constants
<1>2. k \in Nat \ {0} BY <1>1, SpanIs
<1>3. PICK j \in 0 .. k - 1 : t.virtual = SignExtend(l.place * k + j) BY DEF Translations
<1> HIDE DEF k
<1>4. l.place * k + j \in Nat BY <1>2
<1>5. HALF \in Nat /\ VIRTUAL \in Nat /\ VIRTUAL > 2 * HALF BY HalfIs
<1> QED BY <1>3, <1>4, <1>5 DEF SignExtend

(* A lead in the lower half maps an address there, and no other does.      *)
LEMMA LowerLead ==
  ASSUME NEW m \in Contents, NEW N, Tree(m, N)
  PROVE  LowerMap(m) = {} <=> \A l \in Leads(m, N) : ~Lower(l)
<1>1. HALF \in Nat BY HalfIs
<1>2. ASSUME NEW l \in Leads(m, N), Lower(l) PROVE LowerMap(m) # {}
  <2>1. PICK v \in 0 .. HALF - 1 : l.place = PlaceOf(0, l.depth, v) BY <1>2 DEF Lower, On
  <2>2. v \in Nat /\ v < HALF /\ InHalf(0, v) BY <1>1 DEF InHalf
  <2>3. l.place \in Nat /\ l.depth \in 1 .. LEVELS BY LeadTypes
  <2>4. v \in Covered(l) BY <2>1, <2>2, <2>3, PlaceIs
  <2>5. PICK t \in Translations(l.depth - 1, l) : t.virtual = v BY <2>4 DEF Covered
  <2>6. t \in Mapped(m) BY <2>5, MappedIs
  <2> QED BY <2>2, <2>5, <2>6 DEF LowerMap
<1>3. ASSUME NEW t \in LowerMap(m) PROVE \E l \in Leads(m, N) : Lower(l)
  <2>1. t \in Mapped(m) /\ t.virtual < HALF BY DEF LowerMap
  <2>2. PICK l \in Leads(m, N) : t \in Translations(l.depth - 1, l) BY <2>1, MappedIs
  <2>3. l.place \in Nat /\ l.depth \in 1 .. LEVELS BY LeadTypes
  <2>4. t.virtual \in Nat BY <2>2, <2>3, TranslationTypes
  <2>5. t.virtual \in Covered(l) BY <2>2 DEF Covered
  <2>6. InHalf(0, t.virtual) BY <2>1 DEF InHalf
  <2>7. l.place = PlaceOf(0, l.depth, t.virtual) BY <2>3, <2>4, <2>5, <2>6, PlaceIs
  <2>8. t.virtual \in 0 .. HALF - 1 BY <1>1, <2>1, <2>4
  <2> QED BY <2>7, <2>8 DEF Lower, On
<1> QED BY <1>2, <1>3

------------------------------------------------------------------------------
(* Changes of the memory by the kernel *)

(* The tables outside of the lower half.                                   *)
Upper(N) == {x \in N : x.depth = 0 \/ ~Lower(x)}

(* The memory with the lower half cleared. *)
Cleared(m) == [m EXCEPT ![Root] = ClearedTable(@)]

(* What is left in an entry after the lower half was cleared is as before  *)
(* and leads out of it.                                                    *)
LEMMA ClearedEntry ==
  ASSUME NEW m \in Contents, NEW N, Tree(m, N), NEW k, k = Cleared(m),
         NEW x \in Upper(N), NEW i \in Index, Present(k[x.page][i])
  PROVE  k[x.page][i] = m[x.page][i] /\ ~Lower(Under(m, x, i)) /\ Under(k, x, i) = Under(m, x, i)
<1>1. x \in N /\ x \in TableNode BY DEF Tree, Upper
<1>2. x.page \in Memory /\ x.place \in Nat /\ x.depth \in 0 .. DEPTH_BOTTOM BY <1>1 DEF TableNode
<1>3. Root \in Memory /\ RootNode \in N /\ RootNode.page = Root /\ RootNode.depth = 0 /\ RootNode.place = 0
  BY Constants DEF Tree, RootNode
<1>4. Under(m, x, i).depth = x.depth + 1 /\ Under(m, x, i).place = x.place * ENTRIES + i
  BY DEF Under
<1>5. CASE x = RootNode
  <2>1. k[Root] = ClearedTable(m[Root]) BY <1>3 DEF Contents, Cleared
  <2>2. ~Present(Zero) BY ClearIs
  <2>3. k[Root][i] = IF i < ENTRIES \div 2 THEN Zero ELSE m[Root][i] BY <2>1 DEF ClearedTable
  <2>4. ~(i < ENTRIES \div 2) /\ k[x.page][i] = m[x.page][i] BY <1>3, <1>5, <2>2, <2>3
  <2>5. Under(m, x, i).depth = 1 /\ Under(m, x, i).place = i
    <3>1. 0 * ENTRIES + i = i /\ 0 + 1 = 1 BY Constants
    <3> QED BY <1>3, <1>4, <1>5, <3>1
  <2>6. ~Lower(Under(m, x, i)) BY <2>4, <2>5, LowerTop
  <2> QED BY <2>4, <2>6 DEF Under
<1>6. CASE x # RootNode
  <2>1. x.depth # 0 /\ x.page # Root BY <1>1, <1>3, <1>6 DEF Tree
  <2>2. k[x.page] = m[x.page] BY <1>2, <2>1 DEF Contents, Cleared
  <2>3. ~Lower(x) BY <2>1 DEF Upper
  <2>4. ~Lower(Under(m, x, i)) BY <1>1, <1>4, <2>1, <2>3, LowerBelow
  <2> QED BY <2>2, <2>4 DEF Under
<1> QED BY <1>5, <1>6

(* Clearing the lower half of the top-level table leaves the tables of the *)
(* upper half, and nothing is mapped in the lower half.                    *)
LEMMA ClearTree ==
  ASSUME NEW m \in Contents, NEW N, Tree(m, N), NEW k, k = Cleared(m)
  PROVE  k \in Contents /\ Tree(k, Upper(N)) /\ LowerMap(k) = {}
<1> DEFINE M == Upper(N)
<1>1. N \subseteq TableNode /\ RootNode \in N /\ RootNode.page = Root /\ RootNode.depth = 0
      /\ Root \in Memory
  BY Constants DEF Tree, RootNode
<1>2. k \in Contents
  <2>1. \A i \in Index : ClearedTable(m[Root])[i] \in Entry
    BY <1>1, EntryTypes DEF ClearedTable, Contents
  <2>2. ClearedTable(m[Root]) \in [Index -> Entry] BY <2>1 DEF ClearedTable
  <2> QED BY <2>2 DEF Contents, Cleared
<1>3. \A x \in M : x \in N /\ (x.depth = 0 \/ ~Lower(x)) BY DEF Upper
<1>4. \A x \in N : x.depth = 0 \/ ~Lower(x) => x \in M BY DEF Upper
<1>5. \A x \in M, i \in Index : Present(k[x.page][i]) =>
        k[x.page][i] = m[x.page][i] /\ ~Lower(Under(m, x, i)) /\ Under(k, x, i) = Under(m, x, i)
  <2> SUFFICES ASSUME NEW x \in Upper(N), NEW i \in Index, Present(k[x.page][i])
               PROVE  /\ k[x.page][i] = m[x.page][i] /\ ~Lower(Under(m, x, i))
                      /\ Under(k, x, i) = Under(m, x, i)
    OBVIOUS
  <2> QED BY ClearedEntry
<1> HIDE DEF M
<1>6. ASSUME NEW x \in M, NEW i \in Index, Links(k, x, i) PROVE Under(k, x, i) \in M
  <2>1. Present(k[x.page][i]) BY <1>6 DEF Links
  <2>2. k[x.page][i] = m[x.page][i] /\ ~Lower(Under(m, x, i)) /\ Under(k, x, i) = Under(m, x, i)
    BY <1>5, <2>1
  <2>3. Links(m, x, i) BY <1>6, <2>2 DEF Links
  <2>4. Under(m, x, i) \in N BY <1>3, <2>3 DEF Tree
  <2> QED BY <1>4, <2>2, <2>4
<1>7. ASSUME NEW y \in M, y.depth # 0
      PROVE  \E x \in M, i \in Index : Links(k, x, i) /\ y = Under(k, x, i)
  <2>1. PICK x \in N, i \in Index : Links(m, x, i) /\ y = Under(m, x, i) BY <1>3, <1>7 DEF Tree
  <2>2. y.depth = x.depth + 1 /\ y.place = x.place * ENTRIES + i BY <2>1 DEF Under
  <2>3. ~Lower(y) /\ x \in TableNode BY <1>1, <1>3, <1>7
  <2>4. x.page \in Memory /\ x.place \in Nat /\ x.depth \in 0 .. DEPTH_BOTTOM BY <2>3 DEF TableNode
  <2>5. CASE x.depth = 0
    <3>1. x = RootNode BY <2>5 DEF Tree
    <3>2. y.depth = 1 /\ y.place = i
      <4>1. RootNode.place = 0 BY DEF RootNode
      <4>2. 0 * ENTRIES + i = i /\ 0 + 1 = 1 BY Constants
      <4> QED BY <2>2, <2>5, <3>1, <4>1, <4>2
    <3>3. ~(i < ENTRIES \div 2) BY <2>3, <3>2, LowerTop
    <3>4. k[Root] = ClearedTable(m[Root]) BY <1>1 DEF Contents, Cleared
    <3>5. k[x.page][i] = m[x.page][i] BY <1>1, <3>1, <3>3, <3>4 DEF ClearedTable
    <3>6. Links(k, x, i) /\ y = Under(k, x, i) BY <2>1, <3>5 DEF Links, Under
    <3> QED BY <1>4, <2>5, <3>6
  <2>6. CASE x.depth # 0
    <3>1. ~Lower(x) BY <2>2, <2>3, <2>6, LowerBelow
    <3>2. x.page # Root BY <1>1, <2>6 DEF Tree
    <3>3. k[x.page] = m[x.page] BY <2>4, <3>2 DEF Contents, Cleared
    <3>4. Links(k, x, i) /\ y = Under(k, x, i) BY <2>1, <3>3 DEF Links, Under
    <3> QED BY <1>4, <3>1, <3>4
  <2> QED BY <2>5, <2>6
<1>8. \A x \in M, i \in Index : Present(k[x.page][i]) => k[x.page][i].page \in Memory
  BY <1>3, <1>5 DEF Tree
<1>9. \A x, y \in M : x.page = y.page => x = y BY <1>3 DEF Tree
<1>10. M \subseteq TableNode /\ RootNode \in M /\ \A x \in M : x.depth = 0 => x = RootNode
  BY <1>1, <1>3, <1>4 DEF Tree
<1>11. Tree(k, M) BY <1>6, <1>7, <1>8, <1>9, <1>10 DEF Tree
<1>12. ASSUME NEW l \in Leads(k, M) PROVE ~Lower(l)
  <2>1. PICK x \in M, i \in Index : Maps(k, x, i) /\ l = Under(k, x, i) BY <1>2, <1>11, LeadsAre
  <2>2. Present(k[x.page][i]) BY <2>1 DEF Maps
  <2> QED BY <1>5, <2>1, <2>2
<1>13. LowerMap(k) = {} BY <1>2, <1>11, <1>12, LowerLead
<1> QED BY <1>2, <1>11, <1>13 DEF M

(* With nothing mapped in the lower half, there is no large page in it.    *)
LEMMA NoneLarge ==
  ASSUME NEW m \in Contents, NEW N, Tree(m, N), LowerMap(m) = {}
  PROVE  \A v \in LargePages(m) : ~(v < HALF)
<1> SUFFICES ASSUME NEW v \in LargePages(m), v < HALF PROVE FALSE OBVIOUS
<1>1. PICK l \in Leads(m, N) : v \in Covered(l) BY MappedIs
<1>2. PICK t \in Translations(l.depth - 1, l) : t.virtual = v BY <1>1 DEF Covered
<1>3. t \in Mapped(m) BY <1>2, MappedIs
<1> QED BY <1>2, <1>3 DEF LowerMap

(* Writing to a page that is no table changes neither tables nor map.      *)
LEMMA WriteOther ==
  ASSUME NEW m \in Contents, NEW N, Tree(m, N), NEW k \in Contents, NEW p, p \notin Pages(N),
         \A q \in Memory : q # p => k[q] = m[q]
  PROVE  /\ Tree(k, N) /\ Mapped(k) = Mapped(m) /\ LargePages(k) = LargePages(m)
         /\ \A x \in N : k[x.page] = m[x.page]
<1>1. \A x \in N : x.page \in Memory /\ x.page # p BY DEF Tree, TableNode, Pages
<1>2. \A x \in N : k[x.page] = m[x.page] BY <1>1
<1>3. \A x \in N, i \in Index : /\ Links(k, x, i) <=> Links(m, x, i)
                                /\ Maps(k, x, i) <=> Maps(m, x, i)
                                /\ Under(k, x, i) = Under(m, x, i)
                                /\ k[x.page][i] = m[x.page][i]
  BY <1>2 DEF Links, Maps, Under
<1>4. Tree(k, N) BY <1>3 DEF Tree
<1>5. Leads(k, N) = Leads(m, N)
  <2>1. \A l : l \in Leads(k, N) <=> l \in Leads(m, N) BY <1>3, <1>4, LeadsAre
  <2> QED BY <2>1
<1>6. Mapped(k) = Mapped(m) BY <1>4, <1>5, SameMap
<1>7. LargePages(k) = LargePages(m) BY <1>4, <1>5, SameLarge
<1> QED BY <1>2, <1>4, <1>6, <1>7

(* Every table of the lower half is there for something.                   *)
NoEmptyLower(s, N) == \A y \in N : y.depth # 0 /\ Lower(y) => ~Empty(s, y.page)

(* When no table of the lower half is empty and nothing is mapped there,   *)
(* there is none: the deepest would map something.                         *)
LEMMA NoneLower ==
  ASSUME NEW s, NEW N, NEW other, Good(s, N, other), NoEmptyLower(s, N), LowerMap(s.mem) = {}
  PROVE  \A y \in N : y.depth # 0 => ~Lower(y)
<1> DEFINE D == {n \in Nat : \E y \in N : y.depth # 0 /\ Lower(y) /\ n = DEPTH_BOTTOM - y.depth}
<1>1. /\ s.mem \in Contents /\ Tree(s.mem, N) /\ N \subseteq TableNode
      /\ \A x \in N : x.place \in Nat /\ x.depth \in 0 .. DEPTH_BOTTOM
  BY GoodTypes
<1>2. DEPTH_BOTTOM \in Nat BY Constants
<1> SUFFICES ASSUME NEW z \in N, z.depth # 0, Lower(z) PROVE FALSE OBVIOUS
<1>3. D # {}
  <2>1. DEPTH_BOTTOM - z.depth \in Nat BY <1>1, <1>2
  <2> QED BY <2>1
<1>4. PICK n \in D : \A o \in D : n <= o BY <1>3, LeastExists
<1>5. PICK y \in N : y.depth # 0 /\ Lower(y) /\ n = DEPTH_BOTTOM - y.depth OBVIOUS
<1>6. PICK i \in Index : Present(s.mem[y.page][i]) BY <1>5 DEF NoEmptyLower, Empty
<1>7. y \in TableNode /\ y.depth \in 0 .. DEPTH_BOTTOM BY <1>1
<1> DEFINE u == Under(s.mem, y, i)
<1>8. u.depth = y.depth + 1 /\ u.place = y.place * ENTRIES + i BY DEF Under
<1>9. Lower(u)
  <2> HIDE DEF u
  <2> QED BY <1>5, <1>7, <1>8, LowerBelow
<1>10. CASE Links(s.mem, y, i)
  <2>1. u \in N BY <1>1, <1>10, EntryKinds
  <2>2. u.depth \in 0 .. DEPTH_BOTTOM BY <1>1, <2>1
  <2>3. DEPTH_BOTTOM - u.depth \in Nat /\ u.depth # 0 BY <1>2, <1>7, <1>8, <2>2
  <2>4. DEPTH_BOTTOM - u.depth \in D
    <3> HIDE DEF u
    <3> QED BY <1>9, <2>1, <2>3
  <2>5. n <= DEPTH_BOTTOM - u.depth BY <1>4, <2>4
  <2> QED BY <1>2, <1>5, <1>7, <1>8, <2>5
<1>11. CASE Maps(s.mem, y, i)
  <2>1. u \in Leads(s.mem, N) BY <1>1, <1>11, EntryKinds
  <2> HIDE DEF u
  <2> QED BY <1>1, <1>9, <2>1, LowerLead
<1> QED BY <1>1, <1>6, <1>10, <1>11, EntryKinds

------------------------------------------------------------------------------
(* The calls of the driver *)

(* One page of the lower half is a range that a caller may ask for.        *)
LEMMA OnePageFits ==
  ASSUME NEW at \in 0 .. HALF - 1
  PROVE  /\ Fits(OnePage(at)) /\ RangeOf(OnePage(at)) = {at}
         /\ OnePage(at).address = at /\ OnePage(at).size = 1
<1>1. /\ HALF \in Nat /\ VIRTUAL \in Nat /\ VIRTUAL > 2 * HALF
      /\ Span(0) \in Nat \ {0} /\ Span(0) <= HALF
  BY HalfIs
<1>2. OnePage(at).address = at /\ OnePage(at).size = 1 BY DEF OnePage
<1>3. at \in Nat /\ at + 1 <= VIRTUAL - Span(0) BY <1>1
<1>4. at .. at + 1 - 1 = {at} BY <1>3
<1> QED BY <1>2, <1>3, <1>4 DEF Fits, RangeOf

(* mmu_assign when there is no page at all to allocate, for an address of  *)
(* a lower half with nothing in it: it needs a table, and panics.          *)
LEMMA AssignStarves ==
  ASSUME NEW s, NEW N, NEW other, Good(s, N, other), ~s.halted,
         NEW at \in 0 .. HALF - 1, NEW r, r = OnePage(at),
         LargePages(s.mem) \cap RangeOf(r) = {},
         Free(s) = {}, LowerMap(s.mem) = {}, NoEmptyLower(s, N), NEW flags, NEW p
  PROVE  \E M : LET w == ApplyNodesEntry(ApplyNodesEntry(s, "reserve", Loc(r), <<>>),
                                         "leaf", Loc(r), Linear(r, flags, p))
                IN  w.halted /\ Assigned(s, N, w, M, other, r, flags, p)
<1> DEFINE u == ApplyNodesEntry(s, "reserve", Loc(r), <<>>)
           leaf == Linear(r, flags, p)
           w == ApplyNodesEntry(u, "leaf", Loc(r), leaf)
<1>1. s.mem \in Contents /\ Tree(s.mem, N) BY GoodTypes
<1>2. /\ Fits(r) /\ RangeOf(r) = {at} /\ r.address = at /\ r.size = 1
      /\ at \in Nat /\ at < HALF /\ HALF \in Nat
  BY OnePageFits, HalfIs
<1>3. Loc(r) = [page |-> Root, depth |-> 0, start |-> at, end |-> at + 1] BY <1>2, RangeIs
<1>4. ASSUME u.halted, NEW M, Good(u, M, other), Assigned(s, N, Halted(u), M, other, r, flags, p)
      PROVE  w.halted /\ Assigned(s, N, w, M, other, r, flags, p)
  <2> HIDE DEF u, leaf
  <2>1. w = Halted(u) BY <1>4, EntryIs
  <2>2. Halted(u).halted BY <1>4, HaltedGood
  <2> HIDE DEF w
  <2> QED BY <1>4, <2>1, <2>2
<1>5. CASE ~Checked(r)
  <2>1. u = Halted(s) BY <1>5, EntryIs
  <2>2. Good(u, N, other) /\ u.mem = s.mem /\ u.halted BY <2>1, HaltedGood
  <2> HIDE DEF u, w
  <2>3. Good(Halted(u), N, other) /\ Halted(u).mem = s.mem /\ Halted(u).halted BY <2>2, HaltedGood
  <2>4. Assigned(s, N, Halted(u), N, other, r, flags, p) BY <2>3 DEF Assigned
  <2>5. w.halted /\ Assigned(s, N, w, N, other, r, flags, p) BY <1>4, <2>2, <2>4
  <2> QED BY <2>5 DEF w, u
<1>6. CASE Checked(r)
  <2>1. PICK base : /\ Covers(base, 0, 0, at, at + 1)
                    /\ \A v \in RangeOf(r) : v \in Nat /\ base \in Nat /\ base <= v /\ InHalf(base, v)
    BY <1>2, <1>6, CheckedIs
  <2>2. NoLarge(s.mem, N, base, at, at + 1)
    <3>1. at .. at + 1 - 1 = {at} BY <1>2
    <3>2. LargePages(s.mem) \cap (at .. at + 1 - 1) = {} BY <1>2, <3>1
    <3>3. \A v \in at .. at + 1 - 1 : v \in Nat /\ InHalf(base, v) BY <1>2, <2>1, <3>1
    <3> QED BY <1>1, <3>2, <3>3, NoLargeIs
  <2>3. u = ApplyNodes("reserve", <<>>)[LEVELS - 0][<<s, Loc(r)>>] BY <1>6, EntryIs
  <2> HIDE DEF u, w
  <2>4. PICK M : Reserved(s, N, u, M, other, base, 0, at, at + 1)
    BY <1>3, <2>1, <2>2, <2>3, WholeReserve
  <2>5. Good(u, M, other) /\ N \subseteq M BY <2>4 DEF Reserved
  <2>6. ASSUME ~u.halted PROVE FALSE
    <3>1. 1 \in 0 + 1 .. DEPTH_BOTTOM /\ at \in at .. at + 1 - 1 BY <1>2, Constants
    <3>2. Path(M, base, 1, at) BY <2>4, <2>6, <3>1 DEF Reserved
    <3>3. PICK y \in M : y.depth = 1 /\ y.place = PlaceOf(base, 1, at) BY <3>2 DEF Path
    <3>4. base = 0
      <4>1. InHalf(base, at) BY <1>2, <2>1
      <4> QED BY <1>2, <4>1, HalfIs DEF InHalf
    <3>5. Lower(y)
      <4>1. at \in 0 .. HALF - 1 OBVIOUS
      <4> QED BY <3>3, <3>4, <4>1 DEF Lower, On
    <3>6. y \notin N BY <3>3, <3>5, NoneLower
    <3>7. y.page \in Pool BY <2>4, <3>6 DEF Reserved
    <3>8. y.page \in Pages(N)
      <4>1. y.page \in Pages(M) BY DEF Pages
      <4>2. y.page \notin other BY <2>5, <4>1 DEF Good
      <4>3. y.page \in s.held BY <3>7 DEF Free
      <4> QED BY <4>2, <4>3 DEF Good
    <3>9. PICK x \in N : x.page = y.page BY <3>8 DEF Pages
    <3>10. x = y BY <2>5, <3>9 DEF Good, Tree
    <3> QED BY <3>6, <3>10
  <2>7. Assigned(s, N, Halted(u), M, other, r, flags, p) BY <2>4, <2>6, AssignReserved
  <2>8. w.halted /\ Assigned(s, N, w, M, other, r, flags, p) BY <1>4, <2>5, <2>6, <2>7
  <2> QED BY <2>8 DEF w, u
<1> QED BY <1>5, <1>6

(* The state after a call, and the map after one for the page at `at`.     *)
Left(before, at) == {t \in before : t.virtual # at}
PageMapped(before, after, at, flags, p) ==
  after = Left(before, at) \cup
            {[virtual |-> at, page |-> p, bits |-> ConvertFlags(flags)]}

Called(s, N, w, M, other) ==
  /\ Good(w, M, other) /\ \A y \in M \ N : y.page \in Pool
  /\ \A p \in Memory : w.mem[p] # s.mem[p] => p \in Pages(N) \cup Pages(M)
  /\ LargePages(w.mem) = LargePages(s.mem)
  /\ ~w.halted => NoEmptyLower(w, M)

(* mmu_assign of one page of the lower half. *)
LEMMA MapOne ==
  ASSUME NEW s, NEW N, NEW other, Good(s, N, other), ~s.halted,
         NEW at \in 0 .. HALF - 1, \A v \in LargePages(s.mem) : ~(v < HALF), NoEmptyLower(s, N),
         NEW flags, NEW p \in {0} \cup Pool,
         p = 0 => Free(s) = {} /\ LowerMap(s.mem) = {}
  PROVE  \E M : LET w == ApplyNodesEntry(ApplyNodesEntry(s, "reserve", Loc(OnePage(at)), <<>>),
                                         "leaf", Loc(OnePage(at)), Linear(OnePage(at), flags, p))
                IN  /\ Called(s, N, w, M, other)
                    /\ \/ w.halted /\ Mapped(w.mem) = Mapped(s.mem)
                       \/ /\ ~w.halted /\ p # 0
                          /\ PageMapped(Mapped(s.mem), Mapped(w.mem), at, flags, p)
<1> DEFINE r == OnePage(at)
           w == ApplyNodesEntry(ApplyNodesEntry(s, "reserve", Loc(r), <<>>),
                                "leaf", Loc(r), Linear(r, flags, p))
<1>1. /\ Fits(r) /\ RangeOf(r) = {at} /\ r.address = at /\ r.size = 1
      /\ at \in Nat /\ at < HALF /\ HALF \in Nat
  BY OnePageFits, HalfIs
<1>2. LargePages(s.mem) \cap RangeOf(r) = {} BY <1>1
<1>3. \E M : Assigned(s, N, w, M, other, r, flags, p) /\ (p = 0 => w.halted)
  <2>1. CASE p = 0
    <3>1. r = OnePage(at) OBVIOUS
    <3> HIDE DEF r
    <3>2. \E M : w.halted /\ Assigned(s, N, w, M, other, r, flags, p)
      BY <1>2, <2>1, <3>1, AssignStarves
    <3> QED BY <3>2
  <2>2. CASE p # 0
    <3>1. p \in Memory /\ p \in Nat BY <2>2, Constants
    <3>2. p .. p + r.size - 1 \subseteq Memory
      <4>1. p .. p + 1 - 1 = {p} BY <3>1
      <4> HIDE DEF r
      <4> QED BY <1>1, <3>1, <4>1
    <3> HIDE DEF r
    <3>3. \E M : Assigned(s, N, w, M, other, r, flags, p)
      BY <1>1, <1>2, <3>1, <3>2, AssignIs
    <3> QED BY <2>2, <3>3
  <2> QED BY <2>1, <2>2
<1> HIDE DEF w
<1>4. PICK M : Assigned(s, N, w, M, other, r, flags, p) /\ (p = 0 => w.halted) BY <1>3
<1>5. Called(s, N, w, M, other)
  <2>1. ASSUME ~w.halted, NEW y \in M, y.depth # 0, Lower(y) PROVE ~Empty(w, y.page)
    <3>1. y \in N => ~Empty(s, y.page) BY <2>1 DEF NoEmptyLower
    <3> QED BY <1>4, <2>1, <3>1 DEF Assigned
  <2> HIDE DEF r
  <2>2. ~w.halted => NoEmptyLower(w, M) BY <2>1 DEF NoEmptyLower
  <2> QED BY <1>4, <2>2 DEF Assigned, Called
<1>6. CASE w.halted /\ Mapped(w.mem) = Mapped(s.mem)
  <2> HIDE DEF r
  <2>1. \E L : /\ Called(s, N, w, L, other)
               /\ \/ w.halted /\ Mapped(w.mem) = Mapped(s.mem)
                  \/ /\ ~w.halted /\ p # 0
                     /\ PageMapped(Mapped(s.mem), Mapped(w.mem), at, flags, p)
    BY <1>5, <1>6
  <2> QED BY <2>1 DEF w, r
<1>7. CASE ~w.halted /\ ~(w.halted /\ Mapped(w.mem) = Mapped(s.mem))
  <2> HIDE DEF r
  <2>1. Mapped(w.mem) = {t \in Mapped(s.mem) : t.virtual \notin RangeOf(r)} \cup
          {[virtual |-> v, page |-> p + (v - r.address), bits |-> ConvertFlags(flags)] :
             v \in RangeOf(r)}
    BY <1>4, <1>7 DEF Assigned
  <2>2. p + (at - at) = p
    <3>1. p \in Nat
      <4>1. p = 0 \/ p \in Pool OBVIOUS
      <4> QED BY <4>1, Constants
    <3> QED BY <1>1, <3>1
  <2>3. {[virtual |-> v, page |-> p + (v - r.address), bits |-> ConvertFlags(flags)] :
           v \in RangeOf(r)} = {[virtual |-> at, page |-> p, bits |-> ConvertFlags(flags)]}
    BY <1>1, <2>2
  <2>4. {t \in Mapped(s.mem) : t.virtual \notin RangeOf(r)} = Left(Mapped(s.mem), at)
    BY <1>1 DEF Left
  <2>5. PageMapped(Mapped(s.mem), Mapped(w.mem), at, flags, p)
    BY <2>1, <2>3, <2>4 DEF PageMapped
  <2>6. p # 0 BY <1>4, <1>7
  <2> QED BY <1>5, <1>7, <2>5, <2>6 DEF w, r
<1>8. w.halted => Mapped(w.mem) = Mapped(s.mem)
  <2> HIDE DEF r
  <2> QED BY <1>4 DEF Assigned
<1> QED BY <1>6, <1>7, <1>8

(* mmu_remove of one that is mapped.                                       *)
LEMMA UnmapOne ==
  ASSUME NEW s, NEW N, NEW other, Good(s, N, other), ~s.halted,
         NEW at \in 0 .. HALF - 1, \A v \in LargePages(s.mem) : ~(v < HALF), NoEmptyLower(s, N),
         \E t \in Mapped(s.mem) : t.virtual = at
  PROVE  \E M : LET w == ApplyNodesEntry(ApplyNodesEntry(s, "leaf", Loc(OnePage(at)), Clear),
                                         "gc", Loc(OnePage(at)), <<>>)
                IN  /\ Called(s, N, w, M, other)
                    /\ \/ w.halted /\ Mapped(w.mem) = Mapped(s.mem)
                       \/ Mapped(w.mem) = Left(Mapped(s.mem), at)
<1> DEFINE r == OnePage(at)
           w == ApplyNodesEntry(ApplyNodesEntry(s, "leaf", Loc(r), Clear), "gc", Loc(r), <<>>)
<1>1. Fits(r) /\ RangeOf(r) = {at} /\ at \in Nat /\ at < HALF /\ HALF \in Nat
  BY OnePageFits, HalfIs
<1>2. LargePages(s.mem) \cap RangeOf(r) = {} BY <1>1
<1>3. RangeOf(r) \subseteq {t.virtual : t \in Mapped(s.mem)} BY <1>1
<1>4. \E M : Removed(s, N, w, M, other, r)
  <2> HIDE DEF r
  <2> QED BY <1>1, <1>2, <1>3, RemoveIs
<1> HIDE DEF w
<1>5. PICK M : Removed(s, N, w, M, other, r) BY <1>4
<1>6. Called(s, N, w, M, other)
  <2>1. M \subseteq N BY <1>5 DEF Removed
  <2>2. ASSUME ~w.halted, NEW y \in M, y.depth # 0, Lower(y) PROVE ~Empty(w, y.page)
    <3>1. ~Empty(s, y.page) BY <2>1, <2>2 DEF NoEmptyLower
    <3> QED BY <1>5, <2>2, <3>1 DEF Removed
  <2> HIDE DEF r
  <2>3. ~w.halted => NoEmptyLower(w, M) BY <2>2 DEF NoEmptyLower
  <2> QED BY <1>5, <2>1, <2>3 DEF Removed, Called
<1>7. \/ w.halted /\ Mapped(w.mem) = Mapped(s.mem)
      \/ Mapped(w.mem) = Left(Mapped(s.mem), at)
  <2>1. {t \in Mapped(s.mem) : t.virtual \notin RangeOf(r)} = Left(Mapped(s.mem), at)
    BY <1>1 DEF Left
  <2> HIDE DEF r
  <2> QED BY <1>5, <2>1 DEF Removed
<1> QED BY <1>6, <1>7 DEF w, r

------------------------------------------------------------------------------
(* The invariant *)

(* What the tests have printed so far. *)
Printed(n) ==
  /\ output \in Seq(Entry) /\ Len(output) = n
  /\ \A i \in 1 .. n : output[i] = Expected[i]

(* The pages that are allocated and are no tables: those the machine does  *)
(* not have, and the page of the test.                                     *)
Elsewhere == missing \cup ({page} \ {0})

(* What holds between any two steps.                                       *)
Core ==
  /\ Good(State, TableNodes(mem), Elsewhere) /\ 0 \notin Tables
  /\ missing \subseteq Pool /\ page \in ({0} \cup Pool) \ missing
  /\ \A t \in tlb : t.virtual \in TestAddresses
  /\ pc \in 1 .. Len(KernelMain) + 1 /\ faulted = FALSE
  /\ \E n \in 0 .. 6 : Printed(n)

(* Before the lower half is cleared, and after.                            *)
Booted == Tables \cap Pool = {} /\ page = 0 /\ ~halted /\ Printed(0)
LowerIsOwn ==
  /\ \A v \in LargePages(mem) : ~(v < HALF)
  /\ \A t \in LowerMap(mem) : t.page = page
  /\ ~halted => NoEmptyLower(State, TableNodes(mem))

(* A place in kernel_main, with what is mapped and what was printed there. *)
AtStep(p, maps, n) == pc = p /\ LowerMap(mem) = maps /\ Printed(n)
Between(p, n) == AtStep(p, {}, n) /\ page = 0
Own(at, flags) == [virtual |-> at, page |-> page, bits |-> ConvertFlags(flags)]

(* In test_mmu, which starts at `first` when n words were printed.  When   *)
(* it gets no page it does not get past its first call of mmu_assign.      *)
InTestMmu(first, n) ==
  LET W == Own(WriteAddress, {"WRITE"})
      R == Own(ReadAddress, {})
  IN  \/ Between(first, n)
      \/ AtStep(first + 1, {}, n) /\ (page = 0 => Free(State) = {})
      \/ /\ page # 0
         /\ \/ AtStep(first + 2, {W}, n)
            \/ AtStep(first + 3, {W, R}, n)
            \/ AtStep(first + 4, {W, R}, n) /\ mem[page][0] = Text
            \/ AtStep(first + 5, {W, R}, n + 1) /\ mem[page][0] = Text
            \/ AtStep(first + 6, {R}, n + 1) /\ mem[page][0] = Text
            \/ AtStep(first + 7, {R}, n + 2)
            \/ AtStep(first + 8, {}, n + 2)

(* In test_exe. *)
InTestExe(first, n) ==
  LET W == Own(LoadAddress, {"WRITE"})
      X == Own(LoadAddress, {"EXEC"})
  IN  \/ Between(first, n)
      \/ AtStep(first + 1, {}, n) /\ (page = 0 => Free(State) = {})
      \/ /\ page # 0
         /\ \/ AtStep(first + 2, {W}, n)
            \/ AtStep(first + 3, {W}, n) /\ mem[page][0] = File
            \/ AtStep(first + 4, {X}, n) /\ mem[page][0] = File
            \/ AtStep(first + 5, {X}, n + 1)
            \/ AtStep(first + 6, {}, n + 1)

Situation ==
  \/ InTestMmu(2, 0)
  \/ InTestMmu(11, 2)
  \/ InTestExe(20, 4)
  \/ InTestExe(27, 5)
  \/ Between(34, 6)

(* The inductive invariant.                                                *)
KInv == Core /\ (pc = 1 => Booted) /\ (pc > 1 => LowerIsOwn /\ (~halted => Situation))

------------------------------------------------------------------------------
(* The program *)

(* The steps of the tests, by number.                                      *)
LEMMA TestsAre ==
  /\ Len(TestMmu) = 9 /\ Len(TestExe) = 7
  /\ TestMmu[1] = Op("allocate")
  /\ TestMmu[2] = MapPage({"WRITE"}, WriteAddress) /\ TestMmu[3] = MapPage({}, ReadAddress)
  /\ TestMmu[4] = Copy(Text, WriteAddress) /\ TestMmu[5] = Puts(ReadAddress)
  /\ TestMmu[6] = Unmap(WriteAddress) /\ TestMmu[7] = Puts(ReadAddress)
  /\ TestMmu[8] = Unmap(ReadAddress) /\ TestMmu[9] = Op("free")
  /\ TestExe[1] = Op("allocate")
  /\ TestExe[2] = MapPage({"WRITE"}, LoadAddress) /\ TestExe[3] = Copy(File, LoadAddress)
  /\ TestExe[4] = MapPage({"EXEC"}, LoadAddress) /\ TestExe[5] = Call(LoadAddress)
  /\ TestExe[6] = Unmap(LoadAddress) /\ TestExe[7] = Op("free")
BY DEF TestMmu, TestExe

(* One sequence after another. *)
LEMMA Joined ==
  ASSUME NEW S, NEW s \in Seq(S), NEW t \in Seq(S), NEW u, u = s \o t
  PROVE  /\ u \in Seq(S) /\ Len(u) = Len(s) + Len(t)
         /\ \A i \in 1 .. Len(s) : u[i] = s[i]
         /\ \A i \in 1 .. Len(t) : u[Len(s) + i] = t[i]
OBVIOUS

(* kernel_main runs each of them twice.                                    *)
LEMMA ProgramIs ==
  /\ Len(KernelMain) = 33 /\ KernelMain[1] = Op("clear")
  /\ \A k \in 0 .. 8 : /\ KernelMain[2 + k] = TestMmu[k + 1]
                       /\ KernelMain[11 + k] = TestMmu[k + 1]
  /\ \A k \in 0 .. 6 : /\ KernelMain[20 + k] = TestExe[k + 1]
                       /\ KernelMain[27 + k] = TestExe[k + 1]
<1> DEFINE S == {TestMmu[i] : i \in 1 .. 9} \cup {TestExe[i] : i \in 1 .. 7} \cup {Op("clear")}
           a == <<Op("clear")>>
           b == a \o TestMmu
           c == b \o TestMmu
           d == c \o TestExe
           e == d \o TestExe
<1>1. a \in Seq(S) /\ Len(a) = 1 /\ a[1] = Op("clear") OBVIOUS
<1>2. TestMmu \in Seq(S) /\ Len(TestMmu) = 9
  <2>1. \A i \in 1 .. 9 : TestMmu[i] \in S OBVIOUS
  <2> HIDE DEF S
  <2>2. TestMmu \in Seq(S) BY <2>1, TestsAre DEF TestMmu
  <2> QED BY <2>2, TestsAre
<1>3. TestExe \in Seq(S) /\ Len(TestExe) = 7
  <2>1. \A i \in 1 .. 7 : TestExe[i] \in S OBVIOUS
  <2> HIDE DEF S
  <2>2. TestExe \in Seq(S) BY <2>1, TestsAre DEF TestExe
  <2> QED BY <2>2, TestsAre
<1>4. KernelMain = e BY DEF KernelMain
<1> HIDE DEF S, a
<1>5. b \in Seq(S) /\ Len(b) = 10 /\ b[1] = a[1] /\ \A i \in 1 .. 9 : b[1 + i] = TestMmu[i]
  <2>1. b = a \o TestMmu OBVIOUS
  <2> HIDE DEF b
  <2>2. a \in Seq(S) BY <1>1
  <2>3. TestMmu \in Seq(S) BY <1>2
  <2>4. /\ b \in Seq(S) /\ Len(b) = Len(a) + Len(TestMmu)
        /\ \A i \in 1 .. Len(a) : b[i] = a[i]
        /\ \A i \in 1 .. Len(TestMmu) : b[Len(a) + i] = TestMmu[i]
    BY <2>1, <2>2, <2>3, Joined
  <2> QED BY <1>1, <1>2, <2>4
<1> HIDE DEF b
<1>6. /\ c \in Seq(S) /\ Len(c) = 19
      /\ \A i \in 1 .. 10 : c[i] = b[i]
      /\ \A i \in 1 .. 9 : c[10 + i] = TestMmu[i]
  <2>1. c = b \o TestMmu OBVIOUS
  <2> HIDE DEF c
  <2>2. b \in Seq(S) BY <1>5
  <2>3. TestMmu \in Seq(S) BY <1>2
  <2>4. /\ c \in Seq(S) /\ Len(c) = Len(b) + Len(TestMmu)
        /\ \A i \in 1 .. Len(b) : c[i] = b[i]
        /\ \A i \in 1 .. Len(TestMmu) : c[Len(b) + i] = TestMmu[i]
    BY <2>1, <2>2, <2>3, Joined
  <2> QED BY <1>2, <1>5, <2>4
<1> HIDE DEF c
<1>7. /\ d \in Seq(S) /\ Len(d) = 26
      /\ \A i \in 1 .. 19 : d[i] = c[i]
      /\ \A i \in 1 .. 7 : d[19 + i] = TestExe[i]
  <2>1. d = c \o TestExe OBVIOUS
  <2> HIDE DEF d
  <2>2. c \in Seq(S) BY <1>6
  <2>3. TestExe \in Seq(S) BY <1>3
  <2>4. /\ d \in Seq(S) /\ Len(d) = Len(c) + Len(TestExe)
        /\ \A i \in 1 .. Len(c) : d[i] = c[i]
        /\ \A i \in 1 .. Len(TestExe) : d[Len(c) + i] = TestExe[i]
    BY <2>1, <2>2, <2>3, Joined
  <2> QED BY <1>3, <1>6, <2>4
<1> HIDE DEF d
<1>8. /\ Len(e) = 33
      /\ \A i \in 1 .. 26 : e[i] = d[i]
      /\ \A i \in 1 .. 7 : e[26 + i] = TestExe[i]
  <2>1. e = d \o TestExe OBVIOUS
  <2> HIDE DEF e
  <2>2. d \in Seq(S) BY <1>7
  <2>3. TestExe \in Seq(S) BY <1>3
  <2>4. /\ e \in Seq(S) /\ Len(e) = Len(d) + Len(TestExe)
        /\ \A i \in 1 .. Len(d) : e[i] = d[i]
        /\ \A i \in 1 .. Len(TestExe) : e[Len(d) + i] = TestExe[i]
    BY <2>1, <2>2, <2>3, Joined
  <2> QED BY <1>3, <1>7, <2>4
<1> HIDE DEF e
<1>9. e[1] = Op("clear")
  <2>1. 1 \in 1 .. 10 /\ 1 \in 1 .. 19 /\ 1 \in 1 .. 26 OBVIOUS
  <2>2. e[1] = d[1] /\ d[1] = c[1] /\ c[1] = b[1] BY <1>6, <1>7, <1>8, <2>1
  <2> QED BY <1>1, <1>5, <2>2
<1>10. ASSUME NEW k \in 0 .. 8 PROVE e[2 + k] = TestMmu[k + 1] /\ e[11 + k] = TestMmu[k + 1]
  <2>1. k + 1 \in 1 .. 9 /\ 2 + k = 1 + (k + 1) /\ 11 + k = 10 + (k + 1) OBVIOUS
  <2>2. /\ 2 + k \in 1 .. 10 /\ 2 + k \in 1 .. 19 /\ 2 + k \in 1 .. 26
        /\ 11 + k \in 1 .. 19 /\ 11 + k \in 1 .. 26
    OBVIOUS
  <2>3. b[1 + (k + 1)] = TestMmu[k + 1] /\ c[10 + (k + 1)] = TestMmu[k + 1]
    BY <1>5, <1>6, <2>1
  <2>4. e[2 + k] = b[2 + k] /\ e[11 + k] = c[11 + k] BY <1>6, <1>7, <1>8, <2>2
  <2> QED BY <2>1, <2>3, <2>4
<1>11. ASSUME NEW k \in 0 .. 6 PROVE e[20 + k] = TestExe[k + 1] /\ e[27 + k] = TestExe[k + 1]
  <2>1. k + 1 \in 1 .. 7 /\ 20 + k = 19 + (k + 1) /\ 27 + k = 26 + (k + 1) /\ 20 + k \in 1 .. 26
    OBVIOUS
  <2>2. d[19 + (k + 1)] = TestExe[k + 1] /\ e[26 + (k + 1)] = TestExe[k + 1]
    BY <1>7, <1>8, <2>1
  <2>3. e[20 + k] = d[20 + k] BY <1>8, <2>1
  <2> QED BY <2>1, <2>2, <2>3
<1> QED BY <1>4, <1>8, <1>9, <1>10, <1>11

(* What it should print. *)
LEMMA ExpectedIs ==
  /\ Len(Expected) = 6 /\ Expected \in Seq(Entry)
  /\ \A i \in 1 .. 4 : Expected[i] = Text
  /\ Expected[5] = File /\ Expected[6] = File
BY TestAssumption DEF Expected

------------------------------------------------------------------------------
(* A step that keeps what holds between two steps *)

(* A page that is tested is RAM, and no address of it is 0.                *)
LEMMA PoolIs == 0 \notin Pool /\ Pool \subseteq Memory /\ Pool \subseteq Nat
BY LayoutAssumption

(* The parts of the record that the driver works on.                       *)
LEMMA StateIs ==
  /\ State.mem = mem /\ State.held = held /\ State.halted = halted
  /\ State'.mem = mem' /\ State'.held = held' /\ State'.halted = halted'
BY DEF State

(* Types of the state between two steps, and the pages in use.             *)
LEMMA CoreTypes ==
  ASSUME Core
  PROVE  /\ mem \in Contents /\ Tree(mem, TableNodes(mem)) /\ State \in WalkState
         /\ Tables = Pages(TableNodes(mem)) /\ Tables \subseteq Memory
         /\ held = (Tables \cap Pool) \cup Elsewhere /\ Tables \cap Elsewhere = {}
         /\ halted \in BOOLEAN /\ held \subseteq Pool
         /\ page # 0 => page \in Pool /\ page \in Memory /\ page \notin Tables
         /\ page \notin Tables /\ page \in {0} \cup Pool
         /\ missing \subseteq held
         /\ TestAddresses \subseteq 0 .. HALF - 1
<1>1. Good(State, TableNodes(mem), Elsewhere) /\ 0 \notin Tables /\ page \in ({0} \cup Pool) \ missing
  BY DEF Core
<1>2. mem \in Contents /\ Tree(mem, TableNodes(mem)) /\ State \in WalkState
      /\ Pages(TableNodes(mem)) \subseteq Memory
  BY <1>1, GoodTypes, StateIs
<1>3. Tables = Pages(TableNodes(mem)) BY DEF Tables, TablesOf, Pages
<1>4. held = (Tables \cap Pool) \cup Elsewhere /\ Tables \cap Elsewhere = {}
  BY <1>1, <1>3, StateIs DEF Good
<1>5. halted \in BOOLEAN /\ held \subseteq Pool BY <1>2, StateIs DEF WalkState
<1>6. page # 0 => page \in Pool /\ page \in Memory /\ page \notin Tables
  <2>1. page # 0 => page \in Elsewhere BY DEF Elsewhere
  <2> QED BY <1>1, <1>4, <2>1, PoolIs
<1>7. missing \subseteq held BY <1>4 DEF Elsewhere
<1> QED BY <1>1, <1>2, <1>3, <1>4, <1>5, <1>6, <1>7, TestAssumption

(* Core after a step, from the tree M after it. *)
LEMMA CoreNext ==
  ASSUME Core, NEW M, Good(State, M, Elsewhere)',
         \A y \in M : y \in TableNodes(mem) \/ y.page \in Pool,
         missing' = missing, page' \in ({0} \cup Pool) \ missing,
         \A t \in tlb' : t.virtual \in TestAddresses,
         pc' \in 1 .. Len(KernelMain) + 1, faulted' = FALSE, \E n \in 0 .. 6 : Printed(n)'
  PROVE  Core' /\ TableNodes(mem') = M /\ Tables' = Pages(M) /\ mem' \in Contents /\ Tree(mem', M)
<1>1. mem' \in Contents /\ Tree(mem', M)
  <2>1. Good(State', M, Elsewhere') OBVIOUS
  <2>2. State'.mem \in Contents /\ Tree(State'.mem, M) BY <2>1, GoodTypes
  <2> QED BY <2>2, StateIs
<1>2. TableNodes(mem') = M BY <1>1, TreeIs
<1>3. Tables' = Pages(M) BY <1>2 DEF Tables, TablesOf, Pages
<1>4. 0 \notin Tables'
  <2> SUFFICES ASSUME NEW y \in M PROVE y.page # 0 BY <1>3 DEF Pages
  <2>1. CASE y \in TableNodes(mem)
    <3>1. y.page \in Tables BY <2>1 DEF Tables, TablesOf
    <3> QED BY <3>1 DEF Core
  <2> QED BY <2>1, PoolIs
<1>5. missing' \subseteq Pool BY DEF Core
<1>6. Good(State, TableNodes(mem), Elsewhere)' BY <1>2
<1>7. page' \in (({0} \cup Pool) \ missing)' OBVIOUS
<1>8. (\A t \in tlb : t.virtual \in TestAddresses)' OBVIOUS
<1> QED BY <1>1, <1>2, <1>3, <1>4, <1>5, <1>6, <1>7, <1>8 DEF Core

(* What a step may write: page tables, and the page of the test.           *)
WritesOwn == \A p \in Memory : mem'[p] # mem[p] => p \in Tables \cup Tables' \cup ({page} \ {0})

(* A call of the driver, from what is mapped in the lower half after it.   *)
LEMMA CallKeeps ==
  ASSUME Core, pc \in 2 .. 33, ~halted, LowerIsOwn,
         NEW w, NEW M, Called(State, TableNodes(mem), w, M, Elsewhere), Become(w),
         \A t \in LowerMap(w.mem) : t.page = page,
         pc' = pc + 1, UNCHANGED <<missing, tlb, page, output, faulted>>
  PROVE  Core' /\ LowerIsOwn' /\ WritesOwn /\ (page # 0 => mem'[page] = mem[page])
<1> DEFINE N == TableNodes(mem)
<1>1. mem' = w.mem /\ held' = w.held /\ halted' = w.halted BY DEF Become
<1>2. missing' = missing /\ page' = page /\ output' = output /\ faulted' = faulted OBVIOUS
<1>3. /\ Good(w, M, Elsewhere) /\ \A y \in M \ N : y.page \in Pool
      /\ \A p \in Memory : w.mem[p] # mem[p] => p \in Pages(N) \cup Pages(M)
      /\ LargePages(w.mem) = LargePages(mem)
      /\ ~w.halted => NoEmptyLower(w, M)
  BY StateIs DEF Called
<1>4. Elsewhere' = Elsewhere BY <1>2 DEF Elsewhere
<1>5. Good(State, M, Elsewhere)'
  <2>1. State' = [mem |-> w.mem, held |-> w.held, halted |-> w.halted] BY <1>1 DEF State
  <2>2. w \in WalkState BY <1>3 DEF Good
  <2>3. State' = w BY <2>1, <2>2 DEF WalkState
  <2> QED BY <1>3, <1>4, <2>3
<1>6. \A t \in tlb' : t.virtual \in TestAddresses BY DEF Core
<1>7. page' \in ({0} \cup Pool) \ missing /\ faulted' = FALSE BY <1>2 DEF Core
<1>8. \E n \in 0 .. 6 : Printed(n)'
  <2>1. PICK n \in 0 .. 6 : Printed(n) BY DEF Core
  <2>2. Printed(n)' BY <1>2, <2>1 DEF Printed
  <2> QED BY <2>2
<1>9. pc' \in 1 .. Len(KernelMain) + 1 BY ProgramIs
<1>10. \A y \in M : y \in TableNodes(mem) \/ y.page \in Pool BY <1>3
<1>11. Core' /\ TableNodes(mem') = M /\ Tables' = Pages(M)
  <2> HIDE DEF N
  <2> QED BY <1>2, <1>5, <1>6, <1>7, <1>8, <1>9, <1>10, CoreNext
<1>12. Tables = Pages(N) BY CoreTypes
<1>13. WritesOwn
  <2> HIDE DEF N
  <2> QED BY <1>1, <1>3, <1>11, <1>12 DEF WritesOwn
<1>14. ASSUME page # 0 PROVE mem'[page] = mem[page]
  <2>1. page \in Memory /\ page \notin Tables /\ page \in Elsewhere BY <1>14, CoreTypes DEF Elsewhere
  <2>2. page \notin Pages(M) BY <1>3, <2>1 DEF Good
  <2> HIDE DEF N
  <2> QED BY <1>1, <1>3, <1>12, <2>1, <2>2
<1>15. LowerIsOwn'
  <2>1. \A v \in LargePages(mem') : ~(v < HALF) BY <1>1, <1>3 DEF LowerIsOwn
  <2>2. \A t \in LowerMap(mem') : t.page = page' BY <1>1, <1>2
  <2>3. ~halted' => NoEmptyLower(State, TableNodes(mem))'
    <3>1. ASSUME ~halted', NEW y \in M, y.depth # 0, Lower(y) PROVE ~Empty(State, y.page)'
      <4>1. ~Empty(w, y.page) BY <1>1, <1>3, <3>1 DEF NoEmptyLower
      <4> QED BY <1>1, <4>1, StateIs DEF Empty
    <3> QED BY <1>11, <3>1 DEF NoEmptyLower
  <2> QED BY <2>1, <2>2, <2>3 DEF LowerIsOwn
<1> QED BY <1>11, <1>13, <1>14, <1>15

(* mmu_assign of the page of the test.  Without a page the kernel panics.  *)
LEMMA MapStep ==
  ASSUME Core, pc \in 2 .. 33, ~halted, LowerIsOwn,
         NEW at \in TestAddresses, NEW flags, Step = MapPage(flags, at),
         page = 0 => Free(State) = {} /\ LowerMap(mem) = {}, TestMap
  PROVE  /\ Core' /\ LowerIsOwn' /\ WritesOwn /\ (page # 0 => mem'[page] = mem[page])
         /\ pc' = pc + 1 /\ page' = page /\ output' = output
         /\ ~halted' => /\ page # 0
                        /\ LowerMap(mem') = Left(LowerMap(mem), at) \cup {Own(at, flags)}
<1> DEFINE N == TableNodes(mem)
           w == ApplyNodesEntry(ApplyNodesEntry(State, "reserve", Loc(OnePage(at)), <<>>),
                                "leaf", Loc(OnePage(at)), Linear(OnePage(at), flags, page))
<1>1. Step.at = at /\ Step.flags = flags BY DEF MapPage
<1>2. /\ Become(w) /\ pc' = pc + 1
      /\ UNCHANGED <<missing, tlb, page, output, faulted>>
  BY <1>1 DEF TestMap, MmuAssign, Go
<1>3. Good(State, N, Elsewhere) /\ page \in {0} \cup Pool /\ at \in 0 .. HALF - 1
  BY CoreTypes DEF Core
<1>4. (\A v \in LargePages(State.mem) : ~(v < HALF)) /\ NoEmptyLower(State, N) /\ ~State.halted
      /\ (page = 0 => Free(State) = {} /\ LowerMap(State.mem) = {})
  BY StateIs DEF LowerIsOwn
<1>5. \E M : /\ Called(State, N, w, M, Elsewhere)
             /\ \/ w.halted /\ Mapped(w.mem) = Mapped(mem)
                \/ ~w.halted /\ page # 0 /\ PageMapped(Mapped(mem), Mapped(w.mem), at, flags, page)
  <2> HIDE DEF N
  <2>1. \E M : /\ Called(State, N, w, M, Elsewhere)
               /\ \/ w.halted /\ Mapped(w.mem) = Mapped(State.mem)
                  \/ /\ ~w.halted /\ page # 0
                     /\ PageMapped(Mapped(State.mem), Mapped(w.mem), at, flags, page)
    BY <1>3, <1>4, MapOne
  <2> HIDE DEF w
  <2> QED BY <2>1, StateIs
<1> HIDE DEF w
<1>6. PICK M : /\ Called(State, N, w, M, Elsewhere)
               /\ \/ w.halted /\ Mapped(w.mem) = Mapped(mem)
                  \/ ~w.halted /\ page # 0 /\ PageMapped(Mapped(mem), Mapped(w.mem), at, flags, page)
  BY <1>5
<1>7. mem' = w.mem /\ halted' = w.halted BY <1>2 DEF Become
<1>8. ~halted' => /\ page # 0
                  /\ LowerMap(mem') = Left(LowerMap(mem), at) \cup {Own(at, flags)}
  <2> SUFFICES ASSUME ~halted' PROVE page # 0 /\ LowerMap(mem') = Left(LowerMap(mem), at) \cup {Own(at, flags)}
    OBVIOUS
  <2>1. page # 0 /\ Mapped(mem') = Left(Mapped(mem), at) \cup {Own(at, flags)}
    BY <1>6, <1>7 DEF PageMapped, Own
  <2>2. Own(at, flags).virtual < HALF
    <3>1. at < HALF BY <1>3, HalfIs
    <3> QED BY <3>1 DEF Own
  <2> QED BY <2>1, <2>2 DEF LowerMap, Left
<1>9. \A t \in LowerMap(w.mem) : t.page = page
  <2>1. \A t \in LowerMap(mem) : t.page = page BY DEF LowerIsOwn
  <2>2. CASE Mapped(w.mem) = Mapped(mem) BY <2>1, <2>2 DEF LowerMap
  <2>3. CASE PageMapped(Mapped(mem), Mapped(w.mem), at, flags, page)
    BY <2>1, <2>3 DEF LowerMap, PageMapped, Left
  <2> QED BY <1>6, <2>2, <2>3
<1>10. Core' /\ LowerIsOwn' /\ WritesOwn /\ (page # 0 => mem'[page] = mem[page])
  BY <1>2, <1>6, <1>9, CallKeeps
<1> QED BY <1>2, <1>8, <1>10

(* mmu_remove of a page the test has mapped.                               *)
LEMMA UnmapStep ==
  ASSUME Core, pc \in 2 .. 33, ~halted, LowerIsOwn,
         NEW at \in TestAddresses, Step = Unmap(at),
         \E t \in LowerMap(mem) : t.virtual = at, TestUnmap
  PROVE  /\ Core' /\ LowerIsOwn' /\ WritesOwn /\ (page # 0 => mem'[page] = mem[page])
         /\ pc' = pc + 1 /\ page' = page /\ output' = output
         /\ ~halted' => LowerMap(mem') = Left(LowerMap(mem), at)
<1> DEFINE N == TableNodes(mem)
           w == ApplyNodesEntry(ApplyNodesEntry(State, "leaf", Loc(OnePage(at)), Clear),
                                "gc", Loc(OnePage(at)), <<>>)
<1>1. Step.at = at BY DEF Unmap
<1>2. /\ Become(w) /\ pc' = pc + 1
      /\ UNCHANGED <<missing, tlb, page, output, faulted>>
  BY <1>1 DEF TestUnmap, MmuRemove, Go
<1>3. Good(State, N, Elsewhere) /\ at \in 0 .. HALF - 1 BY CoreTypes DEF Core
<1>4. (\A v \in LargePages(State.mem) : ~(v < HALF)) /\ NoEmptyLower(State, N) /\ ~State.halted
      /\ \E t \in Mapped(State.mem) : t.virtual = at
  BY StateIs DEF LowerIsOwn, LowerMap
<1>5. \E M : /\ Called(State, N, w, M, Elsewhere)
             /\ \/ w.halted /\ Mapped(w.mem) = Mapped(mem)
                \/ Mapped(w.mem) = Left(Mapped(mem), at)
  <2> HIDE DEF N
  <2>1. \E M : /\ Called(State, N, w, M, Elsewhere)
               /\ \/ w.halted /\ Mapped(w.mem) = Mapped(State.mem)
                  \/ Mapped(w.mem) = Left(Mapped(State.mem), at)
    BY <1>3, <1>4, UnmapOne
  <2> HIDE DEF w
  <2> QED BY <2>1, StateIs
<1> HIDE DEF w
<1>6. PICK M : /\ Called(State, N, w, M, Elsewhere)
               /\ \/ w.halted /\ Mapped(w.mem) = Mapped(mem)
                  \/ Mapped(w.mem) = Left(Mapped(mem), at)
  BY <1>5
<1>7. mem' = w.mem /\ halted' = w.halted BY <1>2 DEF Become
<1>8. \/ halted' /\ Mapped(w.mem) = Mapped(mem)
      \/ LowerMap(w.mem) = Left(LowerMap(mem), at)
  BY <1>6, <1>7 DEF LowerMap, Left
<1>9. \A t \in LowerMap(w.mem) : t.page = page
  BY <1>8 DEF LowerIsOwn, LowerMap, Left
<1>10. Core' /\ LowerIsOwn' /\ WritesOwn /\ (page # 0 => mem'[page] = mem[page])
  BY <1>2, <1>6, <1>9, CallKeeps
<1> QED BY <1>2, <1>7, <1>8, <1>10

(* What the page tables have for an address is the one translation of the  *)
(* page of the test, and nothing else that is used is one of them.         *)
LEMMA UsableIs ==
  ASSUME Core, NEW at \in TestAddresses, NEW flags, Own(at, flags) \in LowerMap(mem),
         \A t \in LowerMap(mem) : t.virtual = at => t = Own(at, flags)
  PROVE  /\ Own(at, flags) \in Usable(at) /\ Own(at, flags) \in Mapped(mem)
         /\ \A t \in Usable(at) : t \in Mapped(mem) => t = Own(at, flags)
<1>1. at < HALF
  <2>1. at \in 0 .. HALF - 1 BY CoreTypes
  <2> QED BY <2>1, HalfIs
<1>2. ASSUME NEW t \in Mapped(mem), t.virtual = at PROVE t = Own(at, flags)
  BY <1>1, <1>2 DEF LowerMap
<1>3. Own(at, flags) \in Mapped(mem) /\ Own(at, flags).virtual = at BY DEF LowerMap, Own
<1> QED BY <1>2, <1>3 DEF Usable

(* A step that leaves the page tables and the allocated pages alone.       *)
LEMMA TablesKept ==
  ASSUME Core, pc \in 2 .. 33, LowerIsOwn,
         mem' \in Contents, \A q \in Memory : q # page => mem'[q] = mem[q],
         page # 0 \/ mem' = mem, held' = held, halted' = halted, missing' = missing, page' = page, faulted' = faulted,
         NEW t, t.virtual \in TestAddresses, tlb' = tlb \cup {t},
         pc' \in 2 .. 34, \E n \in 0 .. 6 : Printed(n)'
  PROVE  Core' /\ LowerIsOwn' /\ WritesOwn /\ LowerMap(mem') = LowerMap(mem)
<1>0. PICK N : N = TableNodes(mem) OBVIOUS
<1>1. /\ mem \in Contents /\ Tree(mem, N) /\ State \in WalkState /\ Tables = Pages(N)
      /\ held = (Pages(N) \cap Pool) \cup Elsewhere /\ Pages(N) \cap Elsewhere = {}
      /\ page \notin Pages(N)
  BY <1>0, CoreTypes
<1>2. /\ Tree(mem', N) /\ Mapped(mem') = Mapped(mem) /\ LargePages(mem') = LargePages(mem)
      /\ \A x \in N : mem'[x.page] = mem[x.page]
  <2> QED BY <1>1, WriteOther
<1>3. Elsewhere' = Elsewhere BY DEF Elsewhere
<1>4. Good(State, N, Elsewhere)'
  <2>1. State' \in WalkState
    <3>1. held \in SUBSET Pool /\ halted \in BOOLEAN BY CoreTypes
    <3>2. State' = [mem |-> mem', held |-> held, halted |-> halted] BY DEF State
    <3> QED BY <3>1, <3>2 DEF WalkState, Contents
  <2>2. Good(State', N, Elsewhere') BY <1>1, <1>2, <1>3, <2>1, StateIs DEF Good
  <2> QED BY <2>2
<1>5. page' \in ({0} \cup Pool) \ missing /\ faulted' = FALSE BY DEF Core
<1>6. \A u \in tlb' : u.virtual \in TestAddresses BY DEF Core
<1>7. pc' \in 1 .. Len(KernelMain) + 1 BY ProgramIs
<1>8. Core' /\ TableNodes(mem') = N /\ Tables' = Pages(N)
  <2>1. \A y \in N : y \in TableNodes(mem) \/ y.page \in Pool BY <1>0
  <2> QED BY <1>4, <1>5, <1>6, <1>7, <2>1, CoreNext
<1>9. LowerMap(mem') = LowerMap(mem) BY <1>2 DEF LowerMap
<1>10. LowerIsOwn'
  <2>1. \A v \in LargePages(mem') : ~(v < HALF) BY <1>2 DEF LowerIsOwn
  <2>2. \A u \in LowerMap(mem') : u.page = page' BY <1>9 DEF LowerIsOwn
  <2>3. ~halted' => NoEmptyLower(State, TableNodes(mem))'
    <3>1. ASSUME ~halted', NEW y \in N, y.depth # 0, Lower(y) PROVE ~Empty(State, y.page)'
      <4>1. ~Empty(State, y.page) BY <1>0, <3>1 DEF LowerIsOwn, NoEmptyLower
      <4>2. mem'[y.page] = mem[y.page] BY <1>2
      <4> QED BY <4>1, <4>2, StateIs DEF Empty
    <3> QED BY <1>8, <3>1 DEF NoEmptyLower
  <2> QED BY <2>1, <2>2, <2>3 DEF LowerIsOwn
<1>11. WritesOwn
  <2>1. ASSUME NEW p \in Memory, mem'[p] # mem[p] PROVE p \in Tables \cup Tables' \cup ({page} \ {0})
    <3>1. p = page BY <2>1
    <3>2. CASE page # 0 BY <3>1, <3>2
    <3>3. CASE page = 0
      <4>1. FALSE BY <2>1, <3>1, <3>3
      <4> QED BY <4>1
    <3> QED BY <3>2, <3>3
  <2> QED BY <2>1 DEF WritesOwn
<1> QED BY <1>8, <1>9, <1>10, <1>11

(* memcpy to the page of the test. *)
LEMMA CopyStep ==
  ASSUME ~misled', Core, pc \in 2 .. 33, LowerIsOwn, page # 0,
         NEW at \in TestAddresses, NEW data \in Entry, Step = Copy(data, at),
         NEW flags, "WRITE" \in flags, Own(at, flags) \in LowerMap(mem),
         \A t \in LowerMap(mem) : t.virtual = at => t = Own(at, flags), TestCopy
  PROVE  /\ Core' /\ LowerIsOwn' /\ WritesOwn /\ LowerMap(mem') = LowerMap(mem)
         /\ pc' = pc + 1 /\ page' = page /\ output' = output /\ halted' = halted
         /\ mem'[page][0] = data
<1> DEFINE t == Own(at, flags)
<1>1. Step.at = at /\ Step.data = data BY DEF Copy
<1>2. t \in Usable(at) /\ \A u \in Usable(at) : u \in Mapped(mem) => u = t BY UsableIs
<1>3. t.page = page /\ t.virtual = at /\ t.bits = ConvertFlags(flags) BY DEF Own
<1>4. Permits(t, "write") BY <1>3 DEF Permits, ConvertFlags
<1> HIDE DEF t
<1>5. ~Fault(at, "write") BY <1>2, <1>4 DEF Fault, Uses
<1>6. /\ tlb' = tlb \cup {t} /\ mem' = [mem EXCEPT ![page][0] = data] /\ pc' = pc + 1
      /\ UNCHANGED <<held, halted, missing, page, output, faulted>>
  BY <1>1, <1>2, <1>3, <1>5 DEF TestCopy, Access, Uses, Go
<1>7. mem \in Contents /\ page \in Memory BY CoreTypes
<1>8. 0 \in Index BY Constants
<1>9. /\ mem' \in Contents /\ \A q \in Memory : q # page => mem'[q] = mem[q]
      /\ mem'[page][0] = data
  BY <1>6, <1>7, <1>8 DEF Contents
<1>10. \E n \in 0 .. 6 : Printed(n)'
  <2>1. PICK n \in 0 .. 6 : Printed(n) BY DEF Core
  <2>2. Printed(n)' BY <1>6, <2>1 DEF Printed
  <2> QED BY <2>2
<1>11. Core' /\ LowerIsOwn' /\ WritesOwn /\ LowerMap(mem') = LowerMap(mem)
  <2>1. pc' \in 2 .. 34 BY <1>6
  <2>2. held' = held /\ halted' = halted /\ missing' = missing /\ page' = page /\ faulted' = faulted
    BY <1>6
  <2>3. tlb' = tlb \cup {t} BY <1>6
  <2>4. t.virtual \in TestAddresses BY <1>3
  <2> QED BY <1>9, <1>10, <2>1, <2>2, <2>3, <2>4, TablesKept
<1> QED BY <1>6, <1>9, <1>11

(* puts and the call of the program, of the page of the test. *)
LEMMA UseStep ==
  ASSUME ~misled', Core, pc \in 2 .. 33, LowerIsOwn, page # 0,
         NEW at \in TestAddresses, NEW op, NEW access, Step.at = at,
         NEW flags, access = "read" \/ (access = "execute" /\ "EXEC" \in flags),
         Own(at, flags) \in LowerMap(mem),
         \A t \in LowerMap(mem) : t.virtual = at => t = Own(at, flags), TestUse(op, access),
         NEW n \in 0 .. 5, Printed(n), mem[page][0] = Expected[n + 1]
  PROVE  /\ Core' /\ LowerIsOwn' /\ WritesOwn /\ LowerMap(mem') = LowerMap(mem)
         /\ pc' = pc + 1 /\ page' = page /\ mem' = mem /\ halted' = halted
         /\ Printed(n + 1)'
<1> DEFINE t == Own(at, flags)
<1>1. t \in Usable(at) /\ \A u \in Usable(at) : u \in Mapped(mem) => u = t BY UsableIs
<1>2. t.page = page /\ t.virtual = at /\ t.bits = ConvertFlags(flags) BY DEF Own
<1>3. Permits(t, access)
  <2>1. CASE access = "read" BY <2>1 DEF Permits
  <2>2. CASE access = "execute" /\ "EXEC" \in flags
    <3>1. "XD" \notin t.bits BY <1>2, <2>2 DEF ConvertFlags
    <3> QED BY <2>2, <3>1 DEF Permits
  <2> QED BY <2>1, <2>2
<1> HIDE DEF t
<1>4. ~Fault(at, access) BY <1>1, <1>3 DEF Fault, Uses
<1>5. /\ tlb' = tlb \cup {t} /\ output' = Append(output, mem[page][0]) /\ pc' = pc + 1
      /\ UNCHANGED <<mem, held, halted, missing, page, faulted>>
  BY <1>1, <1>2, <1>4 DEF TestUse, Access, Uses, Go
<1>6. mem \in Contents BY CoreTypes
<1>7. Printed(n + 1)'
  <2>1. output \in Seq(Entry) /\ Len(output) = n /\ \A i \in 1 .. n : output[i] = Expected[i]
    BY DEF Printed
  <2>2. mem[page][0] \in Entry
    <3>1. page \in Memory /\ 0 \in Index BY CoreTypes, Constants
    <3> QED BY <1>6, <3>1 DEF Contents
  <2>3. /\ Append(output, mem[page][0]) \in Seq(Entry)
        /\ Len(Append(output, mem[page][0])) = n + 1
        /\ \A i \in 1 .. n : Append(output, mem[page][0])[i] = output[i]
        /\ Append(output, mem[page][0])[n + 1] = mem[page][0]
    BY <2>1, <2>2
  <2>4. output' \in Seq(Entry) /\ Len(output') = n + 1 BY <1>5, <2>3
  <2>5. \A i \in 1 .. n + 1 : output'[i] = Expected[i]
    <3> SUFFICES ASSUME NEW i \in 1 .. n + 1 PROVE output'[i] = Expected[i] OBVIOUS
    <3>1. i \in 1 .. n \/ i = n + 1 OBVIOUS
    <3> QED BY <1>5, <2>1, <2>3, <3>1
  <2> QED BY <2>4, <2>5 DEF Printed
<1>8. \E k \in 0 .. 6 : Printed(k)' BY <1>7
<1>9. Core' /\ LowerIsOwn' /\ WritesOwn /\ LowerMap(mem') = LowerMap(mem)
  <2>1. pc' \in 2 .. 34
    <3>1. pc' = pc + 1 BY <1>5
    <3> QED BY <3>1
  <2>2. /\ held' = held /\ halted' = halted /\ missing' = missing /\ page' = page /\ faulted' = faulted
        /\ mem' \in Contents /\ \A q \in Memory : q # page => mem'[q] = mem[q]
    BY <1>5, <1>6
  <2>3. tlb' = tlb \cup {t} BY <1>5
  <2>4. t.virtual \in TestAddresses BY <1>2
  <2> QED BY <1>8, <2>1, <2>2, <2>3, <2>4, TablesKept
<1> QED BY <1>5, <1>7, <1>9

(* pmm_allocate_page: a page that is no table and was not held, or 0. *)
LEMMA AllocateStep ==
  ASSUME Core, pc \in 2 .. 33, ~halted, LowerIsOwn, page = 0, LowerMap(mem) = {}, TestAllocate
  PROVE  /\ Core' /\ LowerIsOwn' /\ WritesOwn /\ mem' = mem /\ LowerMap(mem') = {}
         /\ pc' = pc + 1 /\ output' = output /\ halted' = halted
         /\ page' = 0 => Free(State)' = {}
<1>1. /\ page' = (IF Free(State) = {} THEN 0 ELSE Min(Free(State)))
      /\ held' = held \cup ({page'} \ {0}) /\ pc' = pc + 1
      /\ UNCHANGED <<mem, halted, missing, tlb, output, faulted>>
  BY DEF TestAllocate, Go
<1>2. PICK N : N = TableNodes(mem) OBVIOUS
<1>3. /\ mem \in Contents /\ Tree(mem, N) /\ State \in WalkState /\ Tables = Pages(N)
      /\ held = (Pages(N) \cap Pool) \cup Elsewhere /\ Pages(N) \cap Elsewhere = {}
      /\ halted \in BOOLEAN /\ held \in SUBSET Pool /\ missing \subseteq held
  BY <1>2, CoreTypes
<1>4. Elsewhere = missing BY DEF Elsewhere
<1>5. Free(State) = Pool \ held BY StateIs DEF Free
<1>6. \/ page' = 0 /\ Free(State) = {}
      \/ page' \in Pool \ held /\ page' # 0
  <2>1. Free(State) # {} => Min(Free(State)) \in Pool \ State.held BY <1>3, MinIsFree
  <2> QED BY <1>1, <2>1, StateIs, PoolIs
<1>7. Elsewhere' = missing \cup ({page'} \ {0}) BY <1>1 DEF Elsewhere
<1>8. Good(State, N, Elsewhere)'
  <2>1. held' \in SUBSET Pool BY <1>1, <1>3, <1>6
  <2>2. State' \in WalkState
    <3>1. State' = [mem |-> mem, held |-> held', halted |-> halted] BY <1>1 DEF State
    <3> QED BY <1>3, <2>1, <3>1 DEF WalkState, Contents
  <2>3. held' = (Pages(N) \cap Pool) \cup Elsewhere' BY <1>1, <1>3, <1>4, <1>7
  <2>4. Pages(N) \cap Elsewhere' = {} BY <1>3, <1>4, <1>6, <1>7
  <2>5. Good(State', N, Elsewhere') BY <1>1, <1>3, <2>2, <2>3, <2>4, StateIs DEF Good
  <2> QED BY <2>5
<1>9. page' \in ({0} \cup Pool) \ missing /\ faulted' = FALSE
  <2>1. 0 \notin missing BY <1>3, PoolIs
  <2> QED BY <1>1, <1>3, <1>6, <2>1 DEF Core
<1>10. \A u \in tlb' : u.virtual \in TestAddresses BY <1>1 DEF Core
<1>11. \E n \in 0 .. 6 : Printed(n)'
  <2>1. PICK n \in 0 .. 6 : Printed(n) BY DEF Core
  <2>2. Printed(n)' BY <1>1, <2>1 DEF Printed
  <2> QED BY <2>2
<1>12. Core' /\ TableNodes(mem') = N
  <2>1. pc' \in 1 .. Len(KernelMain) + 1 BY <1>1, ProgramIs
  <2>2. missing' = missing BY <1>1
  <2>3. \A y \in N : y \in TableNodes(mem) \/ y.page \in Pool BY <1>2
  <2> QED BY <1>8, <1>9, <1>10, <1>11, <2>1, <2>2, <2>3, CoreNext
<1>13. LowerIsOwn'
  <2>1. \A v \in LargePages(mem') : ~(v < HALF) BY <1>1 DEF LowerIsOwn
  <2>2. \A u \in LowerMap(mem') : u.page = page' BY <1>1
  <2>3. ~halted' => NoEmptyLower(State, TableNodes(mem))'
    <3>1. ASSUME NEW y \in N, y.depth # 0, Lower(y) PROVE ~Empty(State, y.page)'
      <4>1. ~Empty(State, y.page) BY <1>2, <3>1 DEF LowerIsOwn, NoEmptyLower
      <4> QED BY <1>1, <4>1, StateIs DEF Empty
    <3> QED BY <1>12, <3>1 DEF NoEmptyLower
  <2> QED BY <2>1, <2>2, <2>3 DEF LowerIsOwn
<1>14. WritesOwn BY <1>1 DEF WritesOwn
<1>15. page' = 0 => Free(State)' = {}
  <2>1. Free(State)' = Pool \ held' BY StateIs DEF Free
  <2> QED BY <1>1, <1>5, <1>6, <2>1
<1> QED BY <1>1, <1>12, <1>13, <1>14, <1>15

(* pmm_free_page of the page of the test, which is held. *)
LEMMA FreeStep ==
  ASSUME Core, pc \in 2 .. 33, ~halted, LowerIsOwn, page # 0, LowerMap(mem) = {}, TestFree
  PROVE  /\ Core' /\ LowerIsOwn' /\ WritesOwn /\ mem' = mem /\ LowerMap(mem') = {}
         /\ pc' = pc + 1 /\ output' = output /\ halted' = FALSE /\ page' = 0
<1>1. /\ held' = held \ {page} /\ halted' = (page # 0 /\ page \notin held) /\ page' = 0
      /\ pc' = pc + 1 /\ UNCHANGED <<mem, missing, tlb, output, faulted>>
  BY DEF TestFree, Go
<1>2. PICK N : N = TableNodes(mem) OBVIOUS
<1>3. /\ mem \in Contents /\ Tree(mem, N) /\ State \in WalkState /\ Tables = Pages(N)
      /\ held = (Pages(N) \cap Pool) \cup Elsewhere /\ Pages(N) \cap Elsewhere = {}
      /\ held \in SUBSET Pool /\ missing \subseteq held /\ page \notin Pages(N)
  BY <1>2, CoreTypes
<1>4. Elsewhere = missing \cup {page} /\ page \notin missing BY DEF Elsewhere, Core
<1>5. Elsewhere' = missing BY <1>1 DEF Elsewhere
<1>6. halted' = FALSE BY <1>1, <1>3, <1>4
<1>7. Good(State, N, Elsewhere)'
  <2>1. State' \in WalkState
    <3>1. State' = [mem |-> mem, held |-> held', halted |-> FALSE] BY <1>1, <1>6 DEF State
    <3>2. held' \in SUBSET Pool BY <1>1, <1>3
    <3> QED BY <1>3, <3>1, <3>2 DEF WalkState, Contents
  <2>2. held' = (Pages(N) \cap Pool) \cup Elsewhere' BY <1>1, <1>3, <1>4, <1>5
  <2>3. Pages(N) \cap Elsewhere' = {} BY <1>3, <1>4, <1>5
  <2>4. Good(State', N, Elsewhere') BY <1>1, <1>3, <2>1, <2>2, <2>3, StateIs DEF Good
  <2> QED BY <2>4
<1>8. page' \in ({0} \cup Pool) \ missing /\ faulted' = FALSE
  <2>1. 0 \notin missing BY <1>3, PoolIs
  <2> QED BY <1>1, <2>1 DEF Core
<1>9. \A u \in tlb' : u.virtual \in TestAddresses BY <1>1 DEF Core
<1>10. \E n \in 0 .. 6 : Printed(n)'
  <2>1. PICK n \in 0 .. 6 : Printed(n) BY DEF Core
  <2>2. Printed(n)' BY <1>1, <2>1 DEF Printed
  <2> QED BY <2>2
<1>11. Core' /\ TableNodes(mem') = N
  <2>1. pc' \in 1 .. Len(KernelMain) + 1 BY <1>1, ProgramIs
  <2>2. missing' = missing BY <1>1
  <2>3. \A y \in N : y \in TableNodes(mem) \/ y.page \in Pool BY <1>2
  <2> QED BY <1>7, <1>8, <1>9, <1>10, <2>1, <2>2, <2>3, CoreNext
<1>12. LowerIsOwn'
  <2>1. \A v \in LargePages(mem') : ~(v < HALF) BY <1>1 DEF LowerIsOwn
  <2>2. \A u \in LowerMap(mem') : u.page = page' BY <1>1
  <2>3. ~halted' => NoEmptyLower(State, TableNodes(mem))'
    <3>1. ASSUME NEW y \in N, y.depth # 0, Lower(y) PROVE ~Empty(State, y.page)'
      <4>1. ~Empty(State, y.page) BY <1>2, <3>1 DEF LowerIsOwn, NoEmptyLower
      <4> QED BY <1>1, <4>1, StateIs DEF Empty
    <3> QED BY <1>11, <3>1 DEF NoEmptyLower
  <2> QED BY <2>1, <2>2, <2>3 DEF LowerIsOwn
<1>13. WritesOwn BY <1>1 DEF WritesOwn
<1> QED BY <1>1, <1>6, <1>11, <1>12, <1>13

(* clear_map_lower_half, of the tables of the bootloader. *)
LEMMA ClearStep ==
  ASSUME Core, Booted, pc = 1, ClearMapLowerHalf
  PROVE  /\ Core' /\ LowerIsOwn' /\ WritesOwn /\ Between(2, 0)'
<1>1. /\ mem' = Cleared(mem) /\ pc' = 2
      /\ UNCHANGED <<held, halted, missing, tlb, page, output, faulted>>
  BY DEF ClearMapLowerHalf, Go, Cleared
<1>2. PICK N : N = TableNodes(mem) OBVIOUS
<1>3. /\ mem \in Contents /\ Tree(mem, N) /\ State \in WalkState /\ Tables = Pages(N)
      /\ held = (Pages(N) \cap Pool) \cup Elsewhere /\ Pages(N) \cap Elsewhere = {}
      /\ halted \in BOOLEAN /\ held \in SUBSET Pool
  BY <1>2, CoreTypes
<1>4. PICK M : M = Upper(N) OBVIOUS
<1>5. mem' \in Contents /\ Tree(mem', M) /\ LowerMap(mem') = {} BY <1>1, <1>3, <1>4, ClearTree
<1>6. M \subseteq N /\ Pages(M) \subseteq Pages(N) BY <1>4 DEF Upper, Pages
<1>7. Pages(N) \cap Pool = {} BY <1>3 DEF Booted
<1>8. Elsewhere' = Elsewhere BY <1>1 DEF Elsewhere
<1>9. Good(State, M, Elsewhere)'
  <2>1. State' \in WalkState
    <3>1. State' = [mem |-> mem', held |-> held, halted |-> halted] BY <1>1 DEF State
    <3> QED BY <1>3, <1>5, <3>1 DEF WalkState, Contents
  <2>2. held' = (Pages(M) \cap Pool) \cup Elsewhere' BY <1>1, <1>3, <1>6, <1>7, <1>8
  <2>3. Pages(M) \cap Elsewhere' = {} BY <1>3, <1>6, <1>8
  <2>4. Good(State', M, Elsewhere') BY <1>5, <2>1, <2>2, <2>3, StateIs DEF Good
  <2> QED BY <2>4
<1>10. page' \in ({0} \cup Pool) \ missing /\ faulted' = FALSE BY <1>1 DEF Core
<1>11. \A t \in tlb' : t.virtual \in TestAddresses BY <1>1 DEF Core
<1>12. Printed(0)' BY <1>1 DEF Booted, Printed
<1>13. Core' /\ TableNodes(mem') = M /\ Tables' = Pages(M)
  <2>1. pc' \in 1 .. Len(KernelMain) + 1 BY <1>1, ProgramIs
  <2>2. missing' = missing BY <1>1
  <2>3. \A y \in M : y \in TableNodes(mem) \/ y.page \in Pool BY <1>2, <1>6
  <2>4. \E n \in 0 .. 6 : Printed(n)' BY <1>12
  <2> QED BY <1>9, <1>10, <1>11, <2>1, <2>2, <2>3, <2>4, CoreNext
<1>14. LowerIsOwn'
  <2>1. \A v \in LargePages(mem') : ~(v < HALF) BY <1>5, NoneLarge
  <2>2. \A t \in LowerMap(mem') : t.page = page' BY <1>5
  <2>3. NoEmptyLower(State, TableNodes(mem))' BY <1>4, <1>13 DEF NoEmptyLower, Upper
  <2> QED BY <2>1, <2>2, <2>3 DEF LowerIsOwn
<1>15. WritesOwn
  <2>1. \A p \in Memory : mem'[p] # mem[p] => p = Root BY <1>1, <1>3 DEF Cleared, Contents
  <2>2. Root \in Tables
    <3>1. RootNode \in N /\ RootNode.page = Root BY <1>3 DEF Tree, RootNode
    <3> QED BY <1>3, <3>1 DEF Pages
  <2> QED BY <2>1, <2>2 DEF WritesOwn
<1>16. Between(2, 0)' BY <1>1, <1>5, <1>12 DEF Between, AtStep, Booted
<1> QED BY <1>13, <1>14, <1>15, <1>16

------------------------------------------------------------------------------
(* The tests *)

(* A step of the kernel is the one that kernel_main has there. *)
LEMMA StepIs ==
  ASSUME KernelStep
  PROVE  /\ Running /\ ~halted
         /\ Step.op = "clear" => ClearMapLowerHalf
         /\ Step.op = "allocate" => TestAllocate
         /\ Step.op = "map" => TestMap
         /\ Step.op = "unmap" => TestUnmap
         /\ Step.op = "copy" => TestCopy
         /\ Step.op = "puts" => TestUse("puts", "read")
         /\ Step.op = "call" => TestUse("call", "execute")
         /\ Step.op = "free" => TestFree
<1>1. CASE ClearMapLowerHalf BY <1>1 DEF ClearMapLowerHalf, Running
<1>2. CASE TestAllocate BY <1>2 DEF TestAllocate, Running
<1>3. CASE TestMap BY <1>3 DEF TestMap, Running
<1>4. CASE TestUnmap BY <1>4 DEF TestUnmap, Running
<1>5. CASE TestCopy BY <1>5 DEF TestCopy, Running
<1>6. CASE TestUse("puts", "read") BY <1>6 DEF TestUse, Running
<1>7. CASE TestUse("call", "execute") BY <1>7 DEF TestUse, Running
<1>8. CASE TestFree BY <1>8 DEF TestFree, Running
<1> QED BY <1>1, <1>2, <1>3, <1>4, <1>5, <1>6, <1>7, <1>8 DEF KernelStep

(* The first two steps of a test. *)
LEMMA BetweenStep ==
  ASSUME Core, LowerIsOwn, KernelStep, NEW first \in 2 .. 27, NEW n, Between(first, n),
         Step = Op("allocate")
  PROVE  /\ Core' /\ LowerIsOwn' /\ WritesOwn
         /\ AtStep(first + 1, {}, n)' /\ (page = 0 => Free(State) = {})'
<1>1. TestAllocate /\ ~halted BY StepIs DEF Op
<1>2. pc = first /\ page = 0 /\ LowerMap(mem) = {} /\ Printed(n) BY DEF Between, AtStep
<1>3. pc \in 2 .. 33 BY <1>2
<1>4. /\ Core' /\ LowerIsOwn' /\ WritesOwn /\ mem' = mem /\ LowerMap(mem') = {}
      /\ pc' = pc + 1 /\ output' = output /\ halted' = halted
      /\ page' = 0 => Free(State)' = {}
  BY <1>1, <1>2, <1>3, AllocateStep
<1>5. Printed(n)' BY <1>2, <1>4 DEF Printed
<1> QED BY <1>2, <1>4, <1>5 DEF AtStep

(* A call of mmu_assign in a test. *)
LEMMA AtMap ==
  ASSUME Core, LowerIsOwn, KernelStep, NEW p \in 2 .. 33, NEW maps, NEW n, AtStep(p, maps, n),
         NEW at \in TestAddresses, NEW flags, Step = MapPage(flags, at),
         page = 0 => Free(State) = {} /\ maps = {},
         NEW after, after = Left(maps, at) \cup {Own(at, flags)}
  PROVE  /\ Core' /\ LowerIsOwn' /\ WritesOwn /\ page' = page
         /\ ~halted' => /\ page # 0 /\ AtStep(p + 1, after, n)'
                        /\ mem'[page] = mem[page]
<1>1. TestMap /\ ~halted BY StepIs DEF MapPage
<1>2. pc = p /\ LowerMap(mem) = maps /\ Printed(n) BY DEF AtStep
<1>3. /\ Core' /\ LowerIsOwn' /\ WritesOwn /\ (page # 0 => mem'[page] = mem[page])
      /\ pc' = pc + 1 /\ page' = page /\ output' = output
      /\ ~halted' => /\ page # 0
                     /\ LowerMap(mem') = Left(LowerMap(mem), at) \cup {Own(at, flags)}
  BY <1>1, <1>2, MapStep
<1>4. Printed(n)' BY <1>2, <1>3 DEF Printed
<1>5. ~halted' => AtStep(p + 1, after, n)'
  BY <1>2, <1>3, <1>4 DEF AtStep
<1> QED BY <1>3, <1>5

(* A call of mmu_remove. *)
LEMMA AtUnmap ==
  ASSUME Core, LowerIsOwn, KernelStep, NEW p \in 2 .. 33, NEW maps, NEW n, AtStep(p, maps, n),
         NEW at \in TestAddresses, Step = Unmap(at), page # 0, \E t \in maps : t.virtual = at,
         NEW after, after = Left(maps, at)
  PROVE  /\ Core' /\ LowerIsOwn' /\ WritesOwn /\ page' = page
         /\ ~halted' => AtStep(p + 1, after, n)' /\ mem'[page] = mem[page]
<1>1. TestUnmap /\ ~halted BY StepIs DEF Unmap
<1>2. pc = p /\ LowerMap(mem) = maps /\ Printed(n) BY DEF AtStep
<1>3. /\ Core' /\ LowerIsOwn' /\ WritesOwn /\ (page # 0 => mem'[page] = mem[page])
      /\ pc' = pc + 1 /\ page' = page /\ output' = output
      /\ ~halted' => LowerMap(mem') = Left(LowerMap(mem), at)
  BY <1>1, <1>2, UnmapStep
<1>4. Printed(n)' BY <1>2, <1>3 DEF Printed
<1> QED BY <1>2, <1>3, <1>4 DEF AtStep

(* A copy to the page, with the translation t of the test.                 *)
LEMMA AtCopy ==
  ASSUME ~misled', Core, LowerIsOwn, KernelStep, NEW p \in 2 .. 33, NEW maps, NEW n, AtStep(p, maps, n),
         NEW at \in TestAddresses, NEW data \in Entry, Step = Copy(data, at), page # 0,
         NEW flags, "WRITE" \in flags, Own(at, flags) \in maps,
         \A t \in maps : t.virtual = at => t = Own(at, flags)
  PROVE  /\ Core' /\ LowerIsOwn' /\ WritesOwn /\ page' = page
         /\ AtStep(p + 1, maps, n)' /\ mem'[page][0] = data
<1>1. TestCopy BY StepIs DEF Copy
<1>2. pc = p /\ LowerMap(mem) = maps /\ Printed(n) BY DEF AtStep
<1>3. /\ Core' /\ LowerIsOwn' /\ WritesOwn /\ LowerMap(mem') = LowerMap(mem)
      /\ pc' = pc + 1 /\ page' = page /\ output' = output /\ halted' = halted
      /\ mem'[page][0] = data
  BY <1>1, <1>2, CopyStep
<1>4. Printed(n)' BY <1>2, <1>3 DEF Printed
<1> QED BY <1>2, <1>3, <1>4 DEF AtStep

(* A use of it. *)
LEMMA AtUse ==
  ASSUME ~misled', Core, LowerIsOwn, KernelStep, NEW p \in 2 .. 33, NEW maps, NEW n \in 0 .. 5,
         AtStep(p, maps, n), NEW at \in TestAddresses, NEW flags,
         Step = Puts(at) \/ (Step = Call(at) /\ "EXEC" \in flags), page # 0,
         Own(at, flags) \in maps, \A t \in maps : t.virtual = at => t = Own(at, flags),
         mem[page][0] = Expected[n + 1]
  PROVE  /\ Core' /\ LowerIsOwn' /\ WritesOwn /\ page' = page /\ mem' = mem
         /\ AtStep(p + 1, maps, n + 1)'
<1>1. pc = p /\ LowerMap(mem) = maps /\ Printed(n) BY DEF AtStep
<1>2. PICK op, access : /\ TestUse(op, access) /\ Step.at = at
                        /\ access = "read" \/ (access = "execute" /\ "EXEC" \in flags)
  <2>1. CASE Step = Puts(at)
    <3>1. Step.op = "puts" /\ Step.at = at BY <2>1 DEF Puts
    <3> QED BY <3>1, StepIs
  <2>2. CASE Step = Call(at) /\ "EXEC" \in flags
    <3>1. Step.op = "call" /\ Step.at = at BY <2>2 DEF Call
    <3> QED BY <2>2, <3>1, StepIs
  <2> QED BY <2>1, <2>2
<1>3. /\ Core' /\ LowerIsOwn' /\ WritesOwn /\ LowerMap(mem') = LowerMap(mem)
      /\ pc' = pc + 1 /\ page' = page /\ mem' = mem /\ halted' = halted
      /\ Printed(n + 1)'
  BY <1>1, <1>2, UseStep
<1> QED BY <1>1, <1>3 DEF AtStep

(* The last step of a test. *)
LEMMA AtFree ==
  ASSUME Core, LowerIsOwn, KernelStep, NEW p \in 2 .. 33, NEW n, AtStep(p, {}, n),
         Step = Op("free"), page # 0
  PROVE  Core' /\ LowerIsOwn' /\ WritesOwn /\ Between(p + 1, n)'
<1>1. TestFree /\ ~halted BY StepIs DEF Op
<1>2. pc = p /\ LowerMap(mem) = {} /\ Printed(n) BY DEF AtStep
<1>3. /\ Core' /\ LowerIsOwn' /\ WritesOwn /\ mem' = mem /\ LowerMap(mem') = {}
      /\ pc' = pc + 1 /\ output' = output /\ halted' = FALSE /\ page' = 0
  BY <1>1, <1>2, FreeStep
<1>4. Printed(n)' BY <1>2, <1>3 DEF Printed
<1> QED BY <1>2, <1>3, <1>4 DEF Between, AtStep

(* test_mmu: a step of it leads to the next one, or to the end.            *)
LEMMA MmuTestStep ==
  ASSUME ~misled', Core, LowerIsOwn, KernelStep,
         NEW first \in {2, 11}, NEW n \in {0, 2}, n + 2 <= 4,
         \A k \in 0 .. 8 : KernelMain[first + k] = TestMmu[k + 1], InTestMmu(first, n)
  PROVE  /\ Core' /\ LowerIsOwn' /\ WritesOwn
         /\ ~halted' => InTestMmu(first, n)' \/ Between(first + 9, n + 2)'
<1>1. PICK W : W = Own(WriteAddress, {"WRITE"}) OBVIOUS
<1>2. PICK R : R = Own(ReadAddress, {}) OBVIOUS
<1>3. W.virtual = WriteAddress /\ R.virtual = ReadAddress BY <1>1, <1>2 DEF Own
<1>4. /\ WriteAddress \in TestAddresses /\ ReadAddress \in TestAddresses
      /\ WriteAddress # ReadAddress /\ Text \in Entry
  BY TestAssumption DEF TestAddresses
<1>5. \A i \in 1 .. 4 : Expected[i] = Text BY ExpectedIs
<1>6. page' = page => W = Own(WriteAddress, {"WRITE"})' /\ R = Own(ReadAddress, {})'
  BY <1>1, <1>2 DEF Own
<1>7. /\ {W} = Left({}, WriteAddress) \cup {W} /\ {W, R} = Left({W}, ReadAddress) \cup {R}
      /\ Left({W, R}, WriteAddress) = {R} /\ Left({R}, ReadAddress) = {}
  BY <1>3, <1>4 DEF Left
<1>8. ASSUME NEW k \in 0 .. 8, NEW maps, NEW m, AtStep(first + k, maps, m)
      PROVE  Step = TestMmu[k + 1] /\ first + k \in 2 .. 33
  BY <1>8 DEF AtStep, Step
<1>9. CASE Between(first, n)
  <2>1. AtStep(first + 0, {}, n) BY <1>9 DEF Between
  <2>2. Step = Op("allocate") BY <1>8, <2>1, TestsAre
  <2>3. first \in 2 .. 27 OBVIOUS
  <2>4. /\ Core' /\ LowerIsOwn' /\ WritesOwn
        /\ AtStep(first + 1, {}, n)' /\ (page = 0 => Free(State) = {})'
    BY <1>9, <2>2, <2>3, BetweenStep
  <2>5. InTestMmu(first, n)' BY <2>4 DEF InTestMmu
  <2> QED BY <2>4, <2>5
<1>10. CASE AtStep(first + 1, {}, n) /\ (page = 0 => Free(State) = {})
  <2>1. Step = MapPage({"WRITE"}, WriteAddress) /\ first + 1 \in 2 .. 33 BY <1>8, <1>10, TestsAre
  <2>2. /\ Core' /\ LowerIsOwn' /\ WritesOwn /\ page' = page
        /\ ~halted' => page # 0 /\ AtStep(first + 1 + 1, {W}, n)'
    <3>1. PICK p, maps, after, flags :
            p \in 2 .. 33 /\ p = first + 1 /\ maps = {} /\ after = {W} /\ flags = {"WRITE"}
      BY <2>1
    <3>2. p \in 2 .. 33 /\ AtStep(p, maps, n) /\ (page = 0 => Free(State) = {} /\ maps = {})
      BY <1>10, <3>1
    <3>3. after = Left(maps, WriteAddress) \cup {Own(WriteAddress, flags)} BY <1>1, <1>7, <3>1
    <3>4. Step = MapPage(flags, WriteAddress) BY <2>1, <3>1
    <3>5. /\ Core' /\ LowerIsOwn' /\ WritesOwn /\ page' = page
          /\ ~halted' => page # 0 /\ AtStep(p + 1, after, n)' /\ mem'[page] = mem[page]
      BY <1>4, <3>2, <3>3, <3>4, AtMap, ZenonT(60)
    <3> QED BY <3>1, <3>5
  <2>3. first + 1 + 1 = first + 2 OBVIOUS
  <2>4. ~halted' => InTestMmu(first, n)' BY <1>6, <2>2, <2>3 DEF InTestMmu
  <2> QED BY <2>2, <2>4
<1>11. CASE page # 0 /\ AtStep(first + 2, {W}, n)
  <2>1. Step = MapPage({}, ReadAddress) /\ first + 2 \in 2 .. 33 BY <1>8, <1>11, TestsAre
  <2>2. /\ Core' /\ LowerIsOwn' /\ WritesOwn /\ page' = page
        /\ ~halted' => page # 0 /\ AtStep(first + 2 + 1, {W, R}, n)'
    <3>1. PICK p, maps, after, flags :
            p \in 2 .. 33 /\ p = first + 2 /\ maps = {W} /\ after = {W, R} /\ flags = {}
      BY <2>1
    <3>2. p \in 2 .. 33 /\ AtStep(p, maps, n) /\ (page = 0 => Free(State) = {} /\ maps = {})
      BY <1>11, <3>1
    <3>3. after = Left(maps, ReadAddress) \cup {Own(ReadAddress, flags)} BY <1>2, <1>7, <3>1
    <3>4. Step = MapPage(flags, ReadAddress) BY <2>1, <3>1
    <3>5. /\ Core' /\ LowerIsOwn' /\ WritesOwn /\ page' = page
          /\ ~halted' => page # 0 /\ AtStep(p + 1, after, n)' /\ mem'[page] = mem[page]
      BY <1>4, <3>2, <3>3, <3>4, AtMap, ZenonT(60)
    <3> QED BY <3>1, <3>5
  <2>3. first + 2 + 1 = first + 3 OBVIOUS
  <2>4. ~halted' => InTestMmu(first, n)' BY <1>6, <2>2, <2>3 DEF InTestMmu
  <2> QED BY <2>2, <2>4
<1>12. CASE page # 0 /\ AtStep(first + 3, {W, R}, n)
  <2>1. Step = Copy(Text, WriteAddress) /\ first + 3 \in 2 .. 33 BY <1>8, <1>12, TestsAre
  <2>2. \A t \in {W, R} : t.virtual = WriteAddress => t = W BY <1>3, <1>4
  <2>3. /\ Core' /\ LowerIsOwn' /\ WritesOwn /\ page' = page
        /\ AtStep(first + 3 + 1, {W, R}, n)' /\ mem'[page][0] = Text
    BY <1>1, <1>4, <1>12, <2>1, <2>2, AtCopy
  <2>4. first + 3 + 1 = first + 4 OBVIOUS
  <2>5. InTestMmu(first, n)' BY <1>6, <1>12, <2>3, <2>4 DEF InTestMmu
  <2> QED BY <2>3, <2>5
<1>13. CASE page # 0 /\ AtStep(first + 4, {W, R}, n) /\ mem[page][0] = Text
  <2>1. Step = Puts(ReadAddress) /\ first + 4 \in 2 .. 33 BY <1>8, <1>13, TestsAre
  <2>2. \A t \in {W, R} : t.virtual = ReadAddress => t = R BY <1>3, <1>4
  <2>3. n \in 0 .. 5 /\ mem[page][0] = Expected[n + 1] BY <1>5, <1>13
  <2>4. /\ Core' /\ LowerIsOwn' /\ WritesOwn /\ page' = page /\ mem' = mem
        /\ AtStep(first + 4 + 1, {W, R}, n + 1)'
    BY <1>2, <1>4, <1>13, <2>1, <2>2, <2>3, AtUse
  <2>5. first + 4 + 1 = first + 5 OBVIOUS
  <2>6. InTestMmu(first, n)' BY <1>6, <1>13, <2>4, <2>5 DEF InTestMmu
  <2> QED BY <2>4, <2>6
<1>14. CASE page # 0 /\ AtStep(first + 5, {W, R}, n + 1) /\ mem[page][0] = Text
  <2>1. Step = Unmap(WriteAddress) /\ first + 5 \in 2 .. 33 BY <1>8, <1>14, TestsAre
  <2>2. \E t \in {W, R} : t.virtual = WriteAddress BY <1>3
  <2>3. /\ Core' /\ LowerIsOwn' /\ WritesOwn /\ page' = page
        /\ ~halted' => AtStep(first + 5 + 1, {R}, n + 1)' /\ mem'[page] = mem[page]
    <3>1. PICK p, maps, after, m :
            p \in 2 .. 33 /\ p = first + 5 /\ maps = {W, R} /\ after = {R} /\ m = n + 1
      BY <2>1
    <3>2. p \in 2 .. 33 /\ AtStep(p, maps, m) /\ page # 0 /\ (\E t \in maps : t.virtual = WriteAddress)
      BY <1>14, <2>2, <3>1
    <3>3. after = Left(maps, WriteAddress) BY <1>7, <3>1
    <3>4. /\ Core' /\ LowerIsOwn' /\ WritesOwn /\ page' = page
          /\ ~halted' => AtStep(p + 1, after, m)' /\ mem'[page] = mem[page]
      BY <1>4, <2>1, <3>2, <3>3, AtUnmap, ZenonT(60)
    <3> QED BY <3>1, <3>4
  <2>4. first + 5 + 1 = first + 6 OBVIOUS
  <2>5. ~halted' => InTestMmu(first, n)' BY <1>6, <1>14, <2>3, <2>4 DEF InTestMmu
  <2> QED BY <2>3, <2>5
<1>15. CASE page # 0 /\ AtStep(first + 6, {R}, n + 1) /\ mem[page][0] = Text
  <2>1. Step = Puts(ReadAddress) /\ first + 6 \in 2 .. 33 BY <1>8, <1>15, TestsAre
  <2>2. \A t \in {R} : t.virtual = ReadAddress => t = R OBVIOUS
  <2>3. n + 1 \in 0 .. 5 /\ mem[page][0] = Expected[(n + 1) + 1] BY <1>5, <1>15
  <2>4. /\ Core' /\ LowerIsOwn' /\ WritesOwn /\ page' = page /\ mem' = mem
        /\ AtStep(first + 6 + 1, {R}, (n + 1) + 1)'
    BY <1>2, <1>4, <1>15, <2>1, <2>2, <2>3, AtUse
  <2>5. first + 6 + 1 = first + 7 /\ (n + 1) + 1 = n + 2 OBVIOUS
  <2>6. InTestMmu(first, n)' BY <1>6, <1>15, <2>4, <2>5 DEF InTestMmu
  <2> QED BY <2>4, <2>6
<1>16. CASE page # 0 /\ AtStep(first + 7, {R}, n + 2)
  <2>1. Step = Unmap(ReadAddress) /\ first + 7 \in 2 .. 33 BY <1>8, <1>16, TestsAre
  <2>2. \E t \in {R} : t.virtual = ReadAddress BY <1>3
  <2>3. /\ Core' /\ LowerIsOwn' /\ WritesOwn /\ page' = page
        /\ ~halted' => AtStep(first + 7 + 1, {}, n + 2)'
    <3>1. PICK p, maps, after, m :
            p \in 2 .. 33 /\ p = first + 7 /\ maps = {R} /\ after = {} /\ m = n + 2
      BY <2>1
    <3>2. p \in 2 .. 33 /\ AtStep(p, maps, m) /\ page # 0 /\ (\E t \in maps : t.virtual = ReadAddress)
      BY <1>16, <2>2, <3>1
    <3>3. after = Left(maps, ReadAddress) BY <1>7, <3>1
    <3>4. /\ Core' /\ LowerIsOwn' /\ WritesOwn /\ page' = page
          /\ ~halted' => AtStep(p + 1, after, m)' /\ mem'[page] = mem[page]
      BY <1>4, <2>1, <3>2, <3>3, AtUnmap, ZenonT(60)
    <3> QED BY <3>1, <3>4
  <2>4. first + 7 + 1 = first + 8 OBVIOUS
  <2>5. ~halted' => InTestMmu(first, n)' BY <1>16, <2>3, <2>4 DEF InTestMmu
  <2> QED BY <2>3, <2>5
<1>17. CASE page # 0 /\ AtStep(first + 8, {}, n + 2)
  <2>1. Step = Op("free") /\ first + 8 \in 2 .. 33 BY <1>8, <1>17, TestsAre
  <2>2. Core' /\ LowerIsOwn' /\ WritesOwn /\ Between(first + 8 + 1, n + 2)'
    BY <1>17, <2>1, AtFree
  <2>3. first + 8 + 1 = first + 9 OBVIOUS
  <2> QED BY <2>2, <2>3
<1> QED
  BY <1>1, <1>2, <1>9, <1>10, <1>11, <1>12, <1>13, <1>14, <1>15, <1>16, <1>17 DEF InTestMmu

(* The same of test_exe. *)
LEMMA ExeTestStep ==
  ASSUME ~misled', Core, LowerIsOwn, KernelStep,
         NEW first \in {20, 27}, NEW n \in {4, 5},
         \A k \in 0 .. 6 : KernelMain[first + k] = TestExe[k + 1], InTestExe(first, n)
  PROVE  /\ Core' /\ LowerIsOwn' /\ WritesOwn
         /\ ~halted' => InTestExe(first, n)' \/ Between(first + 7, n + 1)'
<1>1. PICK W : W = Own(LoadAddress, {"WRITE"}) OBVIOUS
<1>2. PICK X : X = Own(LoadAddress, {"EXEC"}) OBVIOUS
<1>3. W.virtual = LoadAddress /\ X.virtual = LoadAddress BY <1>1, <1>2 DEF Own
<1>4. LoadAddress \in TestAddresses /\ File \in Entry BY TestAssumption DEF TestAddresses
<1>5. Expected[n + 1] = File
  <2>1. Expected[5] = File /\ Expected[6] = File BY ExpectedIs
  <2>2. n + 1 = 5 \/ n + 1 = 6 OBVIOUS
  <2> QED BY <2>1, <2>2
<1>6. page' = page => W = Own(LoadAddress, {"WRITE"})' /\ X = Own(LoadAddress, {"EXEC"})'
  BY <1>1, <1>2 DEF Own
<1>7. /\ {W} = Left({}, LoadAddress) \cup {W} /\ {X} = Left({W}, LoadAddress) \cup {X}
      /\ {} = Left({X}, LoadAddress)
  BY <1>3 DEF Left
<1>8. ASSUME NEW k \in 0 .. 6, NEW maps, NEW m, AtStep(first + k, maps, m)
      PROVE  Step = TestExe[k + 1] /\ first + k \in 2 .. 33
  BY <1>8 DEF AtStep, Step
<1>9. CASE Between(first, n)
  <2>1. AtStep(first + 0, {}, n) BY <1>9 DEF Between
  <2>2. Step = Op("allocate") BY <1>8, <2>1, TestsAre
  <2>3. first \in 2 .. 27 OBVIOUS
  <2>4. /\ Core' /\ LowerIsOwn' /\ WritesOwn
        /\ AtStep(first + 1, {}, n)' /\ (page = 0 => Free(State) = {})'
    BY <1>9, <2>2, <2>3, BetweenStep
  <2>5. InTestExe(first, n)' BY <2>4 DEF InTestExe
  <2> QED BY <2>4, <2>5
<1>10. CASE AtStep(first + 1, {}, n) /\ (page = 0 => Free(State) = {})
  <2>1. Step = MapPage({"WRITE"}, LoadAddress) /\ first + 1 \in 2 .. 33 BY <1>8, <1>10, TestsAre
  <2>2. /\ Core' /\ LowerIsOwn' /\ WritesOwn /\ page' = page
        /\ ~halted' => page # 0 /\ AtStep(first + 1 + 1, {W}, n)'
    <3>1. PICK p, maps, after, flags :
            p \in 2 .. 33 /\ p = first + 1 /\ maps = {} /\ after = {W} /\ flags = {"WRITE"}
      BY <2>1
    <3>2. p \in 2 .. 33 /\ AtStep(p, maps, n) /\ (page = 0 => Free(State) = {} /\ maps = {})
      BY <1>10, <3>1
    <3>3. after = Left(maps, LoadAddress) \cup {Own(LoadAddress, flags)} BY <1>1, <1>7, <3>1
    <3>4. Step = MapPage(flags, LoadAddress) /\ LoadAddress \in TestAddresses BY <1>4, <2>1, <3>1
    <3>5. /\ Core' /\ LowerIsOwn' /\ WritesOwn /\ page' = page
          /\ ~halted' => page # 0 /\ AtStep(p + 1, after, n)' /\ mem'[page] = mem[page]
      BY <3>2, <3>3, <3>4, AtMap, ZenonT(60)
    <3> QED BY <3>1, <3>5
  <2>3. first + 1 + 1 = first + 2 OBVIOUS
  <2>4. ~halted' => InTestExe(first, n)' BY <1>6, <2>2, <2>3 DEF InTestExe
  <2> QED BY <2>2, <2>4
<1>11. CASE page # 0 /\ AtStep(first + 2, {W}, n)
  <2>1. Step = Copy(File, LoadAddress) /\ first + 2 \in 2 .. 33 BY <1>8, <1>11, TestsAre
  <2>2. \A t \in {W} : t.virtual = LoadAddress => t = W OBVIOUS
  <2>3. /\ Core' /\ LowerIsOwn' /\ WritesOwn /\ page' = page
        /\ AtStep(first + 2 + 1, {W}, n)' /\ mem'[page][0] = File
    BY <1>1, <1>4, <1>11, <2>1, <2>2, AtCopy
  <2>4. first + 2 + 1 = first + 3 OBVIOUS
  <2>5. InTestExe(first, n)' BY <1>6, <1>11, <2>3, <2>4 DEF InTestExe
  <2> QED BY <2>3, <2>5
<1>12. CASE page # 0 /\ AtStep(first + 3, {W}, n) /\ mem[page][0] = File
  <2>1. Step = MapPage({"EXEC"}, LoadAddress) /\ first + 3 \in 2 .. 33 BY <1>8, <1>12, TestsAre
  <2>2. /\ Core' /\ LowerIsOwn' /\ WritesOwn /\ page' = page
        /\ ~halted' => AtStep(first + 3 + 1, {X}, n)' /\ mem'[page] = mem[page]
    <3>1. PICK p, maps, after, flags :
            p \in 2 .. 33 /\ p = first + 3 /\ maps = {W} /\ after = {X} /\ flags = {"EXEC"}
      BY <2>1
    <3>2. p \in 2 .. 33 /\ AtStep(p, maps, n) /\ (page = 0 => Free(State) = {} /\ maps = {})
      BY <1>12, <3>1
    <3>3. after = Left(maps, LoadAddress) \cup {Own(LoadAddress, flags)} BY <1>2, <1>7, <3>1
    <3>4. Step = MapPage(flags, LoadAddress) /\ LoadAddress \in TestAddresses BY <1>4, <2>1, <3>1
    <3>5. /\ Core' /\ LowerIsOwn' /\ WritesOwn /\ page' = page
          /\ ~halted' => page # 0 /\ AtStep(p + 1, after, n)' /\ mem'[page] = mem[page]
      BY <3>2, <3>3, <3>4, AtMap, ZenonT(60)
    <3> QED BY <3>1, <3>5
  <2>3. first + 3 + 1 = first + 4 OBVIOUS
  <2>4. ~halted' => InTestExe(first, n)' BY <1>6, <1>12, <2>2, <2>3 DEF InTestExe
  <2> QED BY <2>2, <2>4
<1>13. CASE page # 0 /\ AtStep(first + 4, {X}, n) /\ mem[page][0] = File
  <2>1. Step = Call(LoadAddress) /\ first + 4 \in 2 .. 33 BY <1>8, <1>13, TestsAre
  <2>2. \A t \in {X} : t.virtual = LoadAddress => t = X OBVIOUS
  <2>3. n \in 0 .. 5 /\ mem[page][0] = Expected[n + 1] BY <1>5, <1>13
  <2>4. /\ Core' /\ LowerIsOwn' /\ WritesOwn /\ page' = page /\ mem' = mem
        /\ AtStep(first + 4 + 1, {X}, n + 1)'
    BY <1>2, <1>4, <1>13, <2>1, <2>2, <2>3, AtUse
  <2>5. first + 4 + 1 = first + 5 OBVIOUS
  <2>6. InTestExe(first, n)' BY <1>6, <1>13, <2>4, <2>5 DEF InTestExe
  <2> QED BY <2>4, <2>6
<1>14. CASE page # 0 /\ AtStep(first + 5, {X}, n + 1)
  <2>1. Step = Unmap(LoadAddress) /\ first + 5 \in 2 .. 33 BY <1>8, <1>14, TestsAre
  <2>2. \E t \in {X} : t.virtual = LoadAddress BY <1>3
  <2>3. /\ Core' /\ LowerIsOwn' /\ WritesOwn /\ page' = page
        /\ ~halted' => AtStep(first + 5 + 1, {}, n + 1)'
    <3>1. PICK p, maps, after, m :
            p \in 2 .. 33 /\ p = first + 5 /\ maps = {X} /\ after = {} /\ m = n + 1
      BY <2>1
    <3>2. p \in 2 .. 33 /\ AtStep(p, maps, m) /\ page # 0 /\ (\E t \in maps : t.virtual = LoadAddress)
      BY <1>14, <2>2, <3>1
    <3>3. after = Left(maps, LoadAddress) BY <1>7, <3>1
    <3>4. Step = Unmap(LoadAddress) /\ LoadAddress \in TestAddresses BY <1>4, <2>1
    <3>5. /\ Core' /\ LowerIsOwn' /\ WritesOwn /\ page' = page
          /\ ~halted' => AtStep(p + 1, after, m)' /\ mem'[page] = mem[page]
      BY <3>2, <3>3, <3>4, AtUnmap, ZenonT(60)
    <3> QED BY <3>1, <3>5
  <2>4. first + 5 + 1 = first + 6 OBVIOUS
  <2>5. ~halted' => InTestExe(first, n)' BY <1>14, <2>3, <2>4 DEF InTestExe
  <2> QED BY <2>3, <2>5
<1>15. CASE page # 0 /\ AtStep(first + 6, {}, n + 1)
  <2>1. Step = Op("free") /\ first + 6 \in 2 .. 33 BY <1>8, <1>15, TestsAre
  <2>2. Core' /\ LowerIsOwn' /\ WritesOwn /\ Between(first + 6 + 1, n + 1)'
    BY <1>15, <2>1, AtFree
  <2>3. first + 6 + 1 = first + 7 OBVIOUS
  <2> QED BY <2>2, <2>3
<1> QED BY <1>1, <1>2, <1>9, <1>10, <1>11, <1>12, <1>13, <1>14, <1>15 DEF InTestExe

------------------------------------------------------------------------------
(* The specification *)

(* A step of the kernel that uses no stale translation keeps the invariant *)
(* and writes what it owns.                                                *)
LEMMA KernelStepInv ==
  ASSUME ~misled', KInv, KernelStep PROVE KInv' /\ WritesOwn
<1>1. Core /\ ~halted /\ pc <= 33 /\ pc \in 1 .. 34 BY StepIs, ProgramIs DEF KInv, Core, Running
<1>2. CASE pc = 1
  <2>1. Step = Op("clear") BY <1>2, ProgramIs DEF Step
  <2>2. ClearMapLowerHalf BY <2>1, StepIs DEF Op
  <2>3. Core' /\ LowerIsOwn' /\ WritesOwn /\ Between(2, 0)' BY <1>1, <1>2, <2>2, ClearStep DEF KInv
  <2>4. pc' = 2 BY <2>3 DEF Between, AtStep
  <2>5. Situation' BY <2>3 DEF Situation, InTestMmu
  <2> QED BY <2>3, <2>4, <2>5 DEF KInv
<1>3. CASE pc > 1
  <2>1. LowerIsOwn /\ Situation BY <1>1, <1>3 DEF KInv
  <2>2. Core' /\ LowerIsOwn' /\ WritesOwn /\ (~halted' => Situation')
    <3>1. CASE InTestMmu(2, 0)
      <4>1. /\ Core' /\ LowerIsOwn' /\ WritesOwn
            /\ ~halted' => InTestMmu(2, 0)' \/ Between(2 + 9, 0 + 2)'
        BY <1>1, <2>1, <3>1, ProgramIs, MmuTestStep
      <4>2. 2 + 9 = 11 /\ 0 + 2 = 2 OBVIOUS
      <4>3. Between(11, 2)' => InTestMmu(11, 2)' BY DEF InTestMmu
      <4> QED BY <4>1, <4>2, <4>3 DEF Situation
    <3>2. CASE InTestMmu(11, 2)
      <4>1. /\ Core' /\ LowerIsOwn' /\ WritesOwn
            /\ ~halted' => InTestMmu(11, 2)' \/ Between(11 + 9, 2 + 2)'
        BY <1>1, <2>1, <3>2, ProgramIs, MmuTestStep
      <4>2. 11 + 9 = 20 /\ 2 + 2 = 4 OBVIOUS
      <4>3. Between(20, 4)' => InTestExe(20, 4)' BY DEF InTestExe
      <4> QED BY <4>1, <4>2, <4>3 DEF Situation
    <3>3. CASE InTestExe(20, 4)
      <4>1. /\ Core' /\ LowerIsOwn' /\ WritesOwn
            /\ ~halted' => InTestExe(20, 4)' \/ Between(20 + 7, 4 + 1)'
        BY <1>1, <2>1, <3>3, ProgramIs, ExeTestStep
      <4>2. 20 + 7 = 27 /\ 4 + 1 = 5 OBVIOUS
      <4>3. Between(27, 5)' => InTestExe(27, 5)' BY DEF InTestExe
      <4> QED BY <4>1, <4>2, <4>3 DEF Situation
    <3>4. CASE InTestExe(27, 5)
      <4>1. /\ Core' /\ LowerIsOwn' /\ WritesOwn
            /\ ~halted' => InTestExe(27, 5)' \/ Between(27 + 7, 5 + 1)'
        BY <1>1, <2>1, <3>4, ProgramIs, ExeTestStep
      <4>2. 27 + 7 = 34 /\ 5 + 1 = 6 OBVIOUS
      <4> QED BY <4>1, <4>2 DEF Situation
    <3>5. CASE Between(34, 6) BY <1>1, <3>5 DEF Between, AtStep
    <3> QED BY <2>1, <3>1, <3>2, <3>3, <3>4, <3>5 DEF Situation
  <2>3. pc' > 1
    <3>1. pc' = pc + 1 \/ pc' = pc
      BY DEF KernelStep, ClearMapLowerHalf, TestAllocate, TestMap, TestUnmap, TestCopy, TestUse,
             TestFree, Go, Fault
    <3> QED BY <1>1, <1>3, <3>1
  <2> QED BY <2>2, <2>3 DEF KInv
<1> QED BY <1>1, <1>2, <1>3

(* The cache may hold anything for the addresses of the tests. *)
LEMMA CacheInv ==
  ASSUME KInv, mem' = mem, held' = held, halted' = halted, missing' = missing, pc' = pc, page' = page,
         output' = output, faulted' = faulted,
         \A t \in tlb' : t \in tlb \/ t.virtual \in TestAddresses
  PROVE  KInv'
<1>1. mem' = mem /\ held' = held /\ halted' = halted /\ missing' = missing /\ pc' = pc /\ page' = page
      /\ output' = output /\ faulted' = faulted
  OBVIOUS
<1>2. State' = State BY <1>1 DEF State
<1>3. \A n : Printed(n)' <=> Printed(n) BY <1>1 DEF Printed
<1>4. Core'
  <2>1. \A u \in tlb' : u.virtual \in TestAddresses BY <1>1 DEF KInv, Core
  <2>2. Elsewhere' = Elsewhere /\ Tables' = Tables BY <1>1 DEF Elsewhere, Tables
  <2>3. Good(State', TableNodes(mem'), Elsewhere') BY <1>1, <1>2, <2>2 DEF KInv, Core
  <2>4. Good(State, TableNodes(mem), Elsewhere)' BY <2>3
  <2>5. (0 \notin Tables)' /\ (missing \subseteq Pool)' /\ (page \in ({0} \cup Pool) \ missing)'
        /\ (pc \in 1 .. Len(KernelMain) + 1)' /\ (faulted = FALSE)'
    BY <1>1, <2>2 DEF KInv, Core
  <2>6. (\E n \in 0 .. 6 : Printed(n))' BY <1>3 DEF KInv, Core
  <2> QED BY <2>1, <2>4, <2>5, <2>6 DEF Core
<1>5. Booted' <=> Booted BY <1>1, <1>3 DEF Booted, Tables
<1>6. LowerIsOwn => LowerIsOwn'
  <2>1. NoEmptyLower(State, TableNodes(mem)) => NoEmptyLower(State, TableNodes(mem))'
    BY <1>1, <1>2 DEF NoEmptyLower, Empty
  <2> QED BY <1>1, <2>1 DEF LowerIsOwn
<1>7. Situation => Situation'
  <2>1. \A p, maps, n : AtStep(p, maps, n) => AtStep(p, maps, n)' BY <1>1, <1>3 DEF AtStep
  <2>2. \A at, flags : Own(at, flags)' = Own(at, flags) BY <1>1 DEF Own
  <2>3. \A p, n : Between(p, n) => Between(p, n)' BY <1>1, <2>1 DEF Between
  <2>4. Free(State) = {} => Free(State)' = {} BY <1>2 DEF Free
  <2>5. \A p, n : InTestMmu(p, n) => InTestMmu(p, n)'
    BY <1>1, <2>1, <2>2, <2>3, <2>4 DEF InTestMmu
  <2>6. \A p, n : InTestExe(p, n) => InTestExe(p, n)'
    BY <1>1, <2>1, <2>2, <2>3, <2>4 DEF InTestExe
  <2> QED BY <2>3, <2>5, <2>6 DEF Situation
<1> QED BY <1>1, <1>4, <1>5, <1>6, <1>7 DEF KInv

(* The bootloader's page tables are a tree, of pages it keeps.             *)
LEMMA KernelInitInv ==
  KernelInit => KInv
<1> SUFFICES ASSUME KernelInit PROVE KInv OBVIOUS
<1> DEFINE N == TableNodes(BootMemory)
<1>1. /\ mem = BootMemory /\ held = missing /\ halted = FALSE /\ tlb = {} /\ pc = 1 /\ page = 0
      /\ output = <<>> /\ faulted = FALSE
  BY DEF KernelInit
<1>2. missing \subseteq Pool
  <2>1. PICK top \in Memory : missing = {p \in Pool : p > top} BY DEF KernelInit
  <2> QED BY <2>1
<1>3. /\ BootMemory \in Contents /\ TablesOf(BootMemory) \subseteq Memory \ (Pool \cup {0})
      /\ IsTree(BootMemory) /\ EntriesValid(BootMemory)
  BY LayoutAssumption, BootAssumption DEF Contents
<1>4. Tree(BootMemory, N) BY <1>3, TreeExists
<1>5. Tables = Pages(N) /\ Tables \cap Pool = {} /\ 0 \notin Tables
  BY <1>1, <1>3 DEF Tables, TablesOf, Pages
<1>6. Elsewhere = missing BY <1>1 DEF Elsewhere
<1>7. State \in WalkState /\ State.mem = BootMemory /\ State.held = missing
  BY <1>1, <1>2, <1>3 DEF State, WalkState, Contents
<1>8. Good(State, TableNodes(mem), Elsewhere)
  <2>1. Pages(N) \cap Pool = {} /\ Pages(N) \cap missing = {} BY <1>2, <1>5
  <2> HIDE DEF N
  <2>2. Good(State, N, Elsewhere) BY <1>4, <1>6, <1>7, <2>1 DEF Good
  <2> QED BY <1>1, <2>2 DEF N
<1>9. Printed(0)
  <2>1. output \in Seq(Entry) BY <1>1
  <2>2. Len(output) = 0 BY <1>1
  <2> QED BY <2>1, <2>2 DEF Printed
<1>10. 0 \in 0 .. 6 /\ 1 \in 1 .. Len(KernelMain) + 1 BY ProgramIs
<1>11. page \in ({0} \cup Pool) \ missing BY <1>1, <1>2, PoolIs
<1>12. Core
  <2>1. \E n \in 0 .. 6 : Printed(n) BY <1>9, <1>10
  <2> QED BY <1>1, <1>2, <1>5, <1>8, <1>10, <1>11, <2>1 DEF Core
<1>13. Booted BY <1>1, <1>5, <1>9 DEF Booted
<1> QED BY <1>1, <1>12, <1>13 DEF KInv

(* Every step that uses no stale translation keeps the invariant, and      *)
(* writes what it may.                                                     *)
LEMMA KernelNextInv ==
  ASSUME ~misled', KInv, [KernelNext]_kernelVars
  PROVE  KInv' /\ (UNCHANGED kernelVars \/ WritesOwn)
<1>1. CASE KernelStep BY <1>1, KernelStepInv
<1>2. CASE Fill
  <2>1. mem' = mem BY <1>2 DEF Fill
  <2>2. WritesOwn BY <2>1 DEF WritesOwn
  <2>3. PICK u \in Mapped(mem) : u.virtual \in TestAddresses /\ tlb' = tlb \cup {u} BY <1>2 DEF Fill
  <2>4. mem' = mem /\ held' = held /\ halted' = halted /\ missing' = missing /\ pc' = pc
        /\ page' = page /\ output' = output /\ faulted' = faulted
    BY <1>2 DEF Fill
  <2>5. \A t \in tlb' : t \in tlb \/ t.virtual \in TestAddresses
    BY <2>3
  <2>6. KInv' BY <2>4, <2>5, CacheInv
  <2> QED BY <2>2, <2>6
<1>3. CASE UNCHANGED kernelVars
  <2>1. mem' = mem /\ held' = held /\ halted' = halted /\ missing' = missing /\ pc' = pc
        /\ page' = page /\ output' = output /\ faulted' = faulted /\ tlb' = tlb
    BY <1>3 DEF kernelVars
  <2>2. \A t \in tlb' : t \in tlb \/ t.virtual \in TestAddresses
    BY <2>1
  <2>3. KInv' BY <2>1, <2>2, CacheInv
  <2> QED BY <1>3, <2>3
<1> QED BY <1>1, <1>2, <1>3 DEF KernelNext, Stop

(* What holds whatever the processor does, and the rest until it has used  *)
(* a translation that the page tables did not hold.                        *)
UnlessMisled ==
  /\ pc \in 1 .. Len(KernelMain) + 1 /\ faulted \in BOOLEAN /\ misled \in BOOLEAN
  /\ ~misled => KInv

(* A processor that was misled stays so. *)
LEMMA MisledStays ==
  ASSUME misled \in BOOLEAN, [KernelNext]_kernelVars
  PROVE  misled' \in BOOLEAN /\ (misled => misled')
<1>1. misled' = misled \/ \E t : Uses(t)
  BY DEF KernelNext, KernelStep, ClearMapLowerHalf, TestAllocate, TestMap, TestUnmap, TestCopy,
         TestUse, TestFree, Fill, Stop, Access, Fault, kernelVars
<1>2. ASSUME NEW t, Uses(t) PROVE misled' \in BOOLEAN /\ (misled => misled')
  BY <1>2 DEF Uses
<1> QED BY <1>1, <1>2

(* The place in kernel_main, whatever the processor does. *)
LEMMA PlaceStays ==
  ASSUME pc \in 1 .. Len(KernelMain) + 1, faulted \in BOOLEAN, [KernelNext]_kernelVars
  PROVE  pc' \in 1 .. Len(KernelMain) + 1 /\ faulted' \in BOOLEAN
<1>1. (pc' = pc + 1 /\ pc <= Len(KernelMain)) \/ pc' = pc
  BY DEF KernelNext, KernelStep, ClearMapLowerHalf, TestAllocate, TestMap, TestUnmap, TestCopy,
         TestUse, TestFree, Fill, Stop, Go, Fault, Running, kernelVars
<1>2. faulted' = faulted \/ faulted' = TRUE
  BY DEF KernelNext, KernelStep, ClearMapLowerHalf, TestAllocate, TestMap, TestUnmap, TestCopy,
         TestUse, TestFree, Fill, Stop, Access, Fault, kernelVars
<1>3. Len(KernelMain) = 33 BY ProgramIs
<1>4. pc' \in 1 .. Len(KernelMain) + 1 BY <1>1, <1>3
<1> QED BY <1>2, <1>4

(* The invariant holds always. *)
LEMMA UnlessMisledHolds == KernelSpec => []UnlessMisled
<1>1. KernelInit => UnlessMisled
  <2> SUFFICES ASSUME KernelInit PROVE UnlessMisled OBVIOUS
  <2>1. pc = 1 /\ faulted = FALSE /\ misled = FALSE BY DEF KernelInit
  <2>2. Len(KernelMain) = 33 BY ProgramIs
  <2>3. KInv BY KernelInitInv
  <2>4. pc \in 1 .. Len(KernelMain) + 1 BY <2>1, <2>2
  <2> QED BY <2>1, <2>3, <2>4 DEF UnlessMisled
<1>2. UnlessMisled /\ [KernelNext]_kernelVars => UnlessMisled'
  <2> SUFFICES ASSUME UnlessMisled, [KernelNext]_kernelVars PROVE UnlessMisled' OBVIOUS
  <2>1. misled' \in BOOLEAN /\ (misled => misled') BY MisledStays DEF UnlessMisled
  <2>2. pc' \in 1 .. Len(KernelMain) + 1 /\ faulted' \in BOOLEAN BY PlaceStays DEF UnlessMisled
  <2>3. ~misled' => KInv' BY <2>1, KernelNextInv DEF UnlessMisled
  <2> QED BY <2>1, <2>2, <2>3, ProgramIs DEF UnlessMisled
<1> QED BY <1>1, <1>2, PTL DEF KernelSpec

------------------------------------------------------------------------------
(* Theorems *)

(* The kernel stays within kernel_main, and until the processor has used a *)
(* translation that the page tables did not hold, the state keeps its      *)
(* types: what is held is pages of RAM, and those that the machine lacks   *)
(* stay reserved.                                                          *)
THEOREM KernelTypes == KernelSpec => []KernelTypeOK
<1>1. UnlessMisled => KernelTypeOK
  <2> SUFFICES ASSUME UnlessMisled PROVE KernelTypeOK OBVIOUS
  <2>1. ASSUME ~misled
        PROVE  /\ mem \in [Memory -> [Index -> Entry]]
               /\ missing \subseteq held /\ held \subseteq Pool
               /\ \A t \in tlb : t.virtual \in TestAddresses
               /\ page \in {0} \cup Pool
               /\ halted \in BOOLEAN
    <3>1. Core BY <2>1 DEF UnlessMisled, KInv
    <3>2. \A t \in tlb : t.virtual \in TestAddresses BY <3>1 DEF Core
    <3>3. mem \in [Memory -> [Index -> Entry]] BY <3>1, CoreTypes DEF Contents
    <3> QED BY <3>1, <3>2, <3>3, CoreTypes
  <2> QED BY <2>1 DEF UnlessMisled, KernelTypeOK
<1> QED BY <1>1, UnlessMisledHolds, PTL

(* mmu_remove and pmm_free_page give back what the tests took: between two *)
(* calls the pages in use are the page of the test and the page tables of  *)
(* the tree, also when a call panics for want of memory, until the         *)
(* processor has used a translation that the page tables did not hold.     *)
THEOREM PagesStayAccounted == KernelSpec => []PagesAccounted
<1>1. UnlessMisled => PagesAccounted
  <2> SUFFICES ASSUME KInv
               PROVE  held \ missing = (Tables \cap Pool) \cup ({page} \ {0}) /\ page \notin Tables
    BY DEF UnlessMisled, PagesAccounted
  <2>1. Core BY DEF KInv
  <2>2. /\ held = (Tables \cap Pool) \cup Elsewhere /\ Tables \cap Elsewhere = {}
        /\ page \notin Tables
    BY <2>1, CoreTypes
  <2>3. page \notin missing BY <2>1 DEF Core
  <2>4. Elsewhere = missing \cup ({page} \ {0}) BY DEF Elsewhere
  <2> QED BY <2>2, <2>3, <2>4
<1> QED BY <1>1, UnlessMisledHolds, PTL

(* After clear_map_lower_half the page tables lead from no address of the  *)
(* lower half to a page that was freed, until the processor has used a     *)
(* translation that they did not hold.  What it has cached may: nothing    *)
(* removes it.                                                             *)
THEOREM FreedPagesUnreachable == KernelSpec => []FreedUnreachable
<1>1. UnlessMisled => FreedUnreachable
  <2> SUFFICES ASSUME KInv, pc > 1, NEW t \in Mapped(mem), t.virtual < HALF PROVE t.page = page
    BY DEF UnlessMisled, FreedUnreachable
  <2> QED BY DEF KInv, LowerIsOwn, LowerMap
<1> QED BY <1>1, UnlessMisledHolds, PTL

(* Up to the first use of a translation that the page tables did not hold, *)
(* nothing is written but page tables and the page of the test, by the     *)
(* driver or by the test.                                                  *)
THEOREM OnlyOwnPagesWritten == KernelSpec => OnlyOwnWrites
<1>1. UnlessMisled /\ [KernelNext]_kernelVars => [~misled' => WritesOwn]_kernelVars
  BY KernelNextInv, MisledStays DEF UnlessMisled
<1> QED BY <1>1, UnlessMisledHolds, PTL DEF KernelSpec, OnlyOwnWrites, WritesOwn

(* As long as every translation that was used was one of the page tables   *)
(* at that time, the tests of mmu_assign and mmu_remove print what they    *)
(* were written to show, both times, and no access faults, however little  *)
(* memory there is: the tables the driver makes are always right.          *)
THEOREM SelfTestsPassOnTables == KernelSpec => []SelfTestsPassUnlessMisled
<1>1. UnlessMisled => SelfTestsPassUnlessMisled
  <2> SUFFICES ASSUME KInv PROVE SelfTestsPass
    BY DEF UnlessMisled, SelfTestsPassUnlessMisled
  <2>1. Core BY DEF KInv
  <2>2. PICK n \in 0 .. 6 : Printed(n) BY <2>1 DEF Core
  <2>3. output \in Seq(Entry) BY <2>2 DEF Printed
  <2>4. Len(output) = n BY <2>2 DEF Printed
  <2>5. \A i \in 1 .. n : output[i] = Expected[i] BY <2>2 DEF Printed
  <2>6. Expected \in Seq(Entry) BY ExpectedIs
  <2>7. Len(Expected) = 6 BY ExpectedIs
  <2>8. IsPrefix(output, Expected) BY <2>3, <2>4, <2>5, <2>6, <2>7 DEF IsPrefix
  <2>9. faulted = FALSE BY <2>1 DEF Core
  <2> QED BY <2>8, <2>9 DEF SelfTestsPass
<1> QED BY <1>1, UnlessMisledHolds, PTL
==============================================================================
