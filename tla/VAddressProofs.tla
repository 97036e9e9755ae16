---------------------------- MODULE VAddressProofs ----------------------------
(***************************************************************************)
(* The virtual address space manager, proved for every space, number of    *)
(* pages and arguments of its callers: its type and safety invariants, and *)
(* that every step but the ones the promise excepts keeps the promise of   *)
(* AddressSpace.  First what the helpers on sequences return, then what a  *)
(* step may do to the list of regions, then one lemma for each operation.  *)
(***************************************************************************)
EXTENDS VAddress, SequenceTheorems, FiniteSetTheorems, TLAPS

------------------------------------------------------------------------------
(* Sequences and minima *)

(* The elements of a sequence with e at the head. *)
LEMMA ConsProperties ==
  ASSUME NEW S, NEW s \in Seq(S), NEW e \in S
  PROVE  /\ Cons(e, s) \in Seq(S) /\ Len(Cons(e, s)) = Len(s) + 1
         /\ Cons(e, s)[1] = e
         /\ \A i \in 1 .. Len(s) : Cons(e, s)[i + 1] = s[i]
<1>1. <<e>> \in Seq(S) /\ Len(<<e>>) = 1 /\ <<e>>[1] = e
  OBVIOUS
<1>2. Len(s) \in Nat OBVIOUS
<1> DEFINE u == <<e>>
<1> HIDE DEF u
<1>3. /\ u \o s \in Seq(S) /\ Len(u \o s) = 1 + Len(s)
      /\ \A i \in 1 .. 1 + Len(s) :
           (u \o s)[i] = IF i <= 1 THEN u[i] ELSE s[i - 1]
  BY <1>1, ConcatProperties DEF u
<1>4. /\ Cons(e, s) = u \o s /\ u[1] = e
  BY <1>1 DEF Cons, u
<1> QED BY <1>2, <1>3, <1>4

(* The elements of a sequence without the i-th. *)
LEMMA RemoveAtProperties ==
  ASSUME NEW S, NEW s \in Seq(S), NEW i \in 1 .. Len(s)
  PROVE  /\ RemoveAt(s, i) \in Seq(S) /\ Len(RemoveAt(s, i)) = Len(s) - 1
         /\ \A j \in 1 .. Len(s) - 1 :
              RemoveAt(s, i)[j] = IF j < i THEN s[j] ELSE s[j + 1]
<1> DEFINE u == SubSeq(s, 1, i - 1)  v == SubSeq(s, i + 1, Len(s))  n == Len(s)
<1>1. n \in Nat /\ i \in 1 .. n /\ \A j \in 1 .. n : s[j] \in S
  OBVIOUS
<1>2. /\ u \in Seq(S) /\ Len(u) = i - 1
      /\ \A j \in 1 .. i - 1 : u[j] = s[j]
  BY <1>1, SubSeqProperties
<1>3. /\ v \in Seq(S) /\ Len(v) = n - i
      /\ \A j \in 1 .. n - i : v[j] = s[i + j]
  BY <1>1, SubSeqProperties
<1> HIDE DEF u, v, n
<1>4. /\ u \o v \in Seq(S) /\ Len(u \o v) = n - 1
      /\ \A j \in 1 .. n - 1 : (u \o v)[j] = IF j < i THEN s[j] ELSE s[j + 1]
  <2>1. /\ u \o v \in Seq(S) /\ Len(u \o v) = Len(u) + Len(v)
        /\ \A j \in 1 .. Len(u) + Len(v) :
             (u \o v)[j] = IF j <= Len(u) THEN u[j] ELSE v[j - Len(u)]
    BY <1>2, <1>3, ConcatProperties
  <2>2. Len(u) + Len(v) = n - 1 BY <1>1, <1>2, <1>3
  <2> DEFINE y == u \o v
  <2> HIDE DEF y
  <2>3. ASSUME NEW j \in 1 .. n - 1
        PROVE  y[j] = IF j < i THEN s[j] ELSE s[j + 1]
    <3>1. CASE j < i BY <1>1, <1>2, <2>1, <2>2, <3>1 DEF y
    <3>2. CASE j >= i
      <4> DEFINE k == j - (i - 1)
      <4>1. y[j] = v[k] BY <1>1, <1>2, <2>1, <2>2, <3>2 DEF y
      <4>2. k \in 1 .. n - i /\ i + k = j + 1 /\ ~(j < i)
        BY <1>1, <3>2
      <4> HIDE DEF k
      <4>3. v[k] = s[i + k] BY <1>3, <4>2
      <4> QED BY <1>1, <4>1, <4>2, <4>3
    <3> QED BY <1>1, <3>1, <3>2
  <2> QED BY <2>1, <2>2, <2>3 DEF y
<1> QED BY <1>4 DEF RemoveAt, u, v, n

(* The elements of a sequence with e put before the i-th. *)
LEMMA InsertAtProperties ==
  ASSUME NEW S, NEW s \in Seq(S), NEW i \in 1 .. Len(s) + 1, NEW e \in S
  PROVE  /\ InsertAt(s, i, e) \in Seq(S) /\ Len(InsertAt(s, i, e)) = Len(s) + 1
         /\ \A j \in 1 .. Len(s) + 1 :
              InsertAt(s, i, e)[j] = IF j < i THEN s[j]
                                     ELSE IF j = i THEN e ELSE s[j - 1]
<1> DEFINE u == SubSeq(s, 1, i - 1)  v == SubSeq(s, i, Len(s))  n == Len(s)
           w == <<e>>
<1>1. n \in Nat /\ i \in 1 .. n + 1 /\ \A j \in 1 .. n : s[j] \in S
  OBVIOUS
<1>2. /\ u \in Seq(S) /\ Len(u) = i - 1
      /\ \A j \in 1 .. i - 1 : u[j] = s[j]
  BY <1>1, SubSeqProperties
<1>3. /\ v \in Seq(S) /\ Len(v) = n - i + 1
      /\ \A j \in 1 .. n - i + 1 : v[j] = s[i + j - 1]
  BY <1>1, SubSeqProperties
<1>4. w \in Seq(S) /\ Len(w) = 1 /\ w[1] = e
  OBVIOUS
<1> HIDE DEF u, v, w, n
<1>5. /\ u \o w \in Seq(S) /\ Len(u \o w) = i
      /\ \A j \in 1 .. i : (u \o w)[j] = IF j < i THEN s[j] ELSE e
  <2>1. /\ u \o w \in Seq(S) /\ Len(u \o w) = Len(u) + Len(w)
        /\ \A j \in 1 .. Len(u) + Len(w) :
             (u \o w)[j] = IF j <= Len(u) THEN u[j] ELSE w[j - Len(u)]
    BY <1>2, <1>4, ConcatProperties
  <2>2. Len(u) + Len(w) = i BY <1>1, <1>2, <1>4
  <2> DEFINE y == u \o w
  <2> HIDE DEF y
  <2>3. ASSUME NEW j \in 1 .. i
        PROVE  y[j] = IF j < i THEN s[j] ELSE e
    <3>1. CASE j < i BY <1>1, <1>2, <2>1, <2>2, <3>1 DEF y
    <3>2. CASE j = i
      <4> DEFINE k == j - (i - 1)
      <4>1. y[j] = w[k] BY <1>1, <1>2, <2>1, <2>2, <3>2 DEF y
      <4>2. k = 1 /\ ~(j < i) BY <1>1, <3>2
      <4> HIDE DEF k
      <4> QED BY <1>1, <1>4, <3>2, <4>1, <4>2
    <3> QED BY <1>1, <3>1, <3>2
  <2> QED BY <2>1, <2>2, <2>3 DEF y
<1> DEFINE x == u \o w
<1> HIDE DEF x
<1>6. /\ x \o v \in Seq(S) /\ Len(x \o v) = n + 1
      /\ \A j \in 1 .. n + 1 :
           (x \o v)[j] = IF j < i THEN s[j] ELSE IF j = i THEN e ELSE s[j - 1]
  <2>0. x \in Seq(S) /\ Len(x) = i BY <1>5 DEF x
  <2>1. /\ x \o v \in Seq(S) /\ Len(x \o v) = Len(x) + Len(v)
        /\ \A j \in 1 .. Len(x) + Len(v) :
             (x \o v)[j] = IF j <= Len(x) THEN x[j] ELSE v[j - Len(x)]
    BY <1>3, <2>0, ConcatProperties
  <2>2. Len(x) + Len(v) = n + 1 BY <1>1, <1>3, <2>0
  <2> DEFINE y == x \o v
  <2> HIDE DEF y
  <2>3. ASSUME NEW j \in 1 .. n + 1
        PROVE  y[j] = IF j < i THEN s[j] ELSE IF j = i THEN e ELSE s[j - 1]
    <3>1. CASE j <= i
      <4>1. y[j] = x[j] BY <1>1, <2>0, <2>1, <2>2, <3>1 DEF y
      <4> QED BY <1>1, <1>5, <3>1, <4>1 DEF x
    <3>2. CASE j > i
      <4> DEFINE k == j - i
      <4>1. y[j] = v[k] BY <1>1, <2>0, <2>1, <2>2, <3>2 DEF y
      <4>2. k \in 1 .. n - i + 1 /\ i + k - 1 = j - 1 /\ ~(j < i) /\ j # i
        BY <1>1, <3>2
      <4> HIDE DEF k
      <4>3. v[k] = s[i + k - 1] BY <1>3, <4>2
      <4> QED BY <1>1, <4>1, <4>2, <4>3
    <3> QED BY <1>1, <3>1, <3>2
  <2> QED BY <2>1, <2>2, <2>3 DEF y
<1> QED BY <1>6 DEF InsertAt, u, v, w, x, n

(* A non-empty set of naturals has a least element. *)
LEMMA LeastExists ==
  ASSUME NEW S \in SUBSET Nat, S # {}
  PROVE  \E x \in S : \A y \in S : x <= y
<1> DEFINE R == {p \in Nat \X Nat : p[1] < p[2]}
<1>1. IsWellFoundedOn(R, Nat)
  BY NatLessThanWellFounded DEF OpToRel
<1>2. \E x \in S : \A y \in S : ~ (<<y, x>> \in R)
  <2> HIDE DEF R
  <2> QED BY <1>1, WFMin
<1>3. PICK x \in S : \A y \in S : ~ (<<y, x>> \in R)
  BY <1>2
<1>4. \A y \in S : x <= y
  <2> TAKE y \in S
  <2>1. ~ (y < x) BY <1>3
  <2> QED BY <2>1
<1> QED BY <1>4

(* So Min of it is one of them. *)
LEMMA MinIsLeast ==
  ASSUME NEW S \in SUBSET Nat, S # {}
  PROVE  Min(S) \in S /\ \A y \in S : Min(S) <= y
BY LeastExists DEF Min

(* A bounded one has a greatest, so Max of it is one of them. *)
LEMMA MaxIsOne ==
  ASSUME NEW n \in Nat, NEW S \in SUBSET (0 .. n), S # {}
  PROVE  Max(S) \in S
<1> DEFINE T == {n - x : x \in S}
<1>1. T \in SUBSET Nat /\ T # {}
  <2>1. \A x \in S : n - x \in Nat OBVIOUS
  <2> QED BY <2>1
<1>2. PICK t \in T : \A y \in T : t <= y
  <2> HIDE DEF T
  <2> QED BY <1>1, LeastExists
<1>3. PICK x \in S : t = n - x
  OBVIOUS
<1>4. \A y \in S : x >= y
  <2> TAKE y \in S
  <2>1. n - y \in T OBVIOUS
  <2>2. t <= n - y BY <1>2, <2>1
  <2> QED BY <1>3, <2>2
<1> QED BY <1>4 DEF Max

------------------------------------------------------------------------------
(* What a step does to the list: M is L with a region inserted as the k-th,*)
(* without the k-th, or with another end of the k-th.                      *)

Inserted(M, L, k, r) ==
  /\ M \in Seq(Regions) /\ Len(M) = Len(L) + 1
  /\ \A j \in 1 .. Len(L) + 1 :
       M[j] = IF j < k THEN L[j] ELSE IF j = k THEN r ELSE L[j - 1]

Removed(M, L, k) ==
  /\ M \in Seq(Regions) /\ Len(M) = Len(L) - 1
  /\ \A j \in 1 .. Len(L) - 1 : M[j] = IF j < k THEN L[j] ELSE L[j + 1]

Ended(M, L, k, e) ==
  /\ M \in Seq(Regions) /\ Len(M) = Len(L)
  /\ \A j \in 1 .. Len(L) :
       M[j] = IF j = k THEN [node |-> L[k].node, begin |-> L[k].begin, end |-> e]
              ELSE L[j]

LEMMA ConsInserts ==
  ASSUME NEW L \in Seq(Regions), NEW r \in Regions
  PROVE  Inserted(Cons(r, L), L, 1, r)
<1> DEFINE M == Cons(r, L)
<1>1. /\ M \in Seq(Regions) /\ Len(M) = Len(L) + 1 /\ M[1] = r
      /\ \A i \in 1 .. Len(L) : M[i + 1] = L[i]
  BY ConsProperties
<1> HIDE DEF M
<1>2. ASSUME NEW j \in 1 .. Len(L) + 1, j # 1
      PROVE  M[j] = L[j - 1]
  <2> DEFINE i == j - 1
  <2>1. i \in 1 .. Len(L) /\ i + 1 = j BY <1>2
  <2> HIDE DEF i
  <2>2. M[i + 1] = L[i] BY <1>1, <2>1
  <2> QED BY <2>1, <2>2 DEF i
<1> QED BY <1>1, <1>2 DEF Inserted, M

LEMMA InsertAtInserts ==
  ASSUME NEW L \in Seq(Regions), NEW k \in 1 .. Len(L) + 1, NEW r \in Regions
  PROVE  Inserted(InsertAt(L, k, r), L, k, r)
BY InsertAtProperties DEF Inserted

LEMMA RemoveAtRemoves ==
  ASSUME NEW L \in Seq(Regions), NEW k \in 1 .. Len(L)
  PROVE  Removed(RemoveAt(L, k), L, k)
BY RemoveAtProperties DEF Removed

LEMMA ExceptEnds ==
  ASSUME NEW L \in Seq(Regions), NEW k \in 1 .. Len(L), NEW e \in space_begin .. space_end
  PROVE  Ended([L EXCEPT ![k].end = e], L, k, e)
<1> DEFINE r == [node |-> L[k].node, begin |-> L[k].begin, end |-> e]
           M == [L EXCEPT ![k] = r]
<1>1. L[k] \in Regions OBVIOUS
<1>2. r \in Regions /\ [L[k] EXCEPT !.end = e] = r
  BY <1>1 DEF Regions
<1>3. [L EXCEPT ![k].end = e] = M
  BY <1>2
<1> HIDE DEF r, M
<1>4. /\ M \in Seq(Regions) /\ Len(M) = Len(L)
      /\ \A j \in 1 .. Len(L) : M[j] = IF j = k THEN r ELSE L[j]
  BY <1>2, ExceptSeq DEF M
<1> QED BY <1>3, <1>4 DEF Ended, r

------------------------------------------------------------------------------
(* Order: lists stay in order when what is put in fits its neighbours. *)

Ordered(L) ==
  /\ \A i \in DOMAIN L :
       /\ space_begin <= L[i].begin
       /\ L[i].begin <= L[i].end
       /\ L[i].end <= space_end
  /\ \A i, j \in DOMAIN L : i < j => L[i].end <= L[j].begin

(* A region of the list. *)
LEMMA RegionType ==
  ASSUME NEW L \in Seq(Regions), NEW i \in 1 .. Len(L)
  PROVE  /\ L[i].begin \in Nat /\ L[i].end \in Nat /\ L[i].node \in Nodes
         /\ L[i].begin \in space_begin .. space_end
         /\ L[i].end \in space_begin .. space_end
         /\ L[i] = [node |-> L[i].node, begin |-> L[i].begin, end |-> L[i].end]
<1>1. L[i] \in Regions OBVIOUS
<1> QED BY <1>1, SpaceAssumption DEF Regions

LEMMA InsertedOrdered ==
  ASSUME NEW L \in Seq(Regions), Ordered(L), NEW k \in 1 .. Len(L) + 1,
         NEW r \in Regions, r.begin <= r.end,
         k > 1 => L[k - 1].end <= r.begin,
         k <= Len(L) => r.end <= L[k].begin,
         NEW M, Inserted(M, L, k, r)
  PROVE  Ordered(M)
<1>1. /\ r.begin \in Nat /\ r.end \in Nat
      /\ space_begin <= r.begin /\ r.end <= space_end
  BY SpaceAssumption DEF Regions
<1>2. DOMAIN L = 1 .. Len(L) /\ DOMAIN M = 1 .. Len(L) + 1 /\ Len(L) \in Nat
  BY DEF Inserted
<1>3. ASSUME NEW i \in 1 .. k - 1
      PROVE  M[i] = L[i] /\ i \in 1 .. Len(L) /\ L[i].end <= r.begin
  <2>1. M[i] = L[i] /\ i \in 1 .. Len(L) BY <1>2 DEF Inserted
  <2>2. CASE i = k - 1 BY <2>1, <2>2
  <2>3. CASE i < k - 1
    <3>1. k - 1 \in 1 .. Len(L) BY <1>2
    <3>2. L[i].end <= L[k - 1].begin /\ L[k - 1].begin <= L[k - 1].end
      BY <1>2, <2>1, <2>3, <3>1 DEF Ordered
    <3>3. /\ L[i].end \in Nat /\ L[k - 1].begin \in Nat /\ L[k - 1].end \in Nat
      BY <2>1, <3>1, RegionType
    <3>4. L[k - 1].end <= r.begin BY <3>1
    <3> QED BY <1>1, <2>1, <3>2, <3>3, <3>4
  <2> QED BY <2>1, <2>2, <2>3
<1>4. ASSUME NEW i \in k + 1 .. Len(L) + 1
      PROVE  M[i] = L[i - 1] /\ i - 1 \in 1 .. Len(L) /\ r.end <= L[i - 1].begin
  <2>1. M[i] = L[i - 1] /\ i - 1 \in 1 .. Len(L) BY <1>2 DEF Inserted
  <2>2. CASE i = k + 1 BY <2>1, <2>2
  <2>3. CASE i > k + 1
    <3>1. k \in 1 .. Len(L) BY <1>2, <2>3
    <3>2. L[k].end <= L[i - 1].begin /\ L[k].begin <= L[k].end
      BY <1>2, <2>1, <2>3, <3>1 DEF Ordered
    <3>3. /\ L[k].end \in Nat /\ L[k].begin \in Nat /\ L[i - 1].begin \in Nat
      BY <2>1, <3>1, RegionType
    <3>4. r.end <= L[k].begin BY <3>1
    <3> QED BY <1>1, <2>1, <3>2, <3>3, <3>4
  <2> QED BY <2>1, <2>2, <2>3
<1>5. M[k] = r BY <1>2 DEF Inserted
<1>6. ASSUME NEW i \in 1 .. Len(L) + 1
      PROVE  i \in 1 .. k - 1 \/ i = k \/ i \in k + 1 .. Len(L) + 1
  BY <1>2
<1>7. ASSUME NEW i \in DOMAIN M
      PROVE  /\ space_begin <= M[i].begin
             /\ M[i].begin <= M[i].end
             /\ M[i].end <= space_end
  BY <1>1, <1>2, <1>3, <1>4, <1>5, <1>6 DEF Ordered
<1>8. ASSUME NEW i \in DOMAIN M, NEW j \in DOMAIN M, i < j
      PROVE  M[i].end <= M[j].begin
  <2>1. CASE i \in 1 .. k - 1 /\ j \in 1 .. k - 1
    BY <1>2, <1>3, <1>8, <2>1 DEF Ordered
  <2>2. CASE i \in 1 .. k - 1 /\ j = k
    BY <1>3, <1>5, <2>2
  <2>3. CASE i \in 1 .. k - 1 /\ j \in k + 1 .. Len(L) + 1
    <3>1. /\ L[i].end <= r.begin /\ r.end <= L[j - 1].begin
          /\ M[i] = L[i] /\ M[j] = L[j - 1]
          /\ i \in 1 .. Len(L) /\ j - 1 \in 1 .. Len(L)
      BY <1>3, <1>4, <2>3
    <3>2. L[i].end \in Nat /\ L[j - 1].begin \in Nat BY <3>1, RegionType
    <3> QED BY <1>1, <3>1, <3>2
  <2>4. CASE i = k /\ j \in k + 1 .. Len(L) + 1
    BY <1>4, <1>5, <2>4
  <2>5. CASE i \in k + 1 .. Len(L) + 1 /\ j \in k + 1 .. Len(L) + 1
    <3>1. /\ M[i] = L[i - 1] /\ M[j] = L[j - 1] /\ i - 1 < j - 1
          /\ i - 1 \in 1 .. Len(L) /\ j - 1 \in 1 .. Len(L)
      BY <1>4, <1>8, <2>5
    <3> QED BY <1>2, <3>1 DEF Ordered
  <2> QED BY <1>2, <1>6, <1>8, <2>1, <2>2, <2>3, <2>4, <2>5
<1> QED BY <1>7, <1>8 DEF Ordered

LEMMA RemovedOrdered ==
  ASSUME NEW L \in Seq(Regions), Ordered(L), NEW k \in 1 .. Len(L),
         NEW M, Removed(M, L, k)
  PROVE  Ordered(M)
<1>1. DOMAIN L = 1 .. Len(L) /\ DOMAIN M = 1 .. Len(L) - 1 /\ Len(L) \in Nat
  BY DEF Removed
<1> DEFINE old(j) == IF j < k THEN j ELSE j + 1
<1>2. ASSUME NEW j \in DOMAIN M
      PROVE  old(j) \in DOMAIN L /\ M[j] = L[old(j)]
  BY <1>1 DEF Removed
<1>3. ASSUME NEW i \in DOMAIN M, NEW j \in DOMAIN M, i < j
      PROVE  old(i) < old(j)
  BY <1>1, <1>3
<1> HIDE DEF old
<1> QED BY <1>2, <1>3 DEF Ordered

LEMMA EndedOrdered ==
  ASSUME NEW L \in Seq(Regions), Ordered(L), NEW k \in 1 .. Len(L),
         NEW e \in space_begin .. space_end, L[k].begin <= e,
         k < Len(L) => e <= L[k + 1].begin,
         NEW M, Ended(M, L, k, e)
  PROVE  Ordered(M)
<1>1. DOMAIN L = 1 .. Len(L) /\ DOMAIN M = 1 .. Len(L) /\ Len(L) \in Nat
  BY DEF Ended
<1>2. e \in Nat /\ e <= space_end BY SpaceAssumption
<1>3. /\ M[k].begin = L[k].begin /\ M[k].end = e
      /\ \A j \in 1 .. Len(L) : j # k => M[j] = L[j]
      /\ \A j \in 1 .. Len(L) : M[j].begin = L[j].begin
  BY <1>1 DEF Ended
<1>4. ASSUME NEW j \in 1 .. Len(L), k < j
      PROVE  e <= L[j].begin
  <2>1. CASE j = k + 1 BY <1>1, <2>1
  <2>2. CASE j > k + 1
    <3>1. k + 1 \in 1 .. Len(L) BY <1>1, <2>2
    <3>2. /\ e <= L[k + 1].begin /\ L[k + 1].begin <= L[k + 1].end
          /\ L[k + 1].end <= L[j].begin
      BY <1>1, <2>2, <3>1 DEF Ordered
    <3>3. L[k + 1].begin \in Nat /\ L[k + 1].end \in Nat /\ L[j].begin \in Nat
      BY <3>1, RegionType
    <3> QED BY <1>2, <3>2, <3>3, SMTT(30)
  <2> QED BY <1>1, <1>4, <2>1, <2>2
<1>5. ASSUME NEW i \in DOMAIN M
      PROVE  /\ space_begin <= M[i].begin
             /\ M[i].begin <= M[i].end
             /\ M[i].end <= space_end
  BY <1>1, <1>2, <1>3 DEF Ordered
<1>6. ASSUME NEW i \in DOMAIN M, NEW j \in DOMAIN M, i < j
      PROVE  M[i].end <= M[j].begin
  BY <1>1, <1>3, <1>4, <1>6 DEF Ordered
<1> QED BY <1>5, <1>6 DEF Ordered

------------------------------------------------------------------------------
(* Nodes: those taken from the blocks are in one of the two lists, once.   *)

Taken(st) == {n \in Nodes : n[1] \in DOMAIN st /\ n[2] < st[n[1]]}

(* The nodes in list L and in the free list u have no node twice ...       *)
Apart(L, u) ==
  /\ \A i, j \in DOMAIN L : L[i].node = L[j].node => i = j
  /\ \A i, j \in DOMAIN u : u[i] = u[j] => i = j
  /\ \A i \in DOMAIN L, j \in DOMAIN u : L[i].node # u[j]

(* ... and are the nodes of set N. *)
HoldNodes(L, u, N) ==
  /\ \A i \in DOMAIN L : L[i].node \in N
  /\ \A j \in DOMAIN u : u[j] \in N
  /\ \A n \in N : (\E i \in DOMAIN L : L[i].node = n) \/ (\E j \in DOMAIN u : u[j] = n)

(* NodesConserved without the concatenation. *)
LEMMA NodesApart ==
  ASSUME allocated \in Seq(Regions), unused \in Seq(Nodes)
  PROVE  NodesConserved <=>
           Apart(allocated, unused) /\ HoldNodes(allocated, unused, Taken(storage))
<1> DEFINE s == [i \in DOMAIN allocated |-> allocated[i].node]
           nodes == s \o unused
           m == Len(allocated)
           n == Len(unused)
<1>1. /\ DOMAIN allocated = 1 .. m /\ m \in Nat
      /\ DOMAIN unused = 1 .. n /\ n \in Nat
      /\ \A i \in 1 .. m : allocated[i].node \in Nodes
  <2>1. DOMAIN allocated = 1 .. m /\ m \in Nat /\ DOMAIN unused = 1 .. n /\ n \in Nat
    OBVIOUS
  <2>2. \A i \in 1 .. m : allocated[i].node \in Nodes BY RegionType
  <2> QED BY <2>1, <2>2
<1>2. s \in [1 .. m -> Nodes] BY <1>1
<1>3. s \in Seq(Nodes) /\ Len(s) = m BY <1>1, <1>2
<1>4. /\ \A i \in 1 .. m : s[i] = allocated[i].node
  BY <1>1
<1> HIDE DEF s, m, n
<1>5. /\ nodes \in Seq(Nodes) /\ Len(nodes) = m + n
      /\ \A i \in 1 .. m + n : nodes[i] = IF i <= m THEN s[i] ELSE unused[i - m]
  BY <1>3, ConcatProperties DEF n
<1>6. NodesConserved <=> IsInjective(nodes) /\ ToSet(nodes) = Taken(storage)
  BY DEF NodesConserved, Taken, s
<1> HIDE DEF nodes
<1>7. DOMAIN nodes = 1 .. m + n BY <1>1, <1>5
<1>8. /\ \A i \in 1 .. m : i \in 1 .. m + n /\ nodes[i] = allocated[i].node
      /\ \A j \in 1 .. n : m + j \in 1 .. m + n /\ nodes[m + j] = unused[j]
  <2>1. ASSUME NEW i \in 1 .. m PROVE i \in 1 .. m + n /\ nodes[i] = allocated[i].node
    BY <1>1, <1>4, <1>5
  <2>2. ASSUME NEW j \in 1 .. n PROVE m + j \in 1 .. m + n /\ nodes[m + j] = unused[j]
    <3> DEFINE k == m + j
    <3>1. k \in 1 .. m + n /\ ~(k <= m) /\ k - m = j BY <1>1
    <3> HIDE DEF k
    <3>2. nodes[k] = unused[k - m] BY <1>5, <3>1
    <3> QED BY <3>1, <3>2 DEF k
  <2> QED BY <2>1, <2>2
<1>9. ASSUME NEW k \in 1 .. m + n
      PROVE  (k \in 1 .. m) \/ \E j \in 1 .. n : k = m + j
  <2>1. k \in 1 .. m \/ (k - m \in 1 .. n /\ k = m + (k - m)) BY <1>1
  <2> QED BY <2>1
<1>10. IsInjective(nodes) <=> Apart(allocated, unused)
  <2>1. ASSUME IsInjective(nodes) PROVE Apart(allocated, unused)
    <3>1. \A a, b \in 1 .. m + n : nodes[a] = nodes[b] => a = b
      BY <1>7, <2>1 DEF IsInjective
    <3>2. \A i, j \in 1 .. m : allocated[i].node = allocated[j].node => i = j
      BY <1>8, <3>1
    <3>3. ASSUME NEW i \in 1 .. n, NEW j \in 1 .. n, unused[i] = unused[j]
          PROVE  i = j
      <4>1. m + i = m + j BY <1>8, <3>1, <3>3
      <4> QED BY <1>1, <4>1
    <3>4. ASSUME NEW i \in 1 .. m, NEW j \in 1 .. n, allocated[i].node = unused[j]
          PROVE  FALSE
      <4>1. i = m + j BY <1>8, <3>1, <3>4
      <4> QED BY <1>1, <4>1
    <3> QED BY <1>1, <3>2, <3>3, <3>4 DEF Apart
  <2>2. ASSUME Apart(allocated, unused) PROVE IsInjective(nodes)
    <3>1. /\ \A i, j \in 1 .. m : allocated[i].node = allocated[j].node => i = j
          /\ \A i, j \in 1 .. n : unused[i] = unused[j] => i = j
          /\ \A i \in 1 .. m, j \in 1 .. n : allocated[i].node # unused[j]
      BY <1>1, <2>2 DEF Apart
    <3>2. \A a, b \in 1 .. m + n : nodes[a] = nodes[b] => a = b
      BY <1>8, <1>9, <3>1
    <3> QED BY <1>7, <3>2 DEF IsInjective
  <2> QED BY <2>1, <2>2
<1>11. ToSet(nodes) = Taken(storage)
         <=> HoldNodes(allocated, unused, Taken(storage))
  <2>1. ToSet(nodes) = {allocated[i].node : i \in 1 .. m} \cup {unused[j] : j \in 1 .. n}
    <3>1. ToSet(nodes) = {nodes[k] : k \in 1 .. m + n} BY <1>7 DEF ToSet
    <3> QED BY <1>8, <1>9, <3>1, SMTT(30)
  <2> HIDE DEF Taken
  <2> QED BY <1>1, <2>1 DEF HoldNodes
<1> QED BY <1>6, <1>10, <1>11

(* What find_free_node leaves: a node that is in neither list, taken from  *)
(* the top of the free list or from a block.                               *)
LEMMA FreshNode ==
  ASSUME TypeOK, Apart(allocated, unused),
         HoldNodes(allocated, unused, Taken(storage)),
         NEW node \in Nodes, FindFreeNode(node)
  PROVE  /\ unused' \in Seq(Nodes) /\ storage' \in Seq(1 .. REGIONS_PER_BLOCK)
         /\ pages' \in Nat /\ pages' + Len(storage') = PAGES
         /\ Apart(allocated, unused')
         /\ \A i \in DOMAIN allocated : allocated[i].node # node
         /\ \A j \in DOMAIN unused' : unused'[j] # node
         /\ node \in Taken(storage')
         /\ HoldNodes(allocated, unused', {n \in Taken(storage') : n # node})
<1>0. /\ unused \in Seq(Nodes) /\ storage \in Seq(1 .. REGIONS_PER_BLOCK)
      /\ pages \in Nat /\ pages + Len(storage) = PAGES
      /\ PAGES \in Nat /\ REGIONS_PER_BLOCK \in Nat \ {0}
  BY SpaceAssumption DEF TypeOK
<1> DEFINE Popped == unused # <<>> /\ PopUnused(node)
           FromBlock == /\ unused = <<>>
                        /\ \/ NextEntry(node) /\ BlocksWithSpace # {}
                           \/ NewBlock(node) /\ pages > 0
<1>1. CASE Popped
  <2>1. /\ unused' = Tail(unused) /\ storage' = storage /\ pages' = pages
        /\ node = unused[1]
    BY <1>0, <1>1 DEF PopUnused
  <2>2. /\ unused' \in Seq(Nodes) /\ Len(unused') = Len(unused) - 1
        /\ \A j \in 1 .. Len(unused') : unused'[j] = unused[j + 1]
        /\ Len(unused) \in Nat \ {0}
    BY <1>0, <1>1, <2>1, HeadTailProperties
  <2>3. ASSUME NEW j \in DOMAIN unused'
        PROVE  unused'[j] = unused[j + 1] /\ j + 1 \in DOMAIN unused /\ j + 1 # 1
    BY <1>0, <2>2
  <2>4. 1 \in DOMAIN unused BY <1>0, <2>2
  <2>5. ASSUME NEW j \in DOMAIN unused, j # 1
        PROVE  \E k \in DOMAIN unused' : unused'[k] = unused[j]
    <3> DEFINE k == j - 1
    <3>1. k \in 1 .. Len(unused') /\ k + 1 = j BY <1>0, <2>2, <2>5
    <3>2. DOMAIN unused' = 1 .. Len(unused') BY <2>2
    <3> HIDE DEF k
    <3> QED BY <2>2, <3>1, <3>2
  <2>6. Apart(allocated, unused')
    <3>1. ASSUME NEW i \in DOMAIN unused', NEW j \in DOMAIN unused', unused'[i] = unused'[j]
          PROVE  i = j
      <4>1. i + 1 = j + 1 BY <2>3, <3>1 DEF Apart
      <4>2. i \in Nat /\ j \in Nat BY <2>2
      <4> QED BY <4>1, <4>2
    <3> QED BY <2>3, <3>1 DEF Apart
  <2>7. \A i \in DOMAIN allocated : allocated[i].node # node
    BY <2>1, <2>4 DEF Apart
  <2>8. \A j \in DOMAIN unused' : unused'[j] # node
    BY <2>1, <2>3, <2>4 DEF Apart
  <2>9. node \in Taken(storage') BY <2>1, <2>4 DEF HoldNodes
  <2>10. HoldNodes(allocated, unused', {n \in Taken(storage') : n # node})
    <3>1. \A i \in DOMAIN allocated : allocated[i].node \in Taken(storage')
      BY <2>1 DEF HoldNodes
    <3>2. \A j \in DOMAIN unused' : unused'[j] \in Taken(storage')
      BY <2>1, <2>3 DEF HoldNodes
    <3>3. ASSUME NEW n \in Taken(storage'), n # node
          PROVE  \/ \E i \in DOMAIN allocated : allocated[i].node = n
                 \/ \E j \in DOMAIN unused' : unused'[j] = n
      BY <2>1, <2>5, <3>3 DEF HoldNodes
    <3> QED BY <2>7, <2>8, <3>1, <3>2, <3>3 DEF HoldNodes
  <2> QED BY <1>0, <2>1, <2>2, <2>6, <2>7, <2>8, <2>9, <2>10
<1>2. CASE FromBlock
  <2>1. unused' = unused /\ DOMAIN unused = {}
    BY <1>2 DEF NextEntry, NewBlock
  <2>2. /\ storage' \in Seq(1 .. REGIONS_PER_BLOCK)
        /\ pages' \in Nat /\ pages' + Len(storage') = PAGES
        /\ node \notin Taken(storage)
        /\ Taken(storage') = Taken(storage) \cup {node}
    <3>1. CASE NextEntry(node) /\ BlocksWithSpace # {}
      <4> DEFINE b == Max(BlocksWithSpace)
      <4>1. BlocksWithSpace \in SUBSET (0 .. Len(storage)) /\ Len(storage) \in Nat
        BY <1>0 DEF BlocksWithSpace
      <4>2. b \in BlocksWithSpace BY <3>1, <4>1, MaxIsOne
      <4>3. /\ b \in DOMAIN storage /\ storage[b] < REGIONS_PER_BLOCK
            /\ storage[b] \in Nat /\ b \in 1 .. Len(storage)
        BY <1>0, <4>2 DEF BlocksWithSpace
      <4>4. /\ node = <<b, storage[b]>> /\ pages' = pages
            /\ storage' = [storage EXCEPT ![b] = storage[b] + 1]
        BY <3>1 DEF NextEntry
      <4> HIDE DEF b
      <4>5. /\ storage' \in Seq(1 .. REGIONS_PER_BLOCK) /\ Len(storage') = Len(storage)
            /\ \A c \in 1 .. Len(storage) :
                 storage'[c] = IF c = b THEN storage[b] + 1 ELSE storage[c]
        <5>1. storage[b] + 1 \in 1 .. REGIONS_PER_BLOCK BY <1>0, <4>3
        <5> QED BY <1>0, <4>3, <4>4, <5>1, ExceptSeq, SMTT(30)
      <4>6. DOMAIN storage' = DOMAIN storage /\ DOMAIN storage = 1 .. Len(storage)
        BY <1>0, <4>5
      <4>7. ASSUME NEW n \in Nodes
            PROVE  n \in Taken(storage') <=> n \in Taken(storage) \/ n = node
        <5>1. /\ n = <<n[1], n[2]>> /\ n[2] \in Nat BY <1>0 DEF Nodes
        <5>2. CASE n[1] = b
          BY <4>3, <4>4, <4>5, <4>6, <5>1, <5>2 DEF Taken
        <5>3. CASE n[1] # b
          BY <4>4, <4>5, <4>6, <5>1, <5>3 DEF Taken
        <5> QED BY <5>2, <5>3
      <4>8. node \notin Taken(storage) BY <4>3, <4>4 DEF Taken
      <4>9. Taken(storage') = Taken(storage) \cup {node}
        BY <4>7 DEF Taken
      <4> QED BY <1>0, <4>4, <4>5, <4>8, <4>9
    <3>2. CASE NewBlock(node) /\ pages > 0
      <4> DEFINE b == Len(storage) + 1
      <4>1. /\ node = <<b, 0>> /\ storage' = Append(storage, 1) /\ pages' = pages - 1
        BY <3>2 DEF NewBlock
      <4>2. 1 \in 1 .. REGIONS_PER_BLOCK /\ Len(storage) \in Nat BY <1>0
      <4>3. /\ storage' \in Seq(1 .. REGIONS_PER_BLOCK) /\ Len(storage') = b
            /\ storage'[b] = 1
            /\ \A c \in 1 .. Len(storage) : storage'[c] = storage[c]
        BY <1>0, <4>1, <4>2, AppendProperties
      <4>4. DOMAIN storage' = 1 .. b /\ DOMAIN storage = 1 .. Len(storage)
        BY <1>0, <4>3
      <4>5. ASSUME NEW n \in Nodes
            PROVE  n \in Taken(storage') <=> n \in Taken(storage) \/ n = node
        <5>1. /\ n = <<n[1], n[2]>> /\ n[2] \in Nat BY <1>0 DEF Nodes
        <5>2. CASE n[1] = b
          BY <4>1, <4>2, <4>3, <4>4, <5>1, <5>2 DEF Taken
        <5>3. CASE n[1] # b
          BY <4>1, <4>2, <4>3, <4>4, <5>1, <5>3 DEF Taken
        <5> QED BY <5>2, <5>3
      <4>6. node \notin Taken(storage) BY <4>1, <4>2, <4>4 DEF Taken
      <4>7. Taken(storage') = Taken(storage) \cup {node}
        BY <4>5 DEF Taken
      <4>8. pages' \in Nat /\ pages' + Len(storage') = PAGES
        <5> DEFINE l == Len(storage)  m == Len(storage')
        <5>1. m = l + 1 /\ l \in Nat /\ pages + l = PAGES BY <1>0, <4>2, <4>3
        <5> HIDE DEF l, m
        <5>2. pages' \in Nat /\ pages' + m = PAGES BY <1>0, <3>2, <4>1, <5>1
        <5> QED BY <5>2 DEF m
      <4> QED BY <4>3, <4>6, <4>7, <4>8
    <3> QED BY <1>2, <3>1, <3>2
  <2>3. {n \in Taken(storage') : n # node} = Taken(storage) BY <2>2
  <2>4. \A i \in DOMAIN allocated : allocated[i].node # node
    BY <2>2 DEF HoldNodes
  <2>5. Apart(allocated, unused') BY <2>1
  <2>6. HoldNodes(allocated, unused', Taken(storage)) BY <2>1
  <2>7. /\ storage' \in Seq(1 .. REGIONS_PER_BLOCK) /\ node \in Taken(storage')
        /\ pages' \in Nat /\ pages' + Len(storage') = PAGES
    BY <2>2
  <2>8. unused' \in Seq(Nodes) /\ \A j \in DOMAIN unused' : unused'[j] # node
    BY <1>0, <2>1
  <2>9. HoldNodes(allocated, unused', {n \in Taken(storage') : n # node})
    BY <2>3, <2>6
  <2> QED BY <2>4, <2>5, <2>7, <2>8, <2>9
<1>3. Popped \/ FromBlock BY DEF FindFreeNode
<1> HIDE DEF Popped, FromBlock
<1> QED BY <1>1, <1>2, <1>3

(* A region with such a node put into the list. *)
LEMMA InsertedNodes ==
  ASSUME NEW L \in Seq(Regions), NEW u, NEW N, NEW k \in 1 .. Len(L) + 1,
         NEW r \in Regions, NEW M, Inserted(M, L, k, r),
         Apart(L, u), HoldNodes(L, u, {n \in N : n # r.node}), r.node \in N,
         \A i \in DOMAIN L : L[i].node # r.node,
         \A j \in DOMAIN u : u[j] # r.node
  PROVE  Apart(M, u) /\ HoldNodes(M, u, N)
<1>1. /\ DOMAIN L = 1 .. Len(L) /\ DOMAIN M = 1 .. Len(L) + 1 /\ Len(L) \in Nat
  BY DEF Inserted
<1> DEFINE old(j) == IF j < k THEN j ELSE j - 1
           new(j) == IF j < k THEN j ELSE j + 1
<1>2. M[k] = r /\ k \in DOMAIN M BY <1>1 DEF Inserted
<1>3. ASSUME NEW j \in DOMAIN M, j # k
      PROVE  old(j) \in DOMAIN L /\ M[j] = L[old(j)]
  BY <1>1, <1>3 DEF Inserted
<1>4. ASSUME NEW i \in DOMAIN M, NEW j \in DOMAIN M, i # k, j # k, old(i) = old(j)
      PROVE  i = j
  BY <1>1, <1>4
<1>5. ASSUME NEW j \in DOMAIN L
      PROVE  new(j) \in DOMAIN M /\ M[new(j)] = L[j]
  <2>1. new(j) \in DOMAIN M /\ new(j) # k /\ old(new(j)) = j BY <1>1
  <2> HIDE DEF new, old
  <2> QED BY <1>3, <2>1
<1> HIDE DEF old, new
<1>6. Apart(M, u)
  BY <1>2, <1>3, <1>4 DEF Apart
<1>7. HoldNodes(M, u, N)
  BY <1>2, <1>3, <1>5 DEF HoldNodes
<1> QED BY <1>6, <1>7

(* A region taken out of the list, its node put on the free list. *)
LEMMA RemovedNodes ==
  ASSUME NEW L \in Seq(Regions), NEW u \in Seq(Nodes), NEW N,
         NEW k \in 1 .. Len(L), NEW M, Removed(M, L, k),
         Apart(L, u), HoldNodes(L, u, N)
  PROVE  /\ Cons(L[k].node, u) \in Seq(Nodes)
         /\ Apart(M, Cons(L[k].node, u)) /\ HoldNodes(M, Cons(L[k].node, u), N)
<1> DEFINE node == L[k].node
           v == Cons(node, u)
<1>1. node \in Nodes BY RegionType
<1> HIDE DEF node
<1>2. /\ v \in Seq(Nodes) /\ Len(v) = Len(u) + 1 /\ v[1] = node
      /\ \A i \in 1 .. Len(u) : v[i + 1] = u[i]
  BY <1>1, ConsProperties
<1> HIDE DEF v
<1>3. /\ DOMAIN L = 1 .. Len(L) /\ DOMAIN M = 1 .. Len(L) - 1 /\ Len(L) \in Nat
      /\ DOMAIN u = 1 .. Len(u) /\ DOMAIN v = 1 .. Len(u) + 1 /\ Len(u) \in Nat
  BY <1>2 DEF Removed
<1> DEFINE old(j) == IF j < k THEN j ELSE j + 1
           new(j) == IF j < k THEN j ELSE j - 1
<1>4. ASSUME NEW j \in DOMAIN M
      PROVE  old(j) \in DOMAIN L /\ M[j] = L[old(j)] /\ old(j) # k
  BY <1>3 DEF Removed
<1>5. ASSUME NEW i \in DOMAIN M, NEW j \in DOMAIN M, old(i) = old(j)
      PROVE  i = j
  BY <1>3, <1>5
<1>6. ASSUME NEW j \in DOMAIN L, j # k
      PROVE  new(j) \in DOMAIN M /\ M[new(j)] = L[j]
  <2>1. new(j) \in DOMAIN M /\ old(new(j)) = j BY <1>3, <1>6
  <2> HIDE DEF new, old
  <2> QED BY <1>4, <2>1
<1> HIDE DEF old, new
<1>7. ASSUME NEW i \in DOMAIN v, i # 1
      PROVE  \E j \in DOMAIN u : i = j + 1 /\ v[i] = u[j]
  <2> DEFINE j == i - 1
  <2>1. j \in DOMAIN u /\ j \in 1 .. Len(u) /\ i = j + 1 BY <1>3, <1>7
  <2> HIDE DEF j
  <2> QED BY <1>2, <2>1
<1>8. 1 \in DOMAIN v /\ k \in DOMAIN L BY <1>3
<1>9. \A j \in DOMAIN u : j + 1 \in DOMAIN v /\ v[j + 1] = u[j] BY <1>2, <1>3
<1>10. /\ node \in N /\ \A j \in DOMAIN u : node # u[j]
       /\ \A j \in DOMAIN L : j # k => L[j].node # node
  BY <1>8 DEF Apart, HoldNodes, node
<1>11. Apart(M, v)
  <2>1. ASSUME NEW i \in DOMAIN v, NEW j \in DOMAIN v, v[i] = v[j]
        PROVE  i = j
    <3>1. CASE i = 1 /\ j # 1 BY <1>2, <1>7, <1>10, <2>1, <3>1
    <3>2. CASE i # 1 /\ j = 1 BY <1>2, <1>7, <1>10, <2>1, <3>2
    <3>3. CASE i # 1 /\ j # 1
      <4>1. PICK a \in DOMAIN u : i = a + 1 /\ v[i] = u[a] BY <1>7, <3>3
      <4>2. PICK b \in DOMAIN u : j = b + 1 /\ v[j] = u[b] BY <1>7, <3>3
      <4>3. a = b BY <2>1, <4>1, <4>2 DEF Apart
      <4> QED BY <4>1, <4>2, <4>3
    <3> QED BY <3>1, <3>2, <3>3
  <2>2. ASSUME NEW i \in DOMAIN M, NEW j \in DOMAIN v
        PROVE  M[i].node # v[j]
    <3>1. old(i) \in DOMAIN L /\ M[i] = L[old(i)] /\ old(i) # k BY <1>4
    <3>2. CASE j = 1 BY <1>2, <1>10, <3>1, <3>2
    <3>3. CASE j # 1
      <4>1. PICK a \in DOMAIN u : j = a + 1 /\ v[j] = u[a] BY <1>7, <3>3
      <4> QED BY <3>1, <4>1 DEF Apart
    <3> QED BY <3>2, <3>3
  <2>3. ASSUME NEW i \in DOMAIN M, NEW j \in DOMAIN M, M[i].node = M[j].node
        PROVE  i = j
    BY <1>4, <1>5, <2>3 DEF Apart
  <2> QED BY <2>1, <2>2, <2>3 DEF Apart
<1>12. HoldNodes(M, v, N)
  <2>1. \A i \in DOMAIN M : M[i].node \in N BY <1>4 DEF HoldNodes
  <2>2. ASSUME NEW j \in DOMAIN v PROVE v[j] \in N
    <3>1. CASE j = 1 BY <1>2, <1>10, <3>1
    <3>2. CASE j # 1 BY <1>7, <3>2 DEF HoldNodes
    <3> QED BY <3>1, <3>2
  <2>3. ASSUME NEW n \in N
        PROVE  \/ \E i \in DOMAIN M : M[i].node = n
               \/ \E j \in DOMAIN v : v[j] = n
    <3>1. CASE \E i \in DOMAIN L : L[i].node = n
      <4>1. PICK i \in DOMAIN L : L[i].node = n BY <3>1
      <4>2. CASE i = k BY <1>2, <1>8, <4>1, <4>2 DEF node
      <4>3. CASE i # k BY <1>6, <4>1, <4>3
      <4> QED BY <4>2, <4>3
    <3>2. CASE \E j \in DOMAIN u : u[j] = n
      BY <1>9, <3>2
    <3> QED BY <3>1, <3>2 DEF HoldNodes
  <2> QED BY <2>1, <2>2, <2>3 DEF HoldNodes
<1> QED BY <1>2, <1>11, <1>12 DEF v, node

(* A region with another end keeps its node. *)
LEMMA EndedNodes ==
  ASSUME NEW L \in Seq(Regions), NEW u, NEW N, NEW k \in 1 .. Len(L), NEW e,
         NEW M, Ended(M, L, k, e), Apart(L, u), HoldNodes(L, u, N)
  PROVE  Apart(M, u) /\ HoldNodes(M, u, N)
<1>1. DOMAIN M = DOMAIN L /\ \A j \in DOMAIN L : M[j].node = L[j].node
  BY DEF Ended
<1> QED BY <1>1 DEF Apart, HoldNodes

------------------------------------------------------------------------------
(* The inductive invariant *)

NodesOK ==
  Apart(allocated, unused) /\ HoldNodes(allocated, unused, Taken(storage))

(* The range of a call does not end before it begins. *)
RangeOK == from <= to

(* While a range is freed that does not take the front of a region: the    *)
(* regions behind the loop are clear of the range, and of those ahead it   *)
(* will not take the front either.                                         *)
ClearOf(r) == r.end <= from \/ to <= r.begin
Swept ==
  call.active /\ ~call.front =>
    /\ \A i \in DOMAIN allocated : i < call.pos => ClearOf(allocated[i])
    /\ \A i \in DOMAIN allocated : call.pos <= i => ~FreesFront(allocated[i], from, to)

IInv == TypeOK /\ Ordered(allocated) /\ NodesOK /\ RangeOK /\ Swept

(* Its first parts say what the runs check. *)
LEMMA IInvImplies == IInv => TypeOK /\ RegionsOrdered /\ NodesConserved
<1> SUFFICES ASSUME IInv PROVE TypeOK /\ RegionsOrdered /\ NodesConserved
  OBVIOUS
<1>1. TypeOK BY DEF IInv
<1>2. RegionsOrdered BY DEF IInv, Ordered, RegionsOrdered
<1>3. NodesConserved
  <2>1. allocated \in Seq(Regions) /\ unused \in Seq(Nodes) BY <1>1 DEF TypeOK
  <2> QED BY <2>1, NodesApart DEF IInv, NodesOK
<1> QED BY <1>1, <1>2, <1>3

(* What every action may rely on. *)
LEMMA StateFacts ==
  ASSUME IInv
  PROVE  /\ allocated \in Seq(Regions) /\ DOMAIN allocated = 1 .. Len(allocated)
         /\ Len(allocated) \in Nat
         /\ unused \in Seq(Nodes) /\ storage \in Seq(1 .. REGIONS_PER_BLOCK)
         /\ pages \in Nat /\ pages + Len(storage) = PAGES
         /\ call = [active |-> call.active, address |-> from, address_end |-> to,
                    pos |-> call.pos, front |-> call.front]
         /\ call.active \in BOOLEAN /\ call.front \in BOOLEAN
         /\ from \in Nat /\ to \in Nat /\ from <= to
         /\ call.pos \in 1 .. Len(allocated) + 1
         /\ ret \in {NULL} \cup space_begin .. space_end /\ halted \in BOOLEAN
BY DEF IInv, TypeOK, RangeOK, from, to

(* A turn of the loop of vaddress_free. *)
LEMMA TurnFacts ==
  ASSUME IInv, Turn
  PROVE  /\ call.pos \in 1 .. Len(allocated) /\ call.active /\ ~halted
         /\ region = allocated[call.pos] /\ region \in Regions
         /\ region.begin \in Nat /\ region.end \in Nat /\ region.node \in Nodes
         /\ region.begin \in space_begin .. space_end
         /\ region.end \in space_begin .. space_end
         /\ region.begin <= region.end
         /\ call.pos < Len(allocated) => region.end <= allocated[call.pos + 1].begin
<1>1. call.pos \in 1 .. Len(allocated) /\ region = allocated[call.pos]
  BY StateFacts DEF Turn, region
<1>2. region \in Regions BY <1>1, StateFacts
<1>3. /\ region.begin \in Nat /\ region.end \in Nat /\ region.node \in Nodes
      /\ region.begin \in space_begin .. space_end
      /\ region.end \in space_begin .. space_end
  BY <1>1, RegionType, StateFacts
<1>4. region.begin <= region.end BY <1>1, StateFacts DEF IInv, Ordered
<1>5. call.pos < Len(allocated) => region.end <= allocated[call.pos + 1].begin
  <2> SUFFICES ASSUME call.pos < Len(allocated)
               PROVE  region.end <= allocated[call.pos + 1].begin
    OBVIOUS
  <2>1. /\ call.pos \in DOMAIN allocated /\ call.pos + 1 \in DOMAIN allocated
        /\ call.pos < call.pos + 1
    BY <1>1, StateFacts
  <2> QED BY <1>1, <2>1 DEF IInv, Ordered
<1> QED BY <1>1, <1>2, <1>3, <1>4, <1>5 DEF Turn

LEMMA InitOK == Init => IInv
<1> SUFFICES ASSUME Init PROVE IInv OBVIOUS
<1>1. allocated = <<>> /\ unused = <<>> /\ storage = <<>> BY DEF Init
<1>2. TypeOK
  <2>1. /\ Len(allocated) = 0 /\ Len(storage) = 0 /\ allocated \in Seq(Regions)
        /\ unused \in Seq(Nodes) /\ storage \in Seq(1 .. REGIONS_PER_BLOCK)
    BY <1>1
  <2>2. pages \in Nat /\ pages + 0 = PAGES BY SpaceAssumption DEF Init
  <2>3. call = [active |-> FALSE, address |-> 0, address_end |-> 0, pos |-> 1, front |-> FALSE]
    BY DEF Init, Idle
  <2>4. call \in [active : BOOLEAN, address : Nat, address_end : Nat,
                  pos : 1 .. 0 + 1, front : BOOLEAN]
    BY <2>3
  <2> QED BY <2>1, <2>2, <2>4 DEF Init, TypeOK
<1>3. Taken(storage) = {} BY <1>1 DEF Taken
<1>4. NodesOK BY <1>1, <1>3 DEF NodesOK, Apart, HoldNodes
<1>5. Ordered(allocated) /\ RangeOK /\ Swept
  BY <1>1 DEF Init, Ordered, RangeOK, Swept, Idle, from, to
<1> QED BY <1>2, <1>4, <1>5 DEF IInv

(* Steps that leave the lists alone. *)
LEMMA ListsKept ==
  ASSUME IInv, UNCHANGED <<allocated, unused, storage, pages>>,
         call' \in [active : BOOLEAN, address : Nat, address_end : Nat,
                    pos : 1 .. Len(allocated) + 1, front : BOOLEAN],
         ret' \in {NULL} \cup space_begin .. space_end, halted' \in BOOLEAN,
         RangeOK', Swept'
  PROVE  IInv'
<1>1. TypeOK' BY DEF IInv, TypeOK
<1>2. Ordered(allocated)' BY DEF IInv, Ordered
<1>3. NodesOK' BY DEF IInv, NodesOK, Apart, HoldNodes, Taken
<1> QED BY <1>1, <1>2, <1>3 DEF IInv

------------------------------------------------------------------------------
(* vaddress_allocate *)

(* The gaps lie in the space. *)
LEMMA GapType ==
  ASSUME IInv, NEW i \in 0 .. Len(allocated)
  PROVE  /\ GapBegin(i) \in Nat /\ GapEnd(i) \in Nat
         /\ GapBegin(i) \in space_begin .. space_end
         /\ GapEnd(i) \in space_begin .. space_end
         /\ GapBegin(i) <= GapEnd(i)
<1>1. /\ i > 0 => i \in DOMAIN allocated
      /\ i # Len(allocated) => i + 1 \in DOMAIN allocated
      /\ i < i + 1 /\ i \in Nat
  BY StateFacts
<1>2. /\ i > 0 => allocated[i].end \in space_begin .. space_end
      /\ i # Len(allocated) => allocated[i + 1].begin \in space_begin .. space_end
  BY <1>1, StateFacts, RegionType
<1>3. /\ i > 0 /\ i # Len(allocated) => allocated[i].end <= allocated[i + 1].begin
  BY <1>1 DEF IInv, Ordered
<1> QED BY <1>1, <1>2, <1>3, SpaceAssumption DEF GapBegin, GapEnd

(* The gap found has room, from its begin on. *)
LEMMA GapFound ==
  ASSUME IInv, NEW size \in Size,
         {i \in 0 .. Len(allocated) : Fits(i, size)} # {}
  PROVE  LET i == Min({j \in 0 .. Len(allocated) : Fits(j, size)}) IN
         /\ i \in 0 .. Len(allocated) /\ size \in Nat
         /\ GapBegin(i) + size \in space_begin .. space_end
         /\ GapBegin(i) + size <= GapEnd(i)
         /\ size = 0 => i = 0
<1> DEFINE fits == {j \in 0 .. Len(allocated) : Fits(j, size)}
           i == Min(fits)
<1>1. fits \in SUBSET Nat /\ fits # {} BY StateFacts
<1> HIDE DEF fits
<1>2. i \in fits /\ \A y \in fits : i <= y BY <1>1, MinIsLeast
<1> HIDE DEF i
<1>3. i \in 0 .. Len(allocated) /\ Fits(i, size) /\ size \in Nat
  BY <1>2, SpaceAssumption DEF fits
<1>4. GapBegin(i) + size \in space_begin .. space_end /\ GapBegin(i) + size <= GapEnd(i)
  <2>1. /\ GapBegin(i) \in Nat /\ GapEnd(i) \in Nat
        /\ GapBegin(i) \in space_begin .. space_end
        /\ GapEnd(i) \in space_begin .. space_end
    BY <1>3, GapType
  <2>2. GapEnd(i) - GapBegin(i) >= size BY <1>3 DEF Fits
  <2> QED BY <1>3, <2>1, <2>2, SpaceAssumption
<1>5. size = 0 => i = 0
  <2> SUFFICES ASSUME size = 0 PROVE i = 0 OBVIOUS
  <2>1. 0 \in 0 .. Len(allocated) BY StateFacts
  <2>2. GapBegin(0) \in Nat /\ GapEnd(0) \in Nat /\ GapBegin(0) <= GapEnd(0)
    BY <2>1, GapType
  <2>3. 0 \in fits BY <2>1, <2>2 DEF fits, Fits
  <2> QED BY <1>2, <1>3, <2>3
<1> QED BY <1>3, <1>4, <1>5 DEF i, fits

(* What an allocation that succeeds does to the lists. *)
Grows(i, size) ==
  /\ i \in 1 .. Len(allocated) /\ size > 0
  /\ ret' = allocated[i].end
  /\ Ended(allocated', allocated, i, allocated[i].end + size)
  /\ UNCHANGED <<unused, storage, pages, call, halted>>

Heads(size) ==
  /\ ret' = space_begin
  /\ \E node \in Nodes :
       /\ FindFreeNode(node)
       /\ [node |-> node, begin |-> space_begin, end |-> space_begin + size] \in Regions
       /\ Inserted(allocated', allocated, 1,
            [node |-> node, begin |-> space_begin, end |-> space_begin + size])
  /\ UNCHANGED <<call, halted>>

(* The cases of an allocation, with the room that it found. *)
LEMMA AllocateCases ==
  ASSUME IInv, NEW size \in Size, VaddressAllocate(size)
  PROVE  /\ ~halted /\ ~call.active /\ size \in Nat
         /\ \/ /\ \A i \in 0 .. Len(allocated) : ~Fits(i, size)
               /\ ret' = NULL
               /\ UNCHANGED <<allocated, unused, storage, pages, call, halted>>
            \/ \E i \in 1 .. Len(allocated) :
                 /\ GapBegin(i) + size \in space_begin .. space_end
                 /\ GapBegin(i) + size <= GapEnd(i)
                 /\ Grows(i, size)
            \/ /\ GapBegin(0) + size \in space_begin .. space_end
               /\ GapBegin(0) + size <= GapEnd(0)
               /\ Heads(size)
            \/ Panic
<1> DEFINE fits == {j \in 0 .. Len(allocated) : Fits(j, size)}
           i == Min(fits)
<1>1. /\ ~halted /\ ~call.active /\ size \in Nat
  BY SpaceAssumption DEF VaddressAllocate
<1>2. CASE fits = {} /\ ret' = NULL
           /\ UNCHANGED <<allocated, unused, storage, pages, call, halted>>
  BY <1>1, <1>2
<1>3. CASE fits # {} /\ i > 0 /\ ret' = GapBegin(i)
           /\ allocated' = [allocated EXCEPT ![i].end = @ + size]
           /\ UNCHANGED <<unused, storage, pages, call, halted>>
  <2>1. /\ i \in 0 .. Len(allocated) /\ GapBegin(i) + size \in space_begin .. space_end
        /\ GapBegin(i) + size <= GapEnd(i) /\ (size = 0 => i = 0)
    BY <1>3, GapFound
  <2> HIDE DEF fits, i
  <2>2. i \in 1 .. Len(allocated) /\ size > 0 BY <1>1, <1>3, <2>1
  <2>3. GapBegin(i) = allocated[i].end BY <2>2 DEF GapBegin
  <2>4. allocated' = [allocated EXCEPT ![i].end = allocated[i].end + size]
    BY <1>3
  <2>5. Ended(allocated', allocated, i, allocated[i].end + size)
    BY <2>1, <2>2, <2>3, <2>4, ExceptEnds, StateFacts
  <2>6. Grows(i, size) BY <1>3, <2>2, <2>3, <2>5 DEF Grows
  <2> QED BY <1>1, <2>1, <2>2, <2>6
<1>4. CASE fits # {} /\ i = 0 /\ ret' = space_begin
           /\ (\E node \in Nodes :
                 /\ FindFreeNode(node)
                 /\ allocated' = Cons([node |-> node, begin |-> space_begin,
                                       end |-> space_begin + size], allocated))
           /\ UNCHANGED <<call, halted>>
  <2>1. /\ GapBegin(i) + size \in space_begin .. space_end
        /\ GapBegin(i) + size <= GapEnd(i)
    BY <1>4, GapFound
  <2> HIDE DEF fits, i
  <2>2. GapBegin(0) = space_begin BY DEF GapBegin
  <2>3. PICK node \in Nodes :
          /\ FindFreeNode(node)
          /\ allocated' = Cons([node |-> node, begin |-> space_begin,
                                end |-> space_begin + size], allocated)
    BY <1>4
  <2> DEFINE r == [node |-> node, begin |-> space_begin, end |-> space_begin + size]
  <2>4. r \in Regions
    BY <1>4, <2>1, <2>2, SpaceAssumption DEF Regions
  <2> HIDE DEF r
  <2>5. Inserted(allocated', allocated, 1, r)
    BY <2>3, <2>4, ConsInserts, StateFacts DEF r
  <2>6. Heads(size) BY <1>4, <2>3, <2>4, <2>5 DEF Heads, r
  <2> QED BY <1>1, <1>4, <2>1, <2>6
<1>5. CASE Panic BY <1>1, <1>5
<1> QED BY <1>2, <1>3, <1>4, <1>5 DEF VaddressAllocate

LEMMA AllocateKeepsIInv ==
  ASSUME IInv, NEW size \in Size, VaddressAllocate(size)
  PROVE  IInv'
<1>1. CASE ret' = NULL /\ UNCHANGED <<allocated, unused, storage, pages, call, halted>>
  BY <1>1, ListsKept DEF IInv, TypeOK, RangeOK, Swept, from, to, ClearOf
<1>2. CASE \E i \in 1 .. Len(allocated) :
             /\ GapBegin(i) + size \in space_begin .. space_end
             /\ GapBegin(i) + size <= GapEnd(i)
             /\ Grows(i, size)
  <2>1. PICK i \in 1 .. Len(allocated) :
          /\ GapBegin(i) + size \in space_begin .. space_end
          /\ GapBegin(i) + size <= GapEnd(i)
          /\ Grows(i, size)
    BY <1>2
  <2> DEFINE e == allocated[i].end + size
  <2>2. /\ e \in space_begin .. space_end /\ allocated[i].begin <= e
        /\ i < Len(allocated) => e <= allocated[i + 1].begin
    <3>1. GapBegin(i) = allocated[i].end BY <2>1 DEF GapBegin
    <3>2. i < Len(allocated) => GapEnd(i) = allocated[i + 1].begin
      BY StateFacts DEF GapEnd
    <3>3. allocated[i].begin <= allocated[i].end BY StateFacts DEF IInv, Ordered
    <3>4. allocated[i].begin \in Nat /\ allocated[i].end \in Nat
      BY RegionType, StateFacts
    <3>5. size \in Nat BY SpaceAssumption
    <3> QED BY <2>1, <3>1, <3>2, <3>3, <3>4, <3>5, SMTT(30)
  <2> HIDE DEF e
  <2>3. Ended(allocated', allocated, i, e) /\ UNCHANGED <<unused, storage, pages, call, halted>>
        /\ ret' = allocated[i].end /\ ~call.active
    BY <2>1, AllocateCases DEF Grows, e
  <2>4. Ordered(allocated') BY <2>2, <2>3, EndedOrdered, StateFacts DEF IInv
  <2>5. Apart(allocated', unused) /\ HoldNodes(allocated', unused, Taken(storage))
    BY <2>3, EndedNodes, StateFacts DEF IInv, NodesOK
  <2>6. ret' \in space_begin .. space_end BY <2>3, RegionType, StateFacts
  <2>7. TypeOK' BY <2>3, <2>6 DEF IInv, TypeOK, Ended
  <2>8. NodesOK' BY <2>3, <2>5 DEF NodesOK, Taken
  <2>9. RangeOK' /\ Swept' BY <2>3 DEF IInv, RangeOK, Swept, from, to
  <2> QED BY <2>4, <2>7, <2>8, <2>9 DEF IInv, Ordered
<1>3. CASE /\ GapBegin(0) + size \in space_begin .. space_end
           /\ GapBegin(0) + size <= GapEnd(0)
           /\ Heads(size)
  <2>1. PICK node \in Nodes :
          /\ FindFreeNode(node)
          /\ [node |-> node, begin |-> space_begin, end |-> space_begin + size] \in Regions
          /\ Inserted(allocated', allocated, 1,
               [node |-> node, begin |-> space_begin, end |-> space_begin + size])
    BY <1>3 DEF Heads
  <2> DEFINE r == [node |-> node, begin |-> space_begin, end |-> space_begin + size]
  <2>2. /\ r \in Regions /\ Inserted(allocated', allocated, 1, r)
        /\ r.node = node /\ r.begin = space_begin /\ r.end = space_begin + size
    BY <2>1
  <2>3. /\ r.begin <= r.end
        /\ 1 <= Len(allocated) => r.end <= allocated[1].begin
    <3>1. size \in Nat BY SpaceAssumption
    <3>2. GapBegin(0) = space_begin BY DEF GapBegin
    <3>3. 1 <= Len(allocated) => GapEnd(0) = allocated[1].begin
      BY StateFacts DEF GapEnd
    <3> HIDE DEF r
    <3> QED BY <1>3, <2>2, <3>1, <3>2, <3>3, SpaceAssumption
  <2> HIDE DEF r
  <2>4. 1 \in 1 .. Len(allocated) + 1 BY StateFacts
  <2>5. Ordered(allocated')
    BY <2>2, <2>3, <2>4, InsertedOrdered, StateFacts, SMTT(30) DEF IInv
  <2>6. /\ unused' \in Seq(Nodes) /\ storage' \in Seq(1 .. REGIONS_PER_BLOCK)
        /\ pages' \in Nat /\ pages' + Len(storage') = PAGES
        /\ Apart(allocated, unused')
        /\ \A i \in DOMAIN allocated : allocated[i].node # node
        /\ \A j \in DOMAIN unused' : unused'[j] # node
        /\ node \in Taken(storage')
        /\ HoldNodes(allocated, unused', {n \in Taken(storage') : n # node})
    BY <2>1, FreshNode DEF IInv, NodesOK
  <2>7. Apart(allocated', unused') /\ HoldNodes(allocated', unused', Taken(storage'))
    BY <2>2, <2>4, <2>6, InsertedNodes, StateFacts, ZenonT(60)
  <2>8. NodesOK' BY <2>7 DEF NodesOK, Taken
  <2>9. UNCHANGED <<call, halted>> /\ ret' = space_begin /\ ~call.active
    BY <1>3, AllocateCases DEF Heads
  <2>10. TypeOK'
    <3>1. call \in [active : BOOLEAN, address : Nat, address_end : Nat,
                    pos : 1 .. Len(allocated) + 1, front : BOOLEAN]
          /\ halted \in BOOLEAN
      BY DEF IInv, TypeOK
    <3>2. allocated' \in Seq(Regions) /\ Len(allocated') = Len(allocated) + 1
      BY <2>2 DEF Inserted
    <3>3. call \in [active : BOOLEAN, address : Nat, address_end : Nat,
                    pos : 1 .. Len(allocated') + 1, front : BOOLEAN]
      BY <3>1, <3>2, StateFacts
    <3>4. ret' \in space_begin .. space_end BY <2>9, SpaceAssumption
    <3> QED BY <2>6, <2>9, <3>1, <3>2, <3>3, <3>4 DEF TypeOK
  <2>11. RangeOK' /\ Swept' BY <2>9 DEF IInv, RangeOK, Swept, from, to
  <2> QED BY <2>5, <2>8, <2>10, <2>11 DEF IInv, Ordered
<1>4. CASE Panic
  BY <1>4, ListsKept DEF Panic, IInv, TypeOK, RangeOK, Swept, from, to, ClearOf
<1> QED BY <1>1, <1>2, <1>3, <1>4, AllocateCases

------------------------------------------------------------------------------
(* vaddress_free *)

LEMMA FreeKeepsIInv ==
  ASSUME IInv, NEW address \in Address, NEW size \in Size, VaddressFree(address, size)
  PROVE  IInv'
<1>1. /\ UNCHANGED <<allocated, unused, storage, pages, ret, halted>>
      /\ from' = address /\ to' = address + size
      /\ call'.active /\ call'.pos = 1
      /\ call'.front = \E i \in DOMAIN allocated :
                         FreesFront(allocated[i], address, address + size)
  BY DEF VaddressFree, from, to
<1>2. address \in Nat /\ size \in Nat BY SpaceAssumption
<1>3. call' \in [active : BOOLEAN, address : Nat, address_end : Nat,
                 pos : 1 .. Len(allocated) + 1, front : BOOLEAN]
  <2>1. 1 \in 1 .. Len(allocated) + 1 BY StateFacts
  <2>2. address + size \in Nat BY <1>2
  <2> QED BY <1>2, <2>1, <2>2 DEF VaddressFree
<1>4. RangeOK' BY <1>1, <1>2 DEF RangeOK
<1>5. Swept'
  <2>1. ASSUME ~call'.front, NEW i \in DOMAIN allocated
        PROVE  ~FreesFront(allocated[i], from', to') /\ ~(i < 1)
    BY <1>1, <2>1, StateFacts
  <2> QED BY <1>1, <2>1 DEF Swept, FreesFront
<1>6. ret' \in {NULL} \cup space_begin .. space_end /\ halted' \in BOOLEAN
  BY <1>1, StateFacts
<1> QED BY <1>1, <1>3, <1>4, <1>5, <1>6, ListsKept

LEMMA ReturnKeepsIInv ==
  ASSUME IInv, Return
  PROVE  IInv'
<1>1. /\ UNCHANGED <<allocated, unused, storage, pages, ret, halted>>
      /\ from' = 0 /\ to' = 0 /\ ~call'.active
  BY DEF Return, Idle, from, to
<1>2. call' \in [active : BOOLEAN, address : Nat, address_end : Nat,
                 pos : 1 .. Len(allocated) + 1, front : BOOLEAN]
  <2>1. 1 \in 1 .. Len(allocated) + 1 BY StateFacts
  <2> QED BY <2>1 DEF Return, Idle
<1>3. RangeOK' /\ Swept' BY <1>1 DEF RangeOK, Swept
<1>4. ret' \in {NULL} \cup space_begin .. space_end /\ halted' \in BOOLEAN
  BY <1>1, StateFacts
<1> QED BY <1>1, <1>2, <1>3, <1>4, ListsKept

(* region = region->next, once or twice. *)
LEMMA Advanced ==
  ASSUME IInv, NEW n \in Nat, Advance(n)
  PROVE  /\ call'.active = call.active /\ call'.front = call.front
         /\ from' = from /\ to' = to /\ call'.pos = call.pos + n
         /\ \A m \in Nat :
              call.pos + n <= m + 1 =>
                call' \in [active : BOOLEAN, address : Nat, address_end : Nat,
                           pos : 1 .. m + 1, front : BOOLEAN]
<1>1. call' = [active |-> call.active, address |-> from, address_end |-> to,
               pos |-> call.pos + n, front |-> call.front]
  <2>1. call' = [call EXCEPT !.pos = call.pos + n] BY DEF Advance
  <2>2. call \in [active : BOOLEAN, address : Nat, address_end : Nat,
                  pos : 1 .. Len(allocated) + 1, front : BOOLEAN]
    BY DEF IInv, TypeOK
  <2> QED BY <2>1, <2>2 DEF from, to
<1>2. /\ call'.active = call.active /\ call'.front = call.front
      /\ call'.address = from /\ call'.address_end = to /\ call'.pos = call.pos + n
  BY <1>1
<1>3. ASSUME NEW m \in Nat, call.pos + n <= m + 1
      PROVE  call' \in [active : BOOLEAN, address : Nat, address_end : Nat,
                        pos : 1 .. m + 1, front : BOOLEAN]
  <2>1. call.pos + n \in 1 .. m + 1 BY <1>3, StateFacts
  <2> QED BY <1>1, <2>1, StateFacts
<1> QED BY <1>2, <1>3 DEF from, to

(* When a call does not take the front of a region, where the loop stands. *)
LEMMA SweptFacts ==
  ASSUME IInv, call.active, ~call.front
  PROVE  /\ \A i \in 1 .. Len(allocated) : i < call.pos => ClearOf(allocated[i])
         /\ \A i \in 1 .. Len(allocated) :
              call.pos <= i => ~FreesFront(allocated[i], from, to)
BY StateFacts DEF IInv, Swept

LEMMA SkipKeepsIInv ==
  ASSUME IInv, Skip
  PROVE  IInv'
<1>1. Turn /\ region.end < from /\ Advance(1)
      /\ UNCHANGED <<allocated, unused, storage, pages, ret, halted>>
  BY DEF Skip
<1>2. /\ call.pos \in 1 .. Len(allocated) /\ region = allocated[call.pos]
      /\ region.end \in Nat /\ call.active
  BY <1>1, TurnFacts
<1>3. /\ call'.active = call.active /\ call'.front = call.front
      /\ from' = from /\ to' = to /\ call'.pos = call.pos + 1
      /\ call' \in [active : BOOLEAN, address : Nat, address_end : Nat,
                    pos : 1 .. Len(allocated) + 1, front : BOOLEAN]
  <2> DEFINE n == Len(allocated)
  <2>1. call.pos + 1 <= n + 1 /\ n \in Nat BY <1>2, StateFacts
  <2> HIDE DEF n
  <2>2. Advance(1) BY <1>1
  <2> QED BY <2>1, <2>2, Advanced DEF n
<1>4. Swept'
  <2>1. ASSUME ~call.front, NEW i \in 1 .. Len(allocated), i < call.pos + 1
        PROVE  ClearOf(allocated[i])
    <3>1. CASE i < call.pos BY <1>2, <2>1, <3>1, SweptFacts
    <3>2. CASE i = call.pos BY <1>1, <1>2, <3>2, StateFacts DEF ClearOf
    <3> QED BY <1>2, <2>1, <3>1, <3>2
  <2>2. ASSUME ~call.front, NEW i \in 1 .. Len(allocated), call.pos + 1 <= i
        PROVE  ~FreesFront(allocated[i], from, to)
    <3>1. call.pos <= i BY <1>2, <2>2
    <3> QED BY <1>2, <2>2, <3>1, SweptFacts
  <2>3. DOMAIN allocated = 1 .. Len(allocated) BY StateFacts
  <2> QED BY <1>1, <1>3, <2>1, <2>2, <2>3 DEF Swept, ClearOf
<1>5. RangeOK' BY <1>3 DEF IInv, RangeOK
<1>6. ret' \in {NULL} \cup space_begin .. space_end /\ halted' \in BOOLEAN
  BY <1>1, StateFacts
<1> QED BY <1>1, <1>3, <1>4, <1>5, <1>6, ListsKept

LEMMA DeleteRegionKeepsIInv ==
  ASSUME IInv, DeleteRegion
  PROVE  IInv'
<1>1. /\ Turn /\ allocated' = RemoveAt(allocated, call.pos)
      /\ unused' = Cons(region.node, unused)
      /\ UNCHANGED <<storage, pages, call, ret, halted>>
  BY DEF DeleteRegion
<1>2. call.pos \in 1 .. Len(allocated) /\ region = allocated[call.pos] /\ call.active
  BY <1>1, TurnFacts
<1>3. Removed(allocated', allocated, call.pos)
  BY <1>1, <1>2, RemoveAtRemoves, StateFacts
<1>4. Ordered(allocated') BY <1>2, <1>3, RemovedOrdered, StateFacts DEF IInv
<1>5. /\ unused' \in Seq(Nodes) /\ Apart(allocated', unused')
      /\ HoldNodes(allocated', unused', Taken(storage))
  BY <1>1, <1>2, <1>3, RemovedNodes, StateFacts DEF IInv, NodesOK
<1>6. TypeOK'
  <2>1. /\ allocated' \in Seq(Regions) /\ Len(allocated') = Len(allocated) - 1
    BY <1>3 DEF Removed
  <2>2. call.pos \in 1 .. Len(allocated') + 1 BY <1>2, <2>1, StateFacts
  <2>3. call \in [active : BOOLEAN, address : Nat, address_end : Nat,
                  pos : 1 .. Len(allocated') + 1, front : BOOLEAN]
    BY <2>2, StateFacts
  <2> QED BY <1>1, <1>5, <2>1, <2>3, StateFacts DEF TypeOK
<1>7. NodesOK' BY <1>1, <1>5 DEF NodesOK, Taken
<1>8. Swept'
  <2> DEFINE p == call.pos  n == Len(allocated)
  <2>1. /\ DOMAIN allocated' = 1 .. n - 1 /\ n \in Nat /\ p \in 1 .. n
        /\ \A j \in 1 .. n - 1 :
             allocated'[j] = IF j < p THEN allocated[j] ELSE allocated[j + 1]
    BY <1>2, <1>3, StateFacts DEF Removed
  <2>2. ~call.front => /\ \A i \in 1 .. n : i < p => ClearOf(allocated[i])
                       /\ \A i \in 1 .. n : p <= i => ~FreesFront(allocated[i], from, to)
    BY <1>2, SweptFacts
  <2> HIDE DEF p, n
  <2>3. ASSUME ~call.front, NEW i \in 1 .. n - 1, i < p
        PROVE  ClearOf(allocated'[i])
    <3>1. i \in 1 .. n /\ allocated'[i] = allocated[i] BY <2>1, <2>3
    <3> QED BY <2>2, <2>3, <3>1
  <2>4. ASSUME ~call.front, NEW i \in 1 .. n - 1, p <= i
        PROVE  ~FreesFront(allocated'[i], from, to)
    <3> DEFINE j == i + 1
    <3>1. j \in 1 .. n /\ p <= j /\ allocated'[i] = allocated[j] BY <2>1, <2>4
    <3> HIDE DEF j
    <3> QED BY <2>2, <2>4, <3>1
  <2> QED BY <1>1, <2>1, <2>3, <2>4 DEF Swept, ClearOf, FreesFront, from, to, p
<1>9. RangeOK' BY <1>1 DEF IInv, RangeOK, from, to
<1> QED BY <1>4, <1>6, <1>7, <1>8, <1>9 DEF IInv, Ordered

(* Shift the end of the region at the loop and go on. *)
LEMMA EndsRegionKeepsIInv ==
  ASSUME IInv, Turn, NEW e \in space_begin .. space_end,
         region.begin <= e, e <= region.end,
         ~call.front => e <= from,
         allocated' = [allocated EXCEPT ![call.pos].end = e],
         Advance(1), UNCHANGED <<unused, storage, pages, ret, halted>>
  PROVE  IInv'
<1> DEFINE p == call.pos  n == Len(allocated)
<1>1. /\ p \in 1 .. n /\ region = allocated[p] /\ call.active
      /\ region.end \in Nat /\ region.begin \in Nat
      /\ p < n => region.end <= allocated[p + 1].begin
  BY TurnFacts
<1>2. Ended(allocated', allocated, p, e)
  BY <1>1, ExceptEnds, StateFacts
<1>3. Ordered(allocated')
  <2>1. p < n => e <= allocated[p + 1].begin
    <3> SUFFICES ASSUME p < n PROVE e <= allocated[p + 1].begin
      OBVIOUS
    <3>1. p + 1 \in 1 .. Len(allocated) BY <1>1, StateFacts
    <3>2. allocated[p + 1].begin \in Nat BY <3>1, RegionType, StateFacts
    <3>3. e \in Nat BY SpaceAssumption
    <3> QED BY <1>1, <3>2, <3>3
  <2>2. allocated[p].begin <= e BY <1>1
  <2> HIDE DEF p
  <2> QED BY <1>1, <1>2, <2>1, <2>2, EndedOrdered, StateFacts DEF IInv
<1>4. Apart(allocated', unused) /\ HoldNodes(allocated', unused, Taken(storage))
  BY <1>1, <1>2, EndedNodes, StateFacts DEF IInv, NodesOK
<1>5. /\ call'.active = call.active /\ call'.front = call.front
      /\ from' = from /\ to' = to /\ call'.pos = p + 1
      /\ call' \in [active : BOOLEAN, address : Nat, address_end : Nat,
                    pos : 1 .. n + 1, front : BOOLEAN]
  <2>1. p + 1 <= n + 1 /\ n \in Nat BY <1>1, StateFacts
  <2> HIDE DEF n
  <2> QED BY <2>1, Advanced
<1>6. TypeOK'
  <2>1. allocated' \in Seq(Regions) /\ Len(allocated') = n BY <1>2 DEF Ended
  <2> QED BY <1>5, <2>1, StateFacts DEF TypeOK
<1>7. NodesOK' BY <1>4 DEF NodesOK, Taken
<1>8. Swept'
  <2>1. /\ DOMAIN allocated' = 1 .. n /\ n \in Nat
        /\ \A j \in 1 .. n : j # p => allocated'[j] = allocated[j]
        /\ allocated'[p].end = e
    BY <1>1, <1>2, StateFacts DEF Ended
  <2> HIDE DEF p, n
  <2>2. ~call.front => /\ \A i \in 1 .. n : i < p => ClearOf(allocated[i])
                       /\ \A i \in 1 .. n : p <= i => ~FreesFront(allocated[i], from, to)
    BY <1>1, SweptFacts DEF p, n
  <2>3. ASSUME ~call.front, NEW i \in 1 .. n, i < p + 1
        PROVE  ClearOf(allocated'[i])
    <3>1. CASE i < p BY <1>1, <2>1, <2>2, <2>3, <3>1
    <3>2. CASE i = p BY <2>1, <2>3, <3>2 DEF ClearOf
    <3> QED BY <1>1, <2>3, <3>1, <3>2
  <2>4. ASSUME ~call.front, NEW i \in 1 .. n, p + 1 <= i
        PROVE  ~FreesFront(allocated'[i], from, to)
    <3>1. p <= i /\ i # p BY <1>1, <2>4
    <3> QED BY <2>1, <2>2, <2>4, <3>1
  <2> QED BY <1>5, <2>1, <2>3, <2>4 DEF Swept, ClearOf, FreesFront
<1>9. RangeOK' BY <1>5 DEF IInv, RangeOK
<1> QED BY <1>3, <1>6, <1>7, <1>8, <1>9 DEF IInv, Ordered

(* What "Shift block start" applies to is the front of a region. *)
LEMMA ShiftStartFreesFront == ASSUME IInv, ShiftStart PROVE call.front
<1>1. Turn /\ FreesFront(region, from, to)
  BY StateFacts, TurnFacts DEF ShiftStart, Touches, Past, FreesFront
<1>2. /\ call.pos \in 1 .. Len(allocated) /\ region = allocated[call.pos]
      /\ call.active /\ call.pos <= call.pos
  BY <1>1, TurnFacts
<1> QED BY <1>1, <1>2, SweptFacts

LEMMA ShiftStartKeepsIInv == ASSUME IInv, ShiftStart PROVE IInv'
<1>1. /\ Turn /\ ~Past /\ to < region.end
      /\ allocated' = [allocated EXCEPT ![call.pos].end = to]
      /\ Advance(1) /\ UNCHANGED <<unused, storage, pages, ret, halted>>
  BY DEF ShiftStart, Touches
<1>2. to \in space_begin .. space_end /\ region.begin <= to /\ to <= region.end
  <2>1. /\ to \in Nat /\ region.begin \in Nat /\ region.end \in Nat
        /\ space_begin <= region.begin /\ region.end <= space_end
    BY <1>1, StateFacts, TurnFacts, SpaceAssumption, SMTT(30)
  <2>2. ~(to < region.begin) BY <1>1 DEF Past
  <2> QED BY <1>1, <2>1, <2>2, SpaceAssumption
<1>3. call.front BY ShiftStartFreesFront
<1> QED BY <1>1, <1>2, <1>3, EndsRegionKeepsIInv

LEMMA ShiftEndKeepsIInv == ASSUME IInv, ShiftEnd PROVE IInv'
<1>1. /\ Turn /\ region.begin < from /\ from <= region.end
      /\ allocated' = [allocated EXCEPT ![call.pos].end = from]
      /\ Advance(1) /\ UNCHANGED <<unused, storage, pages, ret, halted>>
  BY StateFacts, TurnFacts DEF ShiftEnd, Touches
<1>2. /\ from \in space_begin .. space_end /\ region.begin <= from
      /\ from <= from
  <2>1. /\ from \in Nat /\ region.begin \in Nat /\ region.end \in Nat
        /\ space_begin <= region.begin /\ region.end <= space_end
    BY <1>1, StateFacts, TurnFacts, SpaceAssumption, SMTT(30)
  <2> QED BY <1>1, <2>1, SpaceAssumption
<1> QED BY <1>1, <1>2, EndsRegionKeepsIInv

(* The region at the loop is cut in two: K is the list with its first part *)
(* only, the new list has the second part behind it.                       *)
Cut(K, node) ==
  /\ Ended(K, allocated, call.pos, from)
  /\ [node |-> node, begin |-> to, end |-> region.end] \in Regions
  /\ Inserted(allocated', K, call.pos + 1,
              [node |-> node, begin |-> to, end |-> region.end])

LEMMA SplitCases ==
  ASSUME IInv, Split
  PROVE  /\ Turn /\ region.begin < from /\ to < region.end
         /\ \/ Panic
            \/ /\ \E node \in Nodes, K \in Seq(Regions) :
                    FindFreeNode(node) /\ Cut(K, node)
               /\ Advance(2) /\ UNCHANGED <<ret, halted>>
<1>1. Turn /\ region.begin < from /\ to < region.end
  BY DEF Split
<1> DEFINE Cuts == \E node \in Nodes :
             /\ FindFreeNode(node)
             /\ allocated' = InsertAt([allocated EXCEPT ![call.pos].end = from],
                               call.pos + 1,
                               [node |-> node, begin |-> to, end |-> region.end])
<1>2. ASSUME Cuts
      PROVE  \E node \in Nodes, K \in Seq(Regions) : FindFreeNode(node) /\ Cut(K, node)
  <2>1. PICK node \in Nodes :
             /\ FindFreeNode(node)
             /\ allocated' = InsertAt([allocated EXCEPT ![call.pos].end = from],
                               call.pos + 1,
                               [node |-> node, begin |-> to, end |-> region.end])
    BY <1>2
  <2> DEFINE K == [allocated EXCEPT ![call.pos].end = from]
             r == [node |-> node, begin |-> to, end |-> region.end]
  <2>2. allocated' = InsertAt(K, call.pos + 1, r) BY <2>1
  <2>3. /\ call.pos \in 1 .. Len(allocated) /\ from \in space_begin .. space_end
        /\ to \in space_begin .. space_end /\ region.end \in space_begin .. space_end
    BY <1>1, StateFacts, TurnFacts, SpaceAssumption, SMTT(30)
  <2>4. r \in Regions BY <2>3 DEF Regions
  <2>5. Ended(K, allocated, call.pos, from) BY <2>3, ExceptEnds, StateFacts
  <2> HIDE DEF K, r
  <2>6. /\ K \in Seq(Regions) /\ Len(K) = Len(allocated)
        /\ call.pos + 1 \in 1 .. Len(K) + 1
    BY <2>3, <2>5, StateFacts DEF Ended
  <2>7. Inserted(InsertAt(K, call.pos + 1, r), K, call.pos + 1, r)
    BY <2>4, <2>6, InsertAtInserts
  <2>8. Cut(K, node) BY <2>2, <2>4, <2>5, <2>7 DEF Cut, r
  <2> QED BY <2>1, <2>6, <2>8
<1>3. Panic \/ (Cuts /\ Advance(2) /\ UNCHANGED <<ret, halted>>)
  BY DEF Split
<1> HIDE DEF Cuts
<1> QED BY <1>1, <1>2, <1>3

LEMMA PanicKeepsIInv == ASSUME IInv, Panic PROVE IInv'
<1>1. /\ UNCHANGED <<allocated, unused, storage, pages, call, ret>> /\ halted' = TRUE
  BY DEF Panic
<1>2. RangeOK' /\ Swept'
  BY <1>1 DEF IInv, RangeOK, Swept, from, to, ClearOf
<1>3. call' \in [active : BOOLEAN, address : Nat, address_end : Nat,
                 pos : 1 .. Len(allocated) + 1, front : BOOLEAN]
  BY <1>1 DEF IInv, TypeOK
<1> QED BY <1>1, <1>2, <1>3, ListsKept, StateFacts

LEMMA SplitKeepsIInv == ASSUME IInv, Split PROVE IInv'
<1>1. /\ Turn /\ region.begin < from /\ to < region.end
  BY SplitCases
<1>2. CASE Panic BY <1>2, PanicKeepsIInv
<1>3. CASE /\ \E node \in Nodes, K \in Seq(Regions) : FindFreeNode(node) /\ Cut(K, node)
           /\ Advance(2) /\ UNCHANGED <<ret, halted>>
  <2> DEFINE p == call.pos  n == Len(allocated)
  <2>1. PICK node \in Nodes, K \in Seq(Regions) : FindFreeNode(node) /\ Cut(K, node)
    BY <1>3
  <2> DEFINE r == [node |-> node, begin |-> to, end |-> region.end]
  <2>2. /\ Ended(K, allocated, p, from) /\ r \in Regions
        /\ Inserted(allocated', K, p + 1, r)
        /\ r.begin = to /\ r.end = region.end /\ r.node = node
    BY <2>1 DEF Cut
  <2> HIDE DEF r
  <2>3. /\ p \in 1 .. n /\ n \in Nat /\ region = allocated[p] /\ call.active
        /\ region.end \in Nat /\ region.begin \in Nat
        /\ p < n => region.end <= allocated[p + 1].begin
        /\ from \in Nat /\ to \in Nat /\ from <= to
        /\ region.begin \in space_begin .. space_end
        /\ region.end \in space_begin .. space_end
    BY <1>1, TurnFacts, StateFacts
  <2>4. from \in space_begin .. space_end /\ to \in space_begin .. space_end
    BY <1>1, <2>3, SpaceAssumption, SMTT(30)
  <2>5. /\ Len(K) = n /\ K[p].end = from
        /\ \A j \in 1 .. n : j # p => K[j] = allocated[j]
        /\ p + 1 \in 1 .. Len(K) + 1
    BY <2>2, <2>3 DEF Ended
  <2>6. Ordered(K)
    <3>1. p < n => from <= allocated[p + 1].begin
      <4> SUFFICES ASSUME p < n PROVE from <= allocated[p + 1].begin
        OBVIOUS
      <4>1. p + 1 \in 1 .. Len(allocated) BY <2>3
      <4>2. allocated[p + 1].begin \in Nat BY <4>1, RegionType, StateFacts
      <4> QED BY <1>1, <2>3, <4>2
    <3>2. allocated[p].begin <= from BY <1>1, <2>3
    <3> HIDE DEF p
    <3> QED BY <2>2, <2>3, <2>4, <3>1, <3>2, EndedOrdered, StateFacts DEF IInv
  <2>7. Ordered(allocated')
    <3> DEFINE k == p + 1
    <3>1. /\ k \in 1 .. Len(K) + 1 /\ r.begin <= r.end
          /\ K[k - 1].end <= r.begin
      <4>1. k - 1 = p BY <2>3
      <4> HIDE DEF p
      <4>2. to <= region.end BY <1>1, <2>3
      <4> QED BY <2>2, <2>3, <2>5, <4>1, <4>2
    <3>2. k <= Len(K) => r.end <= K[k].begin
      <4> SUFFICES ASSUME k <= Len(K) PROVE r.end <= K[k].begin
        OBVIOUS
      <4> HIDE DEF p, n
      <4>1. k \in 1 .. n /\ k # p /\ p < n BY <2>3, <2>5
      <4>2. K[k] = allocated[k] BY <2>5, <4>1
      <4> QED BY <2>2, <2>3, <4>1, <4>2
    <3>3. Inserted(allocated', K, k, r) BY <2>2
    <3> HIDE DEF k
    <3> QED BY <2>2, <2>6, <3>1, <3>2, <3>3, InsertedOrdered
  <2>8. /\ unused' \in Seq(Nodes) /\ storage' \in Seq(1 .. REGIONS_PER_BLOCK)
        /\ pages' \in Nat /\ pages' + Len(storage') = PAGES
        /\ Apart(allocated, unused')
        /\ \A i \in DOMAIN allocated : allocated[i].node # node
        /\ \A j \in DOMAIN unused' : unused'[j] # node
        /\ node \in Taken(storage')
        /\ HoldNodes(allocated, unused', {m \in Taken(storage') : m # node})
    BY <2>1, FreshNode DEF IInv, NodesOK
  <2>9. /\ Apart(K, unused')
        /\ HoldNodes(K, unused', {m \in Taken(storage') : m # node})
    BY <2>2, <2>3, <2>8, EndedNodes, StateFacts
  <2>10. \A i \in DOMAIN K : K[i].node # node
    <3>1. DOMAIN K = 1 .. n /\ DOMAIN allocated = 1 .. n BY <2>2, StateFacts DEF Ended
    <3>2. \A j \in 1 .. n : K[j].node = allocated[j].node BY <2>2 DEF Ended
    <3> QED BY <2>8, <3>1, <3>2
  <2>11. Apart(allocated', unused') /\ HoldNodes(allocated', unused', Taken(storage'))
    <3> DEFINE k == p + 1
    <3>1. k \in 1 .. Len(K) + 1 BY <2>5
    <3>2. Inserted(allocated', K, k, r) BY <2>2
    <3> HIDE DEF k
    <3> QED BY <2>2, <2>8, <2>9, <2>10, <3>1, <3>2, InsertedNodes
  <2>12. NodesOK' BY <2>11 DEF NodesOK, Taken
  <2>13. allocated' \in Seq(Regions) /\ Len(allocated') = n + 1
    BY <2>2, <2>5 DEF Inserted
  <2>14. /\ call'.active = call.active /\ call'.front = call.front
         /\ from' = from /\ to' = to /\ call'.pos = p + 2
         /\ call' \in [active : BOOLEAN, address : Nat, address_end : Nat,
                       pos : 1 .. (n + 1) + 1, front : BOOLEAN]
    <3> DEFINE m == n + 1
    <3>1. m \in Nat /\ p + 2 <= m + 1 BY <2>3
    <3> HIDE DEF m
    <3>2. Advance(2) /\ 2 \in Nat BY <1>3
    <3>3. call' \in [active : BOOLEAN, address : Nat, address_end : Nat,
                     pos : 1 .. m + 1, front : BOOLEAN]
      BY <3>1, <3>2, Advanced
    <3>4. /\ call'.active = call.active /\ call'.front = call.front
          /\ from' = from /\ to' = to /\ call'.pos = p + 2
      BY <3>2, Advanced
    <3> QED BY <3>3, <3>4 DEF m
  <2>15. TypeOK' BY <1>3, <2>8, <2>13, <2>14, StateFacts DEF TypeOK
  <2>16. RangeOK' BY <2>14 DEF IInv, RangeOK
  <2>17. Swept'
    <3>1. ~call.front => /\ \A i \in 1 .. n : i < p => ClearOf(allocated[i])
                         /\ \A i \in 1 .. n : p <= i => ~FreesFront(allocated[i], from, to)
      BY <2>3, SweptFacts
    <3>2. /\ DOMAIN allocated' = 1 .. n + 1
          /\ \A j \in 1 .. n + 1 :
               allocated'[j] = IF j < p + 1 THEN K[j]
                               ELSE IF j = p + 1 THEN r ELSE K[j - 1]
      BY <2>2, <2>5, <2>13 DEF Inserted
    <3> HIDE DEF p, n
    <3>3. ASSUME ~call.front, NEW i \in 1 .. n + 1, i < p + 2
          PROVE  ClearOf(allocated'[i])
      <4>1. CASE i < p
        <5>1. i \in 1 .. n /\ allocated'[i] = allocated[i]
          BY <2>3, <2>5, <3>2, <3>3, <4>1
        <5> QED BY <3>1, <3>3, <4>1, <5>1
      <4>2. CASE i = p
        <5>1. allocated'[i].end = from BY <2>3, <2>5, <3>2, <4>2
        <5> QED BY <2>3, <5>1 DEF ClearOf
      <4>3. CASE i = p + 1
        <5>1. allocated'[i].begin = to BY <2>2, <2>3, <3>2, <4>3
        <5> QED BY <2>3, <5>1 DEF ClearOf
      <4> QED BY <2>3, <3>3, <4>1, <4>2, <4>3
    <3>4. ASSUME ~call.front, NEW i \in 1 .. n + 1, p + 2 <= i
          PROVE  ~FreesFront(allocated'[i], from, to)
      <4> DEFINE j == i - 1
      <4>1. j \in 1 .. n /\ p <= j /\ j # p /\ allocated'[i] = K[j]
        BY <2>3, <3>2, <3>4
      <4> HIDE DEF j
      <4> QED BY <2>5, <3>1, <3>4, <4>1
    <3> QED BY <2>14, <3>2, <3>3, <3>4 DEF Swept, ClearOf, FreesFront
  <2> QED BY <2>7, <2>12, <2>15, <2>16, <2>17 DEF IInv, Ordered
<1> QED BY <1>2, <1>3, SplitCases

------------------------------------------------------------------------------
(* The invariants *)

LEMMA NextKeepsIInv == IInv /\ [Next]_vars => IInv'
<1> SUFFICES ASSUME IInv, [Next]_vars PROVE IInv'
  OBVIOUS
<1>1. ASSUME NEW size \in Size, VaddressAllocate(size) PROVE IInv'
  BY <1>1, AllocateKeepsIInv
<1>2. ASSUME NEW address \in Address, NEW size \in Size, VaddressFree(address, size)
      PROVE  IInv'
  BY <1>2, FreeKeepsIInv
<1>3. CASE FreeStep
  BY <1>3, ReturnKeepsIInv, SkipKeepsIInv, DeleteRegionKeepsIInv,
     ShiftStartKeepsIInv, ShiftEndKeepsIInv, SplitKeepsIInv DEF FreeStep
<1>4. CASE UNCHANGED vars
  <2>1. UNCHANGED <<allocated, unused, storage, pages, call, ret, halted>>
    BY <1>4 DEF vars
  <2>2. RangeOK' /\ Swept'
    BY <2>1 DEF IInv, RangeOK, Swept, from, to, ClearOf
  <2>3. call' \in [active : BOOLEAN, address : Nat, address_end : Nat,
                   pos : 1 .. Len(allocated) + 1, front : BOOLEAN]
    BY <2>1 DEF IInv, TypeOK
  <2> QED BY <2>1, <2>2, <2>3, ListsKept, StateFacts
<1> QED BY <1>1, <1>2, <1>3, <1>4 DEF Next, Halt

(* The inductive invariant holds in every state.                           *)
THEOREM Invariant == Spec => []IInv
BY InitOK, NextKeepsIInv, PTL DEF Spec

(* The state has its types, and the loop of vaddress_free never runs past  *)
(* the end of the list, which it shortens and lengthens as it goes.        *)
THEOREM TypeCorrect == Spec => []TypeOK
BY Invariant, IInvImplies, PTL

(* At every turn of every loop each node that was ever taken from a block  *)
(* is in exactly one of the two lists, once: find_free_node hands out no   *)
(* node in use, and a free loses none.                                     *)
THEOREM NodesStayConserved == Spec => []NodesConserved
BY Invariant, IInvImplies, PTL

(* At every turn of every loop the regions are in the space, in address    *)
(* order and apart, whatever ranges the callers free.                      *)
THEOREM RegionsStayOrdered == Spec => []RegionsOrdered
BY Invariant, IInvImplies, PTL
------------------------------------------------------------------------------
(* The addresses of the regions of a list, and what a step does to them.   *)

Addresses(L) == UNION {L[i].begin .. L[i].end - 1 : i \in DOMAIN L}

LEMMA AddressesIs ==
  ASSUME NEW L \in Seq(Regions), NEW x
  PROVE  x \in Addresses(L) <=>
           x \in Nat /\ \E i \in 1 .. Len(L) : L[i].begin <= x /\ x < L[i].end
<1>1. DOMAIN L = 1 .. Len(L) OBVIOUS
<1>2. ASSUME NEW i \in 1 .. Len(L)
      PROVE  x \in L[i].begin .. L[i].end - 1 <=>
               x \in Nat /\ L[i].begin <= x /\ x < L[i].end
  <2>1. L[i].begin \in Nat /\ L[i].end \in Nat BY RegionType
  <2> QED BY <2>1
<1>3. x \in Addresses(L) <=> \E i \in 1 .. Len(L) : x \in L[i].begin .. L[i].end - 1
  BY <1>1 DEF Addresses
<1> QED BY <1>2, <1>3

LEMMA InsertedAddresses ==
  ASSUME NEW L \in Seq(Regions), NEW k \in 1 .. Len(L) + 1, NEW r \in Regions,
         NEW M, Inserted(M, L, k, r), NEW x \in Nat
  PROVE  x \in Addresses(M) <=> x \in Addresses(L) \/ (r.begin <= x /\ x < r.end)
<1> DEFINE n == Len(L)
<1>1. /\ M \in Seq(Regions) /\ Len(M) = n + 1 /\ n \in Nat /\ k \in 1 .. n + 1
      /\ \A j \in 1 .. n + 1 :
           M[j] = IF j < k THEN L[j] ELSE IF j = k THEN r ELSE L[j - 1]
  BY DEF Inserted
<1> HIDE DEF n
<1>2. ASSUME NEW j \in 1 .. n + 1, M[j].begin <= x, x < M[j].end
      PROVE  \/ \E i \in 1 .. n : L[i].begin <= x /\ x < L[i].end
             \/ r.begin <= x /\ x < r.end
  <2>1. CASE j < k
    <3>1. j \in 1 .. n /\ M[j] = L[j] BY <1>1, <2>1
    <3> QED BY <1>2, <3>1
  <2>2. CASE j = k BY <1>1, <1>2, <2>2
  <2>3. CASE j > k
    <3> DEFINE i == j - 1
    <3>1. i \in 1 .. n /\ M[j] = L[i] BY <1>1, <2>3
    <3> HIDE DEF i
    <3> QED BY <1>2, <3>1
  <2> QED BY <1>1, <2>1, <2>2, <2>3
<1>3. ASSUME NEW i \in 1 .. n, L[i].begin <= x, x < L[i].end
      PROVE  \E j \in 1 .. n + 1 : M[j].begin <= x /\ x < M[j].end
  <2>1. CASE i < k
    <3>1. i \in 1 .. n + 1 /\ M[i] = L[i] BY <1>1, <2>1
    <3> QED BY <1>3, <3>1
  <2>2. CASE i >= k
    <3> DEFINE j == i + 1
    <3>1. j \in 1 .. n + 1 /\ ~(j < k) /\ j # k /\ j - 1 = i BY <1>1, <2>2
    <3> HIDE DEF j
    <3>2. M[j] = L[i] BY <1>1, <3>1
    <3> QED BY <1>3, <3>1, <3>2
  <2> QED BY <1>1, <2>1, <2>2
<1>4. M[k] = r BY <1>1
<1>5. x \in Addresses(M) <=> \E j \in 1 .. n + 1 : M[j].begin <= x /\ x < M[j].end
  BY <1>1, AddressesIs
<1>6. x \in Addresses(L) <=> \E i \in 1 .. n : L[i].begin <= x /\ x < L[i].end
  BY AddressesIs DEF n
<1> QED BY <1>1, <1>2, <1>3, <1>4, <1>5, <1>6

LEMMA RemovedAddresses ==
  ASSUME NEW L \in Seq(Regions), NEW k \in 1 .. Len(L),
         NEW M, Removed(M, L, k), NEW x \in Nat
  PROVE  /\ x \in Addresses(M) => x \in Addresses(L)
         /\ x \in Addresses(L) =>
              x \in Addresses(M) \/ (L[k].begin <= x /\ x < L[k].end)
<1> DEFINE n == Len(L)
<1>1. /\ M \in Seq(Regions) /\ Len(M) = n - 1 /\ n \in Nat /\ k \in 1 .. n
      /\ \A j \in 1 .. n - 1 : M[j] = IF j < k THEN L[j] ELSE L[j + 1]
  BY DEF Removed
<1> HIDE DEF n
<1>2. ASSUME NEW j \in 1 .. n - 1, M[j].begin <= x, x < M[j].end
      PROVE  \E i \in 1 .. n : L[i].begin <= x /\ x < L[i].end
  <2> DEFINE i == IF j < k THEN j ELSE j + 1
  <2>1. i \in 1 .. n /\ M[j] = L[i] BY <1>1
  <2> HIDE DEF i
  <2> QED BY <1>2, <2>1
<1>3. ASSUME NEW i \in 1 .. n, i # k, L[i].begin <= x, x < L[i].end
      PROVE  \E j \in 1 .. n - 1 : M[j].begin <= x /\ x < M[j].end
  <2> DEFINE j == IF i < k THEN i ELSE i - 1
  <2>1. j \in 1 .. n - 1 /\ (IF j < k THEN j ELSE j + 1) = i BY <1>1, <1>3
  <2> HIDE DEF j
  <2>2. M[j] = L[i] BY <1>1, <2>1
  <2> QED BY <1>3, <2>1, <2>2
<1>4. x \in Addresses(M) <=> \E j \in 1 .. n - 1 : M[j].begin <= x /\ x < M[j].end
  BY <1>1, AddressesIs
<1>5. x \in Addresses(L) <=> \E i \in 1 .. n : L[i].begin <= x /\ x < L[i].end
  BY AddressesIs DEF n
<1> QED BY <1>2, <1>3, <1>4, <1>5

LEMMA EndedAddresses ==
  ASSUME NEW L \in Seq(Regions), NEW k \in 1 .. Len(L), NEW e \in Nat,
         NEW M, Ended(M, L, k, e), NEW x \in Nat
  PROVE  /\ x \in Addresses(M) => \/ x \in Addresses(L)
                                  \/ L[k].end <= x /\ x < e
         /\ x \in Addresses(L) => \/ x \in Addresses(M)
                                  \/ e <= x /\ x < L[k].end
         /\ L[k].begin <= x /\ x < e => x \in Addresses(M)
<1> DEFINE n == Len(L)
<1>1. /\ M \in Seq(Regions) /\ Len(M) = n /\ n \in Nat /\ k \in 1 .. n
      /\ M[k].begin = L[k].begin /\ M[k].end = e
      /\ \A j \in 1 .. n : j # k => M[j] = L[j]
      /\ L[k].end \in Nat /\ L[k].begin \in Nat
  <2>1. L[k].end \in Nat /\ L[k].begin \in Nat BY RegionType
  <2>2. M[k] = [node |-> L[k].node, begin |-> L[k].begin, end |-> e] BY DEF Ended
  <2>3. M[k].begin = L[k].begin /\ M[k].end = e BY <2>2
  <2>4. /\ M \in Seq(Regions) /\ Len(M) = n /\ n \in Nat /\ k \in 1 .. n
        /\ \A j \in 1 .. n : j # k => M[j] = L[j]
    BY DEF Ended
  <2> QED BY <2>1, <2>3, <2>4
<1> HIDE DEF n
<1>2. x \in Addresses(M) <=> \E j \in 1 .. n : M[j].begin <= x /\ x < M[j].end
  BY <1>1, AddressesIs
<1>3. x \in Addresses(L) <=> \E i \in 1 .. n : L[i].begin <= x /\ x < L[i].end
  BY AddressesIs DEF n
<1>4. ASSUME x \in Addresses(M), ~(L[k].end <= x /\ x < e)
      PROVE  x \in Addresses(L)
  <2>1. PICK j \in 1 .. n : M[j].begin <= x /\ x < M[j].end BY <1>2, <1>4
  <2>2. CASE j = k BY <1>1, <1>3, <1>4, <2>1, <2>2
  <2>3. CASE j # k BY <1>1, <1>3, <2>1, <2>3
  <2> QED BY <2>2, <2>3
<1>5. ASSUME x \in Addresses(L), ~(e <= x /\ x < L[k].end)
      PROVE  x \in Addresses(M)
  <2>1. PICK j \in 1 .. n : L[j].begin <= x /\ x < L[j].end BY <1>3, <1>5
  <2>2. CASE j = k BY <1>1, <1>2, <1>5, <2>1, <2>2
  <2>3. CASE j # k BY <1>1, <1>2, <2>1, <2>3
  <2> QED BY <2>2, <2>3
<1>6. L[k].begin <= x /\ x < e => x \in Addresses(M)
  BY <1>1, <1>2
<1> QED BY <1>4, <1>5, <1>6

(* Used, point by point. *)
LEMMA UsedIs ==
  ASSUME IInv, NEW x
  PROVE  x \in Used <=> /\ x \in Nat /\ x \in Addresses(allocated)
                        /\ call.active => ~(from <= x /\ x < to)
<1>1. InRegions = Addresses(allocated) BY DEF InRegions, Addresses
<1>2. x \in Addresses(allocated) => x \in Nat BY AddressesIs, StateFacts
<1>3. ASSUME x \in Nat PROVE x \in from .. to - 1 <=> from <= x /\ x < to
  BY <1>3, StateFacts
<1> QED BY <1>1, <1>2, <1>3 DEF Used

(* A step that treats the addresses outside of the range alike. *)
LEMMA UsedKept ==
  ASSUME IInv, IInv', call'.active = call.active, from' = from, to' = to,
         call.active,
         \A x \in Nat : ~(from <= x /\ x < to) =>
           (x \in Addresses(allocated') <=> x \in Addresses(allocated))
  PROVE  Used' = Used
<1>1. ASSUME NEW x
      PROVE  x \in Used' <=> /\ x \in Nat /\ x \in Addresses(allocated')
                             /\ call'.active => ~(from' <= x /\ x < to')
  <2>1. InRegions' = Addresses(allocated') BY DEF InRegions, Addresses
  <2>2. allocated' \in Seq(Regions) BY DEF IInv, TypeOK
  <2>3. x \in Addresses(allocated') => x \in Nat BY <2>2, AddressesIs
  <2>4. ASSUME x \in Nat PROVE x \in from' .. to' - 1 <=> from' <= x /\ x < to'
    BY <2>4, StateFacts
  <2> QED BY <2>1, <2>3, <2>4 DEF Used
<1>2. \A x : x \in Used' <=> x \in Used
  BY <1>1, UsedIs
<1> QED BY <1>2
------------------------------------------------------------------------------
(* The refinement: what each operation does to Used *)

(* What a step may do: KeepsPromise. *)
Kept ==
  \/ Promise!Next
  \/ call.front
  \/ GapIsSplit /\ ret' = NULL /\ UNCHANGED <<Used, halted>>
  \/ UNCHANGED <<Used, ret, halted>>

(* No region reaches into the gap behind the i-th. *)
LEMMA GapClear ==
  ASSUME IInv, NEW i \in 0 .. Len(allocated), NEW x \in Nat,
         GapBegin(i) <= x, x < GapEnd(i)
  PROVE  x \notin Addresses(allocated)
<1> SUFFICES ASSUME NEW j \in 1 .. Len(allocated),
                    allocated[j].begin <= x, x < allocated[j].end
             PROVE  FALSE
  BY AddressesIs, StateFacts
<1>1. /\ allocated[j].begin \in Nat /\ allocated[j].end \in Nat
      /\ j \in DOMAIN allocated /\ i \in Nat /\ Len(allocated) \in Nat
  <2>1. allocated \in Seq(Regions) BY StateFacts
  <2>2. allocated[j].begin \in Nat /\ allocated[j].end \in Nat
    BY <2>1, RegionType
  <2> QED BY <2>1, <2>2
<1>2. CASE j <= i
  <2>1. i \in 1 .. Len(allocated) /\ i \in DOMAIN allocated /\ i # 0
    BY <1>1, <1>2, StateFacts
  <2>2. GapBegin(i) = allocated[i].end BY <2>1 DEF GapBegin
  <2>3. CASE j = i BY <1>1, <2>2, <2>3
  <2>4. CASE j < i
    <3>1. /\ allocated[j].end <= allocated[i].begin
          /\ allocated[i].begin <= allocated[i].end
      BY <1>1, <2>1, <2>4 DEF IInv, Ordered
    <3>2. allocated[i].begin \in Nat /\ allocated[i].end \in Nat
      BY <2>1, RegionType, StateFacts
    <3> QED BY <1>1, <2>2, <3>1, <3>2
  <2> QED BY <1>1, <1>2, <2>3, <2>4
<1>3. CASE i < j
  <2> DEFINE k == i + 1
  <2>1. k \in 1 .. Len(allocated) /\ k \in DOMAIN allocated /\ i # Len(allocated)
    BY <1>1, <1>3, StateFacts, SMTT(30)
  <2>2. GapEnd(i) = allocated[k].begin BY <2>1 DEF GapEnd
  <2>3. k = j \/ k < j BY <1>1, <1>3
  <2> HIDE DEF k
  <2>4. CASE k = j BY <1>1, <2>2, <2>4
  <2>5. CASE k < j
    <3>1. /\ allocated[k].end <= allocated[j].begin
          /\ allocated[k].begin <= allocated[k].end
      BY <1>1, <2>1, <2>5 DEF IInv, Ordered
    <3>2. allocated[k].begin \in Nat /\ allocated[k].end \in Nat
      BY <2>1, RegionType, StateFacts
    <3> QED BY <1>1, <2>2, <3>1, <3>2
  <2> QED BY <2>3, <2>4, <2>5
<1> QED BY <1>1, <1>2, <1>3

(* When no gap is large enough and none is split by an empty region, no    *)
(* free range is either: the gap that ends at the first region beyond a.   *)
LEMMA NothingFits ==
  ASSUME IInv, NEW size \in Nat, ~GapIsSplit,
         \A i \in 0 .. Len(allocated) : ~Fits(i, size),
         NEW a \in space_begin .. space_end - 1,
         \A x \in a .. a + size - 1 :
           x \in space_begin .. space_end - 1 /\ x \notin Addresses(allocated)
  PROVE  FALSE
<1> DEFINE n == Len(allocated)
           Beyond == {i \in 1 .. n : allocated[i].end > a}
<1>1. /\ a \in Nat /\ space_begin <= a /\ a < space_end /\ n \in Nat
      /\ space_begin \in Nat /\ space_end \in Nat
      /\ DOMAIN allocated = 1 .. n
  BY SpaceAssumption, StateFacts, SMTT(30)
<1>2. size > 0
  <2>1. 0 \in 0 .. n BY <1>1
  <2>2. GapBegin(0) \in Nat /\ GapEnd(0) \in Nat /\ GapBegin(0) <= GapEnd(0)
    BY <2>1, GapType
  <2>3. ~(GapEnd(0) - GapBegin(0) >= size) BY <2>1 DEF Fits
  <2> QED BY <2>2, <2>3
<1>3. a + size <= space_end
  <2> DEFINE x == a + size - 1
  <2>1. x \in a .. a + size - 1 BY <1>1, <1>2
  <2>2. x \in space_begin .. space_end - 1 BY <2>1
  <2> QED BY <1>1, <2>2
<1>4. ASSUME NEW i \in 0 .. n, GapBegin(i) <= a, a + size <= GapEnd(i)
      PROVE  FALSE
  <2>1. GapBegin(i) \in Nat /\ GapEnd(i) \in Nat BY GapType
  <2>2. GapEnd(i) - GapBegin(i) >= size BY <1>1, <1>4, <2>1
  <2> QED BY <2>2 DEF Fits
<1>5. CASE Beyond = {}
  <2>1. n \in 0 .. n /\ GapEnd(n) = space_end BY <1>1 DEF GapEnd
  <2>2. GapBegin(n) <= a
    <3>1. CASE n = 0 BY <1>1, <3>1 DEF GapBegin
    <3>2. CASE n # 0
      <4>1. n \in 1 .. n BY <1>1, <3>2
      <4>2. ~(allocated[n].end > a) BY <1>5, <4>1
      <4>3. allocated[n].end \in Nat BY <4>1, RegionType, StateFacts
      <4>4. GapBegin(n) = allocated[n].end BY <3>2 DEF GapBegin
      <4> HIDE DEF n
      <4> QED BY <1>1, <4>2, <4>3, <4>4
    <3> QED BY <3>1, <3>2
  <2> HIDE DEF n
  <2> QED BY <1>3, <1>4, <2>1, <2>2
<1>6. CASE Beyond # {}
  <2>1. PICK i \in Beyond : \A y \in Beyond : i <= y
    <3>1. Beyond \in SUBSET Nat OBVIOUS
    <3> HIDE DEF Beyond
    <3> QED BY <1>6, <3>1, LeastExists
  <2>2. /\ i \in 1 .. n /\ allocated[i].end > a
        /\ allocated[i].begin \in Nat /\ allocated[i].end \in Nat
        /\ space_begin <= allocated[i].begin
        /\ allocated[i].begin <= allocated[i].end
    BY <1>1, RegionType, StateFacts DEF IInv, Ordered
  <2>3. a + size <= allocated[i].begin
    <3> SUFFICES ASSUME allocated[i].begin < a + size PROVE FALSE
      BY <1>1, <2>2
    <3>1. CASE allocated[i].begin = allocated[i].end
      <4>1. space_begin < allocated[i].begin BY <1>1, <2>2, <3>1
      <4> QED BY <1>1, <2>2, <3>1, <4>1 DEF GapIsSplit
    <3>2. CASE allocated[i].begin <= a
      <4>1. a \in Addresses(allocated) BY <1>1, <2>2, <3>2, AddressesIs, StateFacts
      <4>2. a \in a .. a + size - 1 BY <1>1, <1>2
      <4> QED BY <4>1, <4>2
    <3>3. CASE a < allocated[i].begin /\ allocated[i].begin # allocated[i].end
      <4> DEFINE x == allocated[i].begin
      <4>1. x \in Nat /\ x <= x /\ x < allocated[i].end BY <2>2, <3>3
      <4>2. x \in Addresses(allocated) BY <2>2, <4>1, AddressesIs, StateFacts
      <4>3. x \in a .. a + size - 1 BY <1>1, <2>2, <3>3
      <4> QED BY <4>2, <4>3
    <3> QED BY <1>1, <2>2, <3>1, <3>2, <3>3
  <2> DEFINE k == i - 1
  <2>4. k \in 0 .. n /\ k # n /\ k + 1 = i BY <1>1, <2>2
  <2>5. k # 0 => k \in 1 .. n /\ k \notin Beyond
    <3>1. ~(i <= k) BY <1>1, <2>2
    <3>2. k # 0 => k \in 1 .. n BY <1>1, <2>2
    <3> QED BY <2>1, <3>1, <3>2
  <2> HIDE DEF k
  <2>6. GapEnd(k) = allocated[i].begin BY <2>4 DEF GapEnd
  <2>7. GapBegin(k) <= a
    <3>1. CASE k = 0 BY <1>1, <3>1 DEF GapBegin
    <3>2. CASE k # 0
      <4>1. ~(allocated[k].end > a) BY <2>5, <3>2
      <4>2. allocated[k].end \in Nat BY <2>5, <3>2, RegionType, StateFacts
      <4>3. GapBegin(k) = allocated[k].end BY <3>2 DEF GapBegin
      <4> QED BY <1>1, <4>1, <4>2, <4>3
    <3> QED BY <3>1, <3>2
  <2> HIDE DEF n
  <2> QED BY <1>4, <2>3, <2>4, <2>6, <2>7
<1> QED BY <1>5, <1>6
(* A range in a gap given out: the space is as the promise says. *)
LEMMA GivesRange ==
  ASSUME IInv, IInv', ~halted, ~call.active, ~call'.active, halted' = halted,
         NEW size \in Size, NEW i \in 0 .. Len(allocated),
         ret' = GapBegin(i), GapBegin(i) < space_end,
         GapBegin(i) + size <= GapEnd(i),
         \A x \in Nat : x \in Addresses(allocated') <=>
           x \in Addresses(allocated) \/ (ret' <= x /\ x < ret' + size)
  PROVE  Kept
<1> DEFINE a == GapBegin(i)
<1>1. /\ a \in Nat /\ size \in Nat /\ space_begin \in Nat /\ space_end \in Nat
      /\ space_begin <= a /\ a < space_end /\ GapEnd(i) \in Nat
      /\ GapEnd(i) <= space_end /\ a + size <= GapEnd(i) /\ ret' = a
  BY GapType, SpaceAssumption
<1> HIDE DEF a
<1>2. a \in space_begin .. space_end - 1 BY <1>1
<1>3. Used = Addresses(allocated)
  BY UsedIs, AddressesIs, StateFacts
<1>4. Used' = Addresses(allocated')
  BY DEF Used, InRegions, Addresses
<1>5. a .. a + size - 1 \subseteq (space_begin .. space_end - 1) \ Used
  <2> SUFFICES ASSUME NEW x \in a .. a + size - 1
               PROVE  x \in space_begin .. space_end - 1 /\ x \notin Used
    OBVIOUS
  <2>1. x \in Nat /\ a <= x /\ x < GapEnd(i) /\ x < space_end BY <1>1
  <2>2. x \notin Addresses(allocated) BY <2>1, GapClear DEF a
  <2> QED BY <1>1, <1>3, <2>1, <2>2
<1>6. Used' = Used \cup a .. a + size - 1
  <2>1. ASSUME NEW x
        PROVE  x \in Used' <=> x \in Used \/ x \in a .. a + size - 1
    <3>1. x \in Used' => x \in Nat
      <4>1. allocated' \in Seq(Regions) BY DEF IInv, TypeOK
      <4> QED BY <1>4, <4>1, AddressesIs
    <3>2. x \in Used => x \in Nat BY UsedIs
    <3>3. x \in a .. a + size - 1 <=> x \in Nat /\ a <= x /\ x < a + size
      BY <1>1
    <3>4. x \in Nat => (x \in Used' <=> x \in Used \/ (a <= x /\ x < a + size))
      BY <1>1, <1>3, <1>4
    <3> QED BY <3>1, <3>2, <3>3, <3>4
  <2> QED BY <2>1
<1>7. Promise!Allocate(size)
  BY <1>1, <1>2, <1>5, <1>6 DEF Promise!Allocate, Promise!Fits, Promise!Bytes
<1> QED BY <1>7 DEF Kept, Promise!Next

LEMMA PanicKept == ASSUME Panic, ~halted PROVE Kept
<1>1. UNCHANGED <<Used, ret>> /\ halted' = TRUE
  BY DEF Panic, Used, InRegions, from, to
<1>2. Promise!Panic BY <1>1 DEF Promise!Panic
<1> QED BY <1>2 DEF Kept, Promise!Next

LEMMA AllocateKept ==
  ASSUME IInv, IInv', NEW size \in Size, VaddressAllocate(size)
  PROVE  Kept
<1>1. ~halted /\ ~call.active /\ size \in Nat BY AllocateCases
<1>2. CASE /\ \A i \in 0 .. Len(allocated) : ~Fits(i, size)
           /\ ret' = NULL
           /\ UNCHANGED <<allocated, unused, storage, pages, call, halted>>
  <2>1. UNCHANGED <<Used, halted>> BY <1>2 DEF Used, InRegions, from, to
  <2>2. CASE GapIsSplit BY <1>2, <2>1, <2>2 DEF Kept
  <2>3. CASE ~GapIsSplit
    <3>1. ASSUME NEW a \in space_begin .. space_end - 1
          PROVE  ~Promise!Fits(a, size)
      <4> SUFFICES ASSUME Promise!Fits(a, size) PROVE FALSE
        OBVIOUS
      <4>1. Used = Addresses(allocated) BY <1>1, UsedIs, AddressesIs, StateFacts
      <4>2. \A x \in a .. a + size - 1 :
              x \in space_begin .. space_end - 1 /\ x \notin Addresses(allocated)
        BY <4>1 DEF Promise!Fits, Promise!Bytes
      <4> QED BY <1>1, <1>2, <2>3, <4>2, NothingFits
    <3>2. Promise!Allocate(size) BY <1>2, <2>1, <3>1 DEF Promise!Allocate
    <3> QED BY <1>1, <3>2 DEF Kept, Promise!Next
  <2> QED BY <2>2, <2>3
<1>3. ASSUME NEW i \in 1 .. Len(allocated), GapBegin(i) + size \in space_begin .. space_end,
             GapBegin(i) + size <= GapEnd(i), Grows(i, size)
      PROVE  Kept
  <2>1. /\ size > 0 /\ ret' = allocated[i].end
        /\ Ended(allocated', allocated, i, allocated[i].end + size)
        /\ UNCHANGED <<call, halted>>
    BY <1>3 DEF Grows
  <2>2. /\ i \in 0 .. Len(allocated) /\ i # 0 BY StateFacts
  <2>3. GapBegin(i) = allocated[i].end BY <2>2 DEF GapBegin
  <2>4. /\ allocated[i].end \in Nat /\ allocated[i].begin \in Nat
        /\ allocated[i].begin <= allocated[i].end
    BY RegionType, StateFacts DEF IInv, Ordered
  <2>5. GapBegin(i) < space_end BY <1>1, <1>3, <2>1, <2>3, <2>4, SpaceAssumption
  <2> DEFINE e == allocated[i].end + size
  <2>6. e \in Nat /\ allocated[i].end <= e BY <1>1, <2>4
  <2>7. Ended(allocated', allocated, i, e) BY <2>1
  <2>8. ASSUME NEW x \in Nat
        PROVE  x \in Addresses(allocated') <=>
                 x \in Addresses(allocated) \/ (ret' <= x /\ x < e)
    <3> HIDE DEF e
    <3>1. /\ x \in Addresses(allocated') => \/ x \in Addresses(allocated)
                                            \/ allocated[i].end <= x /\ x < e
          /\ x \in Addresses(allocated) => \/ x \in Addresses(allocated')
                                           \/ e <= x /\ x < allocated[i].end
          /\ allocated[i].begin <= x /\ x < e => x \in Addresses(allocated')
      BY <2>6, <2>7, EndedAddresses, StateFacts
    <3> QED BY <2>1, <2>4, <2>6, <3>1
  <2>9. /\ ~call'.active /\ halted' = halted /\ ret' = GapBegin(i)
        /\ ret' + size = e
    BY <1>1, <2>1, <2>3
  <2> HIDE DEF e
  <2> QED BY <1>1, <1>3, <2>2, <2>5, <2>8, <2>9, GivesRange
<1>4. CASE /\ GapBegin(0) + size \in space_begin .. space_end
           /\ GapBegin(0) + size <= GapEnd(0)
           /\ Heads(size)
  <2>1. PICK node \in Nodes :
          /\ [node |-> node, begin |-> space_begin, end |-> space_begin + size] \in Regions
          /\ Inserted(allocated', allocated, 1,
               [node |-> node, begin |-> space_begin, end |-> space_begin + size])
    BY <1>4 DEF Heads
  <2> DEFINE r == [node |-> node, begin |-> space_begin, end |-> space_begin + size]
  <2>2. /\ r \in Regions /\ Inserted(allocated', allocated, 1, r)
        /\ r.begin = space_begin /\ r.end = space_begin + size
    BY <2>1
  <2> HIDE DEF r
  <2>3. /\ ret' = space_begin /\ UNCHANGED <<call, halted>> BY <1>4 DEF Heads
  <2>4. /\ GapBegin(0) = space_begin /\ space_begin < space_end
        /\ 0 \in 0 .. Len(allocated) /\ 1 \in 1 .. Len(allocated) + 1
    BY SpaceAssumption, StateFacts DEF GapBegin
  <2>5. ASSUME NEW x \in Nat
        PROVE  x \in Addresses(allocated') <=>
                 x \in Addresses(allocated) \/ (ret' <= x /\ x < ret' + size)
    <3>1. x \in Addresses(allocated') <=>
            x \in Addresses(allocated) \/ (r.begin <= x /\ x < r.end)
      BY <2>2, <2>4, InsertedAddresses, StateFacts
    <3> QED BY <2>2, <2>3, <3>1
  <2> QED BY <1>1, <1>4, <2>3, <2>4, <2>5, GivesRange
<1>5. CASE Panic BY <1>1, <1>5, PanicKept
<1> QED BY <1>2, <1>3, <1>4, <1>5, AllocateCases

LEMMA FreeKept ==
  ASSUME IInv, NEW address \in Address, NEW size \in Size, VaddressFree(address, size)
  PROVE  Kept
<1>1. /\ ~halted /\ ~call.active /\ call'.active
      /\ UNCHANGED <<allocated, ret, halted>>
      /\ from' = address /\ to' = address + size
  BY DEF VaddressFree, from, to
<1>2. Used = InRegions BY <1>1 DEF Used
<1>3. Used' = InRegions \ address .. address + size - 1
  <2>1. InRegions' = InRegions BY <1>1 DEF InRegions
  <2>2. Used' = InRegions' \ from' .. to' - 1 BY <1>1 DEF Used
  <2> DEFINE e == address + size
  <2>3. from' = address /\ to' = e BY <1>1
  <2> HIDE DEF e
  <2>4. Used' = InRegions \ address .. e - 1 BY <2>1, <2>2, <2>3
  <2>5. address \in Nat /\ size \in Nat BY SpaceAssumption
  <2>6. e - 1 = address + size - 1 BY <2>5 DEF e
  <2> QED BY <2>4, <2>6
<1>4. Promise!Free(address, size) BY <1>1, <1>2, <1>3 DEF Promise!Free, Promise!Bytes
<1> QED BY <1>1, <1>4 DEF Kept, Promise!Next

(* When the loop returns, no region is left in the range: those behind it  *)
(* are clear of it, the one it stopped at and the rest lie after it.       *)
LEMMA ReturnKept == ASSUME IInv, Return PROVE Kept
<1>1. /\ call.active /\ ~halted /\ (Turn => Past) /\ ~call'.active
      /\ UNCHANGED <<allocated, ret, halted>>
  BY DEF Return, Idle
<1>2. CASE call.front BY <1>2 DEF Kept
<1>3. CASE ~call.front
  <2>1. Used' = InRegions BY <1>1 DEF Used, InRegions
  <2>2. ASSUME NEW x \in from .. to - 1
        PROVE  x \notin InRegions
    <3>0. InRegions = Addresses(allocated) BY DEF InRegions, Addresses
    <3> SUFFICES ASSUME NEW j \in 1 .. Len(allocated),
                        allocated[j].begin <= x, x < allocated[j].end
                 PROVE  FALSE
      BY <3>0, AddressesIs, StateFacts
    <3>1. /\ x \in Nat /\ from <= x /\ x < to /\ from \in Nat /\ to \in Nat
          /\ call.pos \in Nat /\ DOMAIN allocated = 1 .. Len(allocated)
      BY StateFacts
    <3>2. allocated[j].begin \in Nat /\ allocated[j].end \in Nat
      <4>1. allocated \in Seq(Regions) BY StateFacts
      <4> QED BY <4>1, RegionType
    <3>3. CASE j < call.pos
      <4>1. ClearOf(allocated[j]) BY <1>1, <1>3, <3>3, SweptFacts
      <4> QED BY <3>1, <3>2, <4>1 DEF ClearOf
    <3>4. CASE call.pos <= j
      <4>1. Turn BY <1>1, <3>1, <3>4, StateFacts DEF Turn
      <4>2. /\ to < region.begin /\ region = allocated[call.pos]
            /\ call.pos \in 1 .. Len(allocated)
            /\ region.begin \in Nat /\ region.end \in Nat
            /\ region.begin <= region.end
        BY <1>1, <4>1, TurnFacts DEF Past
      <4>3. CASE j = call.pos BY <3>1, <3>2, <4>2, <4>3
      <4>4. CASE call.pos < j
        <5>1. region.end <= allocated[j].begin
          BY <3>1, <4>2, <4>4 DEF IInv, Ordered
        <5> QED BY <3>1, <3>2, <4>2, <5>1
      <4> QED BY <3>1, <3>4, <4>3, <4>4
    <3> QED BY <3>1, <3>3, <3>4
  <2>3. Used = InRegions BY <1>1, <2>2 DEF Used
  <2> QED BY <1>1, <2>1, <2>3 DEF Kept
<1> QED BY <1>2, <1>3

LEMMA SkipKept == ASSUME IInv, Skip PROVE Kept
<1>1. /\ UNCHANGED <<allocated, ret, halted>> /\ Advance(1) BY DEF Skip
<1>2. call'.active = call.active /\ from' = from /\ to' = to
  BY <1>1, Advanced
<1>3. Used' = Used BY <1>1, <1>2 DEF Used, InRegions
<1> QED BY <1>1, <1>3 DEF Kept

LEMMA DeleteRegionKept == ASSUME IInv, IInv', DeleteRegion PROVE Kept
<1>1. /\ Turn /\ from <= region.begin /\ region.end <= to
      /\ allocated' = RemoveAt(allocated, call.pos)
      /\ UNCHANGED <<call, ret, halted>>
  BY DEF DeleteRegion
<1>2. /\ call.pos \in 1 .. Len(allocated) /\ region = allocated[call.pos]
      /\ call.active /\ region.begin \in Nat /\ region.end \in Nat
  BY <1>1, TurnFacts
<1>3. Removed(allocated', allocated, call.pos)
  BY <1>1, <1>2, RemoveAtRemoves, StateFacts
<1>4. ASSUME NEW x \in Nat, ~(from <= x /\ x < to)
      PROVE  x \in Addresses(allocated') <=> x \in Addresses(allocated)
  <2>1. /\ x \in Addresses(allocated') => x \in Addresses(allocated)
        /\ x \in Addresses(allocated) =>
             x \in Addresses(allocated') \/ (region.begin <= x /\ x < region.end)
    BY <1>2, <1>3, RemovedAddresses, StateFacts
  <2>2. ~(region.begin <= x /\ x < region.end) BY <1>1, <1>2, <1>4, StateFacts
  <2> QED BY <2>1, <2>2
<1>5. call'.active = call.active /\ from' = from /\ to' = to BY <1>1 DEF from, to
<1>6. Used' = Used BY <1>2, <1>4, <1>5, UsedKept
<1> QED BY <1>1, <1>6 DEF Kept

LEMMA ShiftEndKept == ASSUME IInv, IInv', ShiftEnd PROVE Kept
<1>1. /\ Turn /\ region.begin < from /\ region.end <= to /\ from <= region.end
      /\ allocated' = [allocated EXCEPT ![call.pos].end = from]
      /\ Advance(1) /\ UNCHANGED <<ret, halted>>
  BY StateFacts, TurnFacts DEF ShiftEnd, Touches
<1>2. /\ call.pos \in 1 .. Len(allocated) /\ region = allocated[call.pos]
      /\ call.active /\ region.begin \in Nat /\ region.end \in Nat
      /\ space_begin <= region.begin /\ region.end <= space_end
      /\ from \in Nat /\ to \in Nat
  BY <1>1, TurnFacts, StateFacts, SpaceAssumption, SMTT(30)
<1>3. Ended(allocated', allocated, call.pos, from)
  <2>1. from \in space_begin .. space_end BY <1>1, <1>2, SpaceAssumption, SMTT(30)
  <2> QED BY <1>1, <1>2, <2>1, ExceptEnds, StateFacts
<1>4. ASSUME NEW x \in Nat, ~(from <= x /\ x < to)
      PROVE  x \in Addresses(allocated') <=> x \in Addresses(allocated)
  <2>1. /\ x \in Addresses(allocated') => \/ x \in Addresses(allocated)
                                          \/ region.end <= x /\ x < from
        /\ x \in Addresses(allocated) => \/ x \in Addresses(allocated')
                                         \/ from <= x /\ x < region.end
    BY <1>2, <1>3, EndedAddresses, StateFacts
  <2> QED BY <1>1, <1>2, <1>4, <2>1
<1>5. call'.active = call.active /\ from' = from /\ to' = to BY <1>1, Advanced
<1>6. Used' = Used BY <1>2, <1>4, <1>5, UsedKept
<1> QED BY <1>1, <1>6 DEF Kept

LEMMA SplitKept == ASSUME IInv, IInv', Split PROVE Kept
<1>1. Turn /\ region.begin < from /\ to < region.end BY SplitCases
<1>2. /\ call.pos \in 1 .. Len(allocated) /\ region = allocated[call.pos]
      /\ call.active /\ ~halted /\ region.begin \in Nat /\ region.end \in Nat
      /\ from \in Nat /\ to \in Nat /\ from <= to
  BY <1>1, TurnFacts, StateFacts
<1>3. CASE Panic BY <1>2, <1>3, PanicKept
<1>4. CASE /\ \E node \in Nodes, K \in Seq(Regions) : FindFreeNode(node) /\ Cut(K, node)
           /\ Advance(2) /\ UNCHANGED <<ret, halted>>
  <2>1. PICK node \in Nodes, K \in Seq(Regions) : Cut(K, node) BY <1>4
  <2> DEFINE r == [node |-> node, begin |-> to, end |-> region.end]
             k == call.pos + 1
  <2>2. /\ Ended(K, allocated, call.pos, from) /\ r \in Regions
        /\ Inserted(allocated', K, k, r)
        /\ r.begin = to /\ r.end = region.end
    BY <2>1 DEF Cut
  <2>3. k \in 1 .. Len(K) + 1
    <3>1. Len(K) = Len(allocated) BY <2>2 DEF Ended
    <3> QED BY <1>2, <3>1
  <2> HIDE DEF r, k
  <2>4. ASSUME NEW x \in Nat, ~(from <= x /\ x < to)
        PROVE  x \in Addresses(allocated') <=> x \in Addresses(allocated)
    <3>1. /\ x \in Addresses(K) => \/ x \in Addresses(allocated)
                                   \/ region.end <= x /\ x < from
          /\ x \in Addresses(allocated) => \/ x \in Addresses(K)
                                           \/ from <= x /\ x < region.end
      BY <1>2, <2>2, EndedAddresses, StateFacts
    <3>2. x \in Addresses(allocated') <=>
            x \in Addresses(K) \/ (to <= x /\ x < region.end)
      BY <2>2, <2>3, InsertedAddresses
    <3>3. region.begin <= x /\ x < region.end => x \in Addresses(allocated)
      BY <1>2, AddressesIs, StateFacts
    <3> QED BY <1>1, <1>2, <2>4, <3>1, <3>2, <3>3
  <2>5. call'.active = call.active /\ from' = from /\ to' = to
    <3>1. Advance(2) /\ 2 \in Nat BY <1>4
    <3> QED BY <3>1, Advanced
  <2>6. Used' = Used BY <1>2, <2>4, <2>5, UsedKept
  <2> QED BY <1>4, <2>6 DEF Kept
<1> QED BY <1>3, <1>4, SplitCases

LEMMA StepKept == IInv /\ IInv' /\ [Next]_vars => Kept
<1> SUFFICES ASSUME IInv, IInv', [Next]_vars PROVE Kept
  OBVIOUS
<1>1. ASSUME NEW size \in Size, VaddressAllocate(size) PROVE Kept
  BY <1>1, AllocateKept
<1>2. ASSUME NEW address \in Address, NEW size \in Size, VaddressFree(address, size)
      PROVE  Kept
  BY <1>2, FreeKept
<1>3. CASE ShiftStart BY <1>3, ShiftStartFreesFront DEF Kept
<1>4. CASE FreeStep
  BY <1>3, <1>4, ReturnKept, SkipKept, DeleteRegionKept, ShiftEndKept, SplitKept
     DEF FreeStep
<1>5. CASE UNCHANGED vars
  BY <1>5 DEF vars, Kept, Used, InRegions, from, to
<1> QED BY <1>1, <1>2, <1>4, <1>5 DEF Next, Halt

LEMMA InitKept == Init => Promise!Init
<1> SUFFICES ASSUME Init PROVE Promise!Init
  OBVIOUS
<1>1. Used = {} BY DEF Init, Idle, Used, InRegions
<1> QED BY <1>1 DEF Init, Promise!Init

(* The manager implements AddressSpace in all steps but those its promise  *)
(* excepts: a call that frees the front of a region, and an allocation     *)
(* that overlooks a gap with an empty region in it.  In all others no      *)
(* address is given out twice, nothing outside of the range is freed nor   *)
(* anything in it kept, and an allocation fails only when there is no room.*)
THEOREM PromiseKept == Spec => KeepsPromise
<1>1. IInv /\ IInv' /\ [Next]_vars =>
        [\/ Promise!Next
         \/ call.front
         \/ GapIsSplit /\ ret' = NULL /\ UNCHANGED <<Used, halted>>]_<<Used, ret, halted>>
  BY StepKept DEF Kept
<1> QED BY <1>1, InitKept, Invariant, PTL DEF Spec, KeepsPromise
==============================================================================
