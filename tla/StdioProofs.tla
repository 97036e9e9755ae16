------------------------------ MODULE StdioProofs -----------------------------
(***************************************************************************)
(* The streams, proved for every number of slots, every format and string, *)
(* and writers and readers that take or give any part: the table gives out *)
(* no stream twice, and a call reports its failure.  What a conversion     *)
(* writes enters only as a sequence of texts (ConversionsWriteText).       *)
(***************************************************************************)
EXTENDS Stdio, SequenceTheorems, TLAPS

------------------------------------------------------------------------------
(* Sequences *)

LEMMA SequenceIs ==
  ASSUME NEW T, NEW s \in Seq(T)
  PROVE  /\ IsSequence(s) /\ DOMAIN s = 1 .. Len(s) /\ Len(s) \in Nat
         /\ (s = <<>> <=> Len(s) = 0)
         /\ \A x : x \in ToSet(s) <=> \E j \in 1 .. Len(s) : x = s[j]
<1>1. DOMAIN s = 1 .. Len(s) /\ Len(s) \in Nat OBVIOUS
<1>2. \A x : x \in ToSet(s) <=> \E j \in 1 .. Len(s) : x = s[j]
  BY <1>1 DEF ToSet
<1>3. s \in Seq(ToSet(s))
  <2> DEFINE S == ToSet(s)
  <2>1. \A j \in 1 .. Len(s) : s[j] \in S BY <1>2
  <2> HIDE DEF S
  <2>2. s \in [1 .. Len(s) -> S] BY <2>1, LenProperties
  <2>3. s \in Seq(S) BY <1>1, <2>2, SeqDef
  <2> QED BY <2>3 DEF S
<1>4. s = <<>> <=> Len(s) = 0 OBVIOUS
<1> QED BY <1>1, <1>2, <1>3, <1>4 DEF IsSequence

LEMMA TailIs ==
  ASSUME NEW T, NEW s \in Seq(T), s # <<>>
  PROVE  /\ IsSequence(Tail(s)) /\ Len(Tail(s)) = Len(s) - 1
         /\ Len(s) \in Nat \ {0} /\ Head(s) = s[1]
         /\ \A j \in 1 .. Len(s) - 1 : Tail(s)[j] = s[j + 1]
<1>1. Tail(s) \in Seq(T) OBVIOUS
<1>2. IsSequence(Tail(s)) BY <1>1, SequenceIs
<1> QED BY <1>2

(* The writes to come: texts, which puts never has empty. *)
Writing(todo) ==
  IsSequence(todo) /\ \A j \in 1 .. Len(todo) : IsSequence(todo[j])

LEMMA WritingTail ==
  ASSUME NEW todo, Writing(todo), todo # <<>>
  PROVE  /\ Writing(Tail(todo)) /\ IsSequence(Head(todo)) /\ 1 \in 1 .. Len(todo)
         /\ Head(todo) = todo[1] /\ Len(Tail(todo)) = Len(todo) - 1
         /\ \A j \in 1 .. Len(todo) - 1 :
              Tail(todo)[j] = todo[j + 1] /\ j + 1 \in 1 .. Len(todo)
<1> DEFINE t == Tail(todo)
<1>1. todo \in Seq(ToSet(todo)) BY DEF Writing, IsSequence
<1>2. /\ IsSequence(t) /\ Len(t) = Len(todo) - 1
      /\ Len(todo) \in Nat \ {0} /\ Head(todo) = todo[1]
      /\ \A j \in 1 .. Len(todo) - 1 : t[j] = todo[j + 1]
  BY <1>1, TailIs
<1> HIDE DEF t
<1>3. \A j \in 1 .. Len(todo) - 1 : j + 1 \in 1 .. Len(todo) BY <1>2
<1>4. 1 \in 1 .. Len(todo) BY <1>2
<1>5. \A j \in 1 .. Len(t) : IsSequence(t[j]) BY <1>2, <1>3 DEF Writing
<1> QED BY <1>2, <1>3, <1>4, <1>5 DEF Writing, t

------------------------------------------------------------------------------
(* The invariant *)

(* Streams are given out in the order of the table, and never taken back.  *)
TableInv ==
  /\ streams \in [Slots -> [cookie : Cookies \cup {NULL}, io : {"none", "reader", "writer"},
                           eof : BOOLEAN, error : BOOLEAN]]
  /\ opened \in Seq(Slots) /\ Len(opened) <= MAX_OPEN_STREAMS
  /\ \A j \in 1 .. Len(opened) : opened[j] = j
  /\ \A i \in Slots : Vacant(i) <=> i > Len(opened)

Errnos == {"0", "ENOSR", "ENOSTR", "EOPNOTSUPP", "EIO"}

(* A call: what is left of its format, texts to write, and once it has     *)
(* written something, a stream with a writer and an errno that is clear.   *)
Going(c) ==
  /\ c.fn \in {"fprintf", "puts"}
  /\ c.stream \in ToSet(opened) \cup {NULL}
  /\ IsSequence(c.items)
  /\ c.fn = "fprintf" => c.items \in Formats
  /\ \E k \in 0 .. Len(c.items) : c.left = SubSeq(c.items, k + 1, Len(c.items))
  /\ Writing(c.todo)
  /\ c.fn = "puts" => c.left = <<>> /\ \A j \in 1 .. Len(c.todo) : c.todo[j] # <<>>
  /\ c.written \in Nat
  /\ c.written > 0 =>
       errno = "0" /\ c.stream # NULL /\ streams[c.stream].io = "writer"

(* A call with these parts, whatever they are. *)
IsCall(c) ==
  c = [fn |-> c.fn, stream |-> c.stream, items |-> c.items, left |-> c.left,
       todo |-> c.todo, written |-> c.written, out |-> c.out]

CallInv == call # NoCall => IsCall(call) /\ Going(call)

IInv == TableInv /\ errno \in Errnos /\ ret \in Nat \cup {EOF} /\ CallInv

LEMMA SlotFacts == MAX_OPEN_STREAMS \in Nat \ {0} /\ Slots = 1 .. MAX_OPEN_STREAMS
BY StdioAssumption DEF Slots

LEMMA OpenedIs ==
  ASSUME TableInv
  PROVE  /\ Len(opened) \in Nat
         /\ \A f : f \in ToSet(opened) <=> f \in 1 .. Len(opened)
         /\ \A f \in ToSet(opened) : f \in Slots /\ ~Vacant(f)
<1>1. /\ Len(opened) \in Nat
      /\ \A x : x \in ToSet(opened) <=> \E j \in 1 .. Len(opened) : x = opened[j]
  BY SequenceIs DEF TableInv
<1>2. \A f : f \in ToSet(opened) <=> f \in 1 .. Len(opened) BY <1>1 DEF TableInv
<1>3. \A f \in 1 .. Len(opened) : f \in Slots /\ ~(f > Len(opened))
  BY <1>1, SlotFacts DEF TableInv
<1> QED BY <1>1, <1>2, <1>3 DEF TableInv

(* Marks on a stream that is open change nothing else. *)
LEMMA TableKept ==
  ASSUME TableInv, UNCHANGED opened, streams' \in [Slots -> [cookie : Cookies \cup {NULL},
           io : {"none", "reader", "writer"}, eof : BOOLEAN, error : BOOLEAN]],
         \A i \in Slots : streams'[i].cookie = streams[i].cookie
  PROVE  TableInv'
BY DEF TableInv, Vacant

LEMMA FOpenCookieTable ==
  ASSUME TableInv, NEW cookie \in Cookies, NEW io \in {"reader", "writer"},
         FOpenCookie(cookie, io)
  PROVE  TableInv' /\ errno' \in Errnos
<1>2. CASE ~(\E i \in Slots : Vacant(i))
  <2>1. UNCHANGED <<streams, opened>> /\ errno' = "ENOSR"
    BY <1>2 DEF FOpenCookie
  <2>2. TableInv' BY <2>1, TableKept DEF TableInv
  <2> QED BY <2>1, <2>2 DEF Errnos
<1>3. CASE \E i \in Slots : Vacant(i)
  <2> DEFINE new == [cookie |-> cookie, io |-> io, eof |-> FALSE, error |-> FALSE]
  <2>1. PICK i \in Slots : /\ Vacant(i) /\ \A j \in 1 .. i - 1 : ~Vacant(j)
                           /\ streams' = [streams EXCEPT ![i] = new]
                           /\ opened' = Append(opened, i) /\ errno' = "0"
    BY <1>3 DEF FOpenCookie
  <2>2. new \in [cookie : Cookies \cup {NULL}, io : {"none", "reader", "writer"},
                 eof : BOOLEAN, error : BOOLEAN] /\ new.cookie # NULL
    BY StdioAssumption
  <2> HIDE DEF new
  <2> DEFINE n == Len(opened)
  <2>3. TableInv OBVIOUS
  <2>4. n \in Nat /\ opened \in Seq(Slots) /\ n <= MAX_OPEN_STREAMS
    BY <2>3, OpenedIs DEF TableInv
  <2>5. i = n + 1
    <3>1. i > n /\ i \in Nat BY <2>1, <2>3, SlotFacts DEF TableInv
    <3>2. ASSUME i > n + 1 PROVE FALSE
      <4>1. n + 1 \in Slots /\ n + 1 \in 1 .. i - 1 BY <2>4, <3>1, <3>2, SlotFacts
      <4>2. Vacant(n + 1) BY <2>3, <2>4, <4>1 DEF TableInv
      <4> QED BY <2>1, <4>1, <4>2
    <3> QED BY <2>4, <3>1, <3>2
  <2>6. /\ opened' \in Seq(Slots) /\ Len(opened') = n + 1 /\ opened'[n + 1] = i
        /\ \A j \in 1 .. n : opened'[j] = opened[j]
    BY <2>1, <2>4, AppendProperties
  <2>7. /\ streams'[i] = new /\ \A j \in Slots : j # i => streams'[j] = streams[j]
        /\ streams' \in [Slots -> [cookie : Cookies \cup {NULL},
             io : {"none", "reader", "writer"}, eof : BOOLEAN, error : BOOLEAN]]
    BY <2>1, <2>2, <2>3 DEF TableInv
  <2>8. TableInv'
    <3>1. n + 1 <= MAX_OPEN_STREAMS BY <2>1, <2>5, SlotFacts
    <3>2. \A j \in 1 .. n + 1 : opened'[j] = j
      BY <2>3, <2>4, <2>5, <2>6 DEF TableInv
    <3>3. \A j \in Slots : streams'[j].cookie = NULL <=> j > n + 1
      <4> SUFFICES ASSUME NEW j \in Slots PROVE streams'[j].cookie = NULL <=> j > n + 1
        OBVIOUS
      <4>1. CASE j = i BY <2>2, <2>4, <2>5, <2>7, <4>1
      <4>2. CASE j # i
        <5>1. streams[j].cookie = NULL <=> j > n BY <2>3 DEF TableInv, Vacant
        <5> QED BY <2>4, <2>5, <2>7, <4>2, <5>1, SlotFacts
      <4> QED BY <4>1, <4>2
    <3> QED BY <2>6, <2>7, <3>1, <3>2, <3>3 DEF TableInv, Vacant
  <2> QED BY <2>1, <2>8 DEF Errnos
<1> QED BY <1>2, <1>3

LEMMA FOpenCookieKeeps ==
  ASSUME IInv, NEW cookie \in Cookies, NEW io \in {"reader", "writer"},
         FOpenCookie(cookie, io)
  PROVE  IInv'
<1>1. call = NoCall /\ UNCHANGED <<call, ret>> BY DEF FOpenCookie
<1>2. TableInv' /\ errno' \in Errnos BY FOpenCookieTable DEF IInv
<1> QED BY <1>1, <1>2 DEF IInv, CallInv

LEMMA ClearErrTable ==
  ASSUME TableInv, NEW f \in ToSet(opened), ClearErr(f) PROVE TableInv'
<1>1. f \in Slots BY OpenedIs
<1>2. streams' = [streams EXCEPT ![f].eof = FALSE, ![f].error = FALSE]
      /\ UNCHANGED opened
  BY DEF ClearErr
<1>3. streams' \in [Slots -> [cookie : Cookies \cup {NULL},
           io : {"none", "reader", "writer"}, eof : BOOLEAN, error : BOOLEAN]]
      /\ \A i \in Slots : streams'[i].cookie = streams[i].cookie
  BY <1>1, <1>2, ZenonT(60) DEF TableInv
<1> QED BY <1>2, <1>3, TableKept

LEMMA ClearErrKeeps ==
  ASSUME IInv, NEW f \in ToSet(opened), ClearErr(f) PROVE IInv'
<1>1. call = NoCall /\ UNCHANGED <<errno, call, ret>> BY DEF ClearErr
<1>2. TableInv' BY ClearErrTable DEF IInv
<1> QED BY <1>1, <1>2 DEF IInv, CallInv

LEMMA FReadTable ==
  ASSUME TableInv, NEW f, NEW nbytes \in ReadSizes, FRead(f, nbytes)
  PROVE  TableInv' /\ call = NoCall /\ UNCHANGED call /\ ret' \in Nat /\ errno' \in Errnos
<1>1. /\ call = NoCall /\ UNCHANGED <<opened, call>> /\ f \in ToSet(opened) \cup {NULL}
      /\ ret' \in Nat /\ errno' \in Errnos
      /\ \/ UNCHANGED streams
         \/ f # NULL /\ streams' = [streams EXCEPT ![f].error = TRUE]
         \/ f # NULL /\ \E n \in Int : streams' = [streams EXCEPT ![f].eof = @ \/ n = 0]
  <2>1. nbytes \in Nat BY StdioAssumption
  <2> QED BY <2>1 DEF FRead, Errnos
<1>2. TableInv OBVIOUS
<1>3. streams' \in [Slots -> [cookie : Cookies \cup {NULL},
           io : {"none", "reader", "writer"}, eof : BOOLEAN, error : BOOLEAN]]
      /\ \A i \in Slots : streams'[i].cookie = streams[i].cookie
  <2>1. CASE UNCHANGED streams BY <1>2, <2>1 DEF TableInv
  <2>2. CASE f # NULL /\ streams' = [streams EXCEPT ![f].error = TRUE]
    <3>1. f \in Slots BY <1>1, <1>2, <2>2, OpenedIs
    <3> QED BY <1>2, <2>2, <3>1 DEF TableInv
  <2>3. CASE f # NULL /\ \E n \in Int : streams' = [streams EXCEPT ![f].eof = @ \/ n = 0]
    <3>1. f \in Slots BY <1>1, <1>2, <2>3, OpenedIs
    <3>2. PICK n \in Int : streams' = [streams EXCEPT ![f].eof = @ \/ n = 0] BY <2>3
    <3>3. streams[f].eof \in BOOLEAN BY <1>2, <3>1 DEF TableInv
    <3> DEFINE b == streams[f].eof \/ n = 0
    <3>4. b \in BOOLEAN OBVIOUS
    <3>5. streams' = [streams EXCEPT ![f].eof = b] BY <3>2
    <3> HIDE DEF b
    <3> QED BY <1>2, <3>1, <3>4, <3>5 DEF TableInv
  <2> QED BY <1>1, <2>1, <2>2, <2>3
<1>4. TableInv' BY <1>1, <1>2, <1>3, TableKept
<1> QED BY <1>1, <1>4

LEMMA FReadKeeps ==
  ASSUME IInv, NEW f, NEW nbytes \in ReadSizes, FRead(f, nbytes) PROVE IInv'
<1>1. TableInv' /\ call = NoCall /\ UNCHANGED call /\ ret' \in Nat /\ errno' \in Errnos
  BY FReadTable DEF IInv
<1> QED BY <1>1 DEF IInv, CallInv

(* What is left of a format, and what is left after its next item. *)
LEMMA SuffixTail ==
  ASSUME NEW T, NEW s \in Seq(T), NEW k \in 0 .. Len(s),
         NEW l, l = SubSeq(s, k + 1, Len(s)), l # <<>>
  PROVE  /\ k + 1 \in 0 .. Len(s) /\ k + 1 \in 1 .. Len(s)
         /\ Head(l) = s[k + 1] /\ Tail(l) = SubSeq(s, (k + 1) + 1, Len(s))
<1>1. Len(s) \in Nat OBVIOUS
<1>2. k # Len(s)
  <2>1. k = Len(s) => l = <<>> BY <1>1, SubSeqEmpty
  <2> QED BY <2>1
<1>3. k + 1 \in 1 .. Len(s) /\ Len(s) \in k + 1 .. Len(s) BY <1>1, <1>2
<1> QED BY <1>1, <1>3, HeadTailOfSubSeq

LEMMA WritingOne ==
  ASSUME NEW c PROVE Writing(<<<<c>>>>)
<1>1. <<c>> \in Seq({c}) OBVIOUS
<1>2. IsSequence(<<c>>) BY <1>1, SequenceIs
<1> DEFINE t == <<c>>
<1> HIDE DEF t
<1>3. <<t>> \in Seq({t}) /\ Len(<<t>>) = 1 /\ <<t>>[1] = t OBVIOUS
<1>4. IsSequence(<<t>>) BY <1>3, SequenceIs
<1>5. IsSequence(t) BY <1>2 DEF t
<1>6. Writing(<<t>>) BY <1>3, <1>4, <1>5 DEF Writing
<1> QED BY <1>6 DEF t

(* fputs, then fputc: two texts, neither of them empty. *)
LEMMA WritingLine ==
  ASSUME NEW str, IsSequence(str)
  PROVE  LET todo == << Append(str, NUL), <<"\\n">> >>
         IN  Writing(todo) /\ \A j \in 1 .. Len(todo) : todo[j] # <<>>
<1> DEFINE T == ToSet(str) \cup {NUL}
           a == Append(str, NUL)
           b == <<"\\n">>
<1>1. str \in Seq(ToSet(str)) BY DEF IsSequence
<1>2. str \in Seq(T) /\ NUL \in T BY <1>1, SeqMonotonic
<1>3. a \in Seq(T) /\ a # <<>>
  <2> HIDE DEF T
  <2> QED BY <1>2, AppendProperties
<1>4. b \in Seq({"\\n"}) /\ b # <<>> OBVIOUS
<1>5. IsSequence(a) /\ IsSequence(b) BY <1>3, <1>4, SequenceIs
<1> HIDE DEF a, b
<1> DEFINE todo == <<a, b>>
<1>6. todo \in Seq({a, b}) /\ Len(todo) = 2 /\ todo[1] = a /\ todo[2] = b OBVIOUS
<1>7. IsSequence(todo) BY <1>6, SequenceIs
<1>8. \A j \in 1 .. Len(todo) : j = 1 \/ j = 2 BY <1>6
<1> HIDE DEF todo
<1>9. Writing(todo) /\ \A j \in 1 .. Len(todo) : todo[j] # <<>>
  BY <1>3, <1>4, <1>5, <1>6, <1>7, <1>8 DEF Writing
<1> QED BY <1>9 DEF todo, a, b

LEMMA BeginKeeps ==
  ASSUME IInv, NEW fn \in {"fprintf", "puts"}, NEW stream, NEW items, NEW todo,
         Begin(fn, stream, items, todo), IsSequence(items), Writing(todo),
         fn = "fprintf" => items \in Formats,
         fn = "puts" => items = <<>> /\ \A j \in 1 .. Len(todo) : todo[j] # <<>>
  PROVE  IInv'
<1>1. /\ stream \in ToSet(opened) \cup {NULL} /\ call' = Call(fn, stream, items, todo)
      /\ ret' = 0 /\ UNCHANGED <<streams, errno, opened>>
  BY DEF Begin
<1>2. /\ call'.fn = fn /\ call'.stream = stream /\ call'.items = items
      /\ call'.left = items /\ call'.todo = todo /\ call'.written = 0
      /\ IsCall(call')
  BY <1>1 DEF Call, IsCall
<1>3. 0 \in 0 .. Len(items) /\ items = SubSeq(items, 0 + 1, Len(items))
  <2>1. items \in Seq(ToSet(items)) BY DEF IsSequence
  <2>2. Len(items) \in Nat BY <2>1, LenProperties
  <2>3. items = SubSeq(items, 1, Len(items)) BY <2>1, SubSeqFull
  <2> QED BY <2>2, <2>3
<1>4. TableInv' BY <1>1 DEF IInv, TableInv, Vacant
<1>5. Going(call)' BY <1>1, <1>2, <1>3 DEF Going
<1> QED BY <1>1, <1>2, <1>4, <1>5 DEF IInv, CallInv, IsCall

LEMMA FPrintfKeeps ==
  ASSUME IInv, NEW stream, NEW items \in Formats, FPrintf(stream, items) PROVE IInv'
<1>1. IsSequence(items) BY StdioAssumption
<1>2. Writing(<<>>)
  <2>1. <<>> \in Seq({}) /\ Len(<<>>) = 0 OBVIOUS
  <2>2. IsSequence(<<>>) BY <2>1, SequenceIs
  <2> QED BY <2>1, <2>2 DEF Writing
<1>3. Begin("fprintf", stream, items, <<>>) BY DEF FPrintf
<1> QED BY <1>1, <1>2, <1>3, BeginKeeps

LEMMA PutsKeeps ==
  ASSUME IInv, NEW stream, NEW str \in Strings, Puts(stream, str) PROVE IInv'
<1> DEFINE todo == << Append(str, NUL), <<"\\n">> >>
<1>1. Writing(todo) /\ \A j \in 1 .. Len(todo) : todo[j] # <<>>
  BY StdioAssumption, WritingLine
<1>2. IsSequence(<<>>)
  <2>1. <<>> \in Seq({}) OBVIOUS
  <2> QED BY <2>1, SequenceIs
<1>3. Begin("puts", stream, <<>>, todo) BY DEF Puts
<1> HIDE DEF todo
<1> QED BY <1>1, <1>2, <1>3, BeginKeeps

(* A call that ends, however it does, leaves no call. *)
LEMMA EndKeeps ==
  ASSUME IInv, NEW result \in Nat \cup {EOF}, End(result), TableInv', errno' \in Errnos
  PROVE  IInv'
BY DEF IInv, End, CallInv

LEMMA ReturnKeeps == ASSUME IInv, Return PROVE IInv'
<1>1. call # NoCall /\ End(call.written) /\ UNCHANGED <<streams, errno, opened>>
  BY DEF Return
<1>2. call.written \in Nat BY <1>1 DEF IInv, CallInv, Going
<1>3. TableInv' /\ errno' \in Errnos BY <1>1 DEF IInv, TableInv, Vacant
<1> QED BY <1>1, <1>2, <1>3, EndKeeps

LEMMA NextItemKeeps ==
  ASSUME ConversionsWriteText, IInv, NextItem PROVE IInv'
<1> DEFINE item == Head(call.left)
           afmt == Parse(Spell(item))
           writes == Writes(afmt, item.conv, item.arg)
           Go(todo) == call' = [call EXCEPT !.left = Tail(@), !.todo = todo]
<1>1. /\ call # NoCall /\ call.left # <<>> /\ UNCHANGED <<streams, errno, opened>>
      /\ \/ item.conv = "" /\ Go(<<<<item.arg>>>>) /\ UNCHANGED ret
         \/ /\ item.conv # "" /\ Supported(afmt, item.conv)
            /\ Go(writes) /\ UNCHANGED ret
         \/ End(EOF)
  BY DEF NextItem
<1>2. IsCall(call) /\ Going(call) /\ TableInv BY <1>1 DEF IInv, CallInv
<1>3. TableInv' /\ errno' \in Errnos BY <1>1 DEF IInv, TableInv, Vacant
<1> DEFINE items == call.items
<1>4. PICK k \in 0 .. Len(items) : call.left = SubSeq(items, k + 1, Len(items))
  BY <1>2 DEF Going
<1>5. items \in Seq(ToSet(items)) BY <1>2 DEF Going, IsSequence
<1>6. /\ k + 1 \in 0 .. Len(items) /\ k + 1 \in 1 .. Len(items) /\ item = items[k + 1]
      /\ Tail(call.left) = SubSeq(items, (k + 1) + 1, Len(items))
  BY <1>1, <1>4, <1>5, SuffixTail
<1>7. call.fn = "fprintf" /\ items \in Formats /\ DOMAIN items = 1 .. Len(items)
  BY <1>1, <1>2, <1>5, LenProperties DEF Going
<1>8. ASSUME NEW todo, Go(todo), Writing(todo), UNCHANGED ret PROVE IInv'
  <2>1. /\ call'.fn = call.fn /\ call'.stream = call.stream /\ call'.items = call.items
        /\ call'.left = Tail(call.left) /\ call'.todo = todo /\ call'.written = call.written
        /\ IsCall(call')
    BY <1>2, <1>8 DEF IsCall
  <2>2. Going(call)' BY <1>1, <1>2, <1>6, <1>7, <1>8, <2>1 DEF Going
  <2> QED BY <1>3, <1>8, <2>1, <2>2 DEF IInv, CallInv, IsCall
<1>9. item.conv # "" /\ Supported(afmt, item.conv) => Writing(writes)
  <2> SUFFICES ASSUME item.conv # "", Supported(afmt, item.conv) PROVE Writing(writes)
    OBVIOUS
  <2>1. IsSequence(writes) /\ \A j \in DOMAIN writes : IsSequence(writes[j])
    BY <1>6, <1>7 DEF ConversionsWriteText
  <2> HIDE DEF writes
  <2>2. DOMAIN writes = 1 .. Len(writes) BY <2>1, LenProperties DEF IsSequence
  <2> QED BY <2>1, <2>2 DEF Writing
<1>10. Writing(<<<<item.arg>>>>) BY WritingOne
<1>11. CASE End(EOF) BY <1>3, <1>11, EndKeeps
<1> HIDE DEF writes, afmt, item
<1> QED BY <1>1, <1>8, <1>9, <1>10, <1>11

------------------------------------------------------------------------------
(* fwrite *)

(* What fwrite of the next chunk did: the n bytes it took, errno, the mark *)
(* on the stream, and whether the call goes on.                            *)
Wrote(n) ==
  LET chunk == Head(call.todo)
      f == call.stream
  IN  /\ \/ f = NULL /\ n = 0 /\ errno' = "ENOSTR" /\ UNCHANGED streams
         \/ /\ f # NULL /\ streams[f].io # "writer"
            /\ n = 0 /\ errno' = "EOPNOTSUPP" /\ UNCHANGED streams
         \/ /\ f # NULL /\ streams[f].io = "writer" /\ chunk = <<>>
            /\ n = 0 /\ errno' = "0" /\ UNCHANGED streams
         \/ /\ f # NULL /\ streams[f].io = "writer" /\ chunk # <<>>
            /\ n \in 0 .. Len(chunk) /\ errno' = WriteErrno(n)
            /\ streams' = [streams EXCEPT ![f].error = @ \/ n = 0]
      /\ \/ /\ Accepts(chunk, n)
            /\ call' = [call EXCEPT !.todo = Tail(@), !.written = @ + n,
                                    !.out = @ \o SubSeq(chunk, 1, n)]
            /\ UNCHANGED ret
         \/ ~Accepts(chunk, n) /\ End(EOF)

LEMMA FWriteIs ==
  ASSUME FWrite
  PROVE  /\ call # NoCall /\ call.todo # <<>> /\ UNCHANGED opened
         /\ \E n \in Int : Wrote(n)
<1> DEFINE chunk == Head(call.todo)
           f == call.stream
           Result(n, err) ==
             /\ errno' = err
             /\ \/ /\ Accepts(chunk, n)
                   /\ call' = [call EXCEPT !.todo = Tail(@), !.written = @ + n,
                                           !.out = @ \o SubSeq(chunk, 1, n)]
                   /\ UNCHANGED ret
                \/ ~Accepts(chunk, n) /\ End(EOF)
<1>1. /\ call # NoCall /\ call.todo # <<>> /\ UNCHANGED opened
      /\ \/ f = NULL /\ Result(0, "ENOSTR") /\ UNCHANGED streams
         \/ /\ f # NULL
            /\ IF streams[f].io # "writer"
               THEN Result(0, "EOPNOTSUPP") /\ UNCHANGED streams
               ELSE IF chunk = <<>> THEN Result(0, "0") /\ UNCHANGED streams
               ELSE \E n \in 0 .. Len(chunk) :
                      /\ Result(n, WriteErrno(n))
                      /\ streams' = [streams EXCEPT ![f].error = @ \/ n = 0]
  BY DEF FWrite
<1> HIDE DEF Result
<1>2. CASE f = NULL /\ Result(0, "ENOSTR") /\ UNCHANGED streams
  <2>1. Wrote(0) BY <1>2, Zenon DEF Result, Wrote
  <2> QED BY <1>1, <2>1
<1>3. CASE f # NULL /\ streams[f].io # "writer" /\ Result(0, "EOPNOTSUPP")
           /\ UNCHANGED streams
  <2>1. Wrote(0) BY <1>3, Zenon DEF Result, Wrote
  <2> QED BY <1>1, <2>1
<1>4. CASE f # NULL /\ streams[f].io = "writer" /\ chunk = <<>> /\ Result(0, "0")
           /\ UNCHANGED streams
  <2>1. Wrote(0) BY <1>4, Zenon DEF Result, Wrote
  <2> QED BY <1>1, <2>1
<1>5. CASE /\ f # NULL /\ streams[f].io = "writer" /\ chunk # <<>>
           /\ \E n \in 0 .. Len(chunk) :
                /\ Result(n, WriteErrno(n))
                /\ streams' = [streams EXCEPT ![f].error = @ \/ n = 0]
  <2>1. PICK n \in 0 .. Len(chunk) :
                /\ Result(n, WriteErrno(n))
                /\ streams' = [streams EXCEPT ![f].error = @ \/ n = 0]
    BY <1>5
  <2>2. Wrote(n) BY <1>5, <2>1, Zenon DEF Result, Wrote
  <2>3. n \in Int OBVIOUS
  <2> QED BY <1>1, <2>2, <2>3
<1> QED BY <1>1, <1>2, <1>3, <1>4, <1>5

(* The mark fwrite leaves on a stream. *)
LEMMA WroteMarks ==
  ASSUME TableInv, call.stream \in ToSet(opened) \cup {NULL},
         NEW n \in Int, Wrote(n), UNCHANGED opened
  PROVE  /\ TableInv' /\ errno' \in Errnos
         /\ \A i \in Slots : streams'[i].io = streams[i].io
         /\ errno' = "EIO" => streams'[call.stream].error
<1> DEFINE f == call.stream
<1>1. f \in Slots \cup {NULL} BY OpenedIs
<1>2. CASE UNCHANGED streams /\ errno' \in {"ENOSTR", "EOPNOTSUPP", "0"}
  <2>1. TableInv' BY <1>2 DEF TableInv, Vacant
  <2> QED BY <1>2, <2>1 DEF Errnos
<1>3. CASE /\ f # NULL /\ errno' = WriteErrno(n)
           /\ streams' = [streams EXCEPT ![f].error = @ \/ n = 0]
  <2> DEFINE b == streams[f].error \/ n = 0
  <2>1. f \in Slots BY <1>1, <1>3
  <2>2. b \in BOOLEAN OBVIOUS
  <2>3. streams' = [streams EXCEPT ![f].error = b] BY <1>3
  <2>4. errno' \in Errnos /\ (errno' = "EIO" => n = 0) BY <1>3 DEF WriteErrno, Errnos
  <2>5. n = 0 => b OBVIOUS
  <2> HIDE DEF b
  <2>6. streams' \in [Slots -> [cookie : Cookies \cup {NULL},
           io : {"none", "reader", "writer"}, eof : BOOLEAN, error : BOOLEAN]]
        /\ \A i \in Slots : streams'[i].cookie = streams[i].cookie
    BY <2>1, <2>2, <2>3 DEF TableInv
  <2>7. TableInv' BY <2>6, TableKept
  <2>8. streams'[f].error = b /\ \A i \in Slots : streams'[i].io = streams[i].io
    BY <2>1, <2>2, <2>3 DEF TableInv
  <2> QED BY <2>1, <2>4, <2>5, <2>7, <2>8
<1> QED BY <1>2, <1>3, Zenon DEF Wrote

(* It takes no more than there is. *)
LEMMA WroteSome ==
  ASSUME Going(call), call.todo # <<>>, NEW n \in Int, Wrote(n) PROVE n \in Nat
<1> DEFINE chunk == Head(call.todo)
<1>1. n = 0 \/ n \in 0 .. Len(chunk) BY DEF Wrote
<1>2. IsSequence(chunk) BY WritingTail DEF Going
<1> HIDE DEF chunk
<1>3. Len(chunk) \in Nat
  <2>1. chunk \in Seq(ToSet(chunk)) BY <1>2 DEF IsSequence
  <2> QED BY <2>1, LenProperties
<1> QED BY <1>1, <1>3

LEMMA FWriteKeeps == ASSUME IInv, FWrite PROVE IInv'
<1> DEFINE f == call.stream
           chunk == Head(call.todo)
<1>1. PICK n \in Int : Wrote(n) BY FWriteIs
<1>2. call # NoCall /\ call.todo # <<>> /\ UNCHANGED opened BY FWriteIs
<1>3. IsCall(call) /\ Going(call) /\ TableInv BY <1>2 DEF IInv, CallInv
<1>4. /\ TableInv' /\ errno' \in Errnos /\ n \in Nat
      /\ \A i \in Slots : streams'[i].io = streams[i].io
  BY <1>1, <1>2, <1>3, WroteMarks, WroteSome DEF Going
<1>5. CASE End(EOF) BY <1>4, <1>5, EndKeeps
<1>6. CASE /\ Accepts(chunk, n)
           /\ call' = [call EXCEPT !.todo = Tail(@), !.written = @ + n,
                                   !.out = @ \o SubSeq(chunk, 1, n)]
           /\ UNCHANGED ret
  <2>1. /\ call'.fn = call.fn /\ call'.stream = f /\ call'.items = call.items
        /\ call'.left = call.left /\ call'.todo = Tail(call.todo)
        /\ call'.written = call.written + n /\ IsCall(call')
    BY <1>3, <1>6 DEF IsCall
  <2>2. /\ Writing(Tail(call.todo)) /\ IsSequence(chunk) /\ 1 \in 1 .. Len(call.todo)
        /\ chunk = call.todo[1] /\ Len(Tail(call.todo)) = Len(call.todo) - 1
        /\ \A j \in 1 .. Len(call.todo) - 1 :
             Tail(call.todo)[j] = call.todo[j + 1] /\ j + 1 \in 1 .. Len(call.todo)
    BY <1>2, <1>3, WritingTail DEF Going
  <2>3. call.fn = "puts" =>
          call.left = <<>> /\ \A j \in 1 .. Len(Tail(call.todo)) : Tail(call.todo)[j] # <<>>
    BY <1>3, <2>2 DEF Going
  <2>4. call.written \in Nat /\ call.written + n \in Nat BY <1>3, <1>4 DEF Going
  <2>5. call.written + n > 0 =>
          errno' = "0" /\ f # NULL /\ streams'[f].io = "writer"
    <3>1. f # NULL => f \in Slots BY <1>3, OpenedIs DEF Going
    <3>2. CASE n = 0 /\ call.written > 0
      <4>1. f # NULL /\ streams[f].io = "writer" BY <1>3, <3>2 DEF Going
      <4>2. chunk = <<>>
        <5>1. call.fn = "fprintf" BY <1>3, <1>6, <3>2 DEF Accepts, Going
        <5>2. Len(chunk) = 0 BY <1>6, <3>2, <5>1 DEF Accepts
        <5>3. chunk \in Seq(ToSet(chunk)) BY <2>2 DEF IsSequence
        <5> HIDE DEF chunk
        <5> QED BY <5>2, <5>3, EmptySeq
      <4>3. errno' = "0" BY <1>1, <4>1, <4>2 DEF Wrote
      <4> QED BY <1>4, <3>1, <4>1, <4>3
    <3>3. CASE n > 0
      <4>1. f # NULL /\ streams[f].io = "writer" /\ errno' = WriteErrno(n)
        BY <1>1, <3>3 DEF Wrote
      <4>2. errno' = "0" BY <3>3, <4>1 DEF WriteErrno
      <4> QED BY <1>4, <3>1, <4>1, <4>2
    <3> QED BY <1>4, <2>4, <3>2, <3>3
  <2>6. Going(call)' BY <1>2, <1>3, <2>1, <2>2, <2>3, <2>4, <2>5 DEF Going
  <2> QED BY <1>4, <1>6, <2>1, <2>6 DEF IInv, CallInv, IsCall
<1> QED BY <1>1, <1>5, <1>6, Zenon DEF Wrote

------------------------------------------------------------------------------
(* Theorems *)

LEMMA InitKeeps == Init => IInv
<1> SUFFICES ASSUME Init PROVE IInv OBVIOUS
<1>1. /\ streams = [i \in Slots |-> Free] /\ errno = "0" /\ opened = <<>>
      /\ call = NoCall /\ ret = 0
  BY DEF Init
<1>2. opened \in Seq(Slots) /\ Len(opened) = 0 BY <1>1
<1>3. \A i \in Slots : streams[i].cookie = NULL /\ i > 0 BY <1>1, SlotFacts DEF Free
<1>4. TableInv BY <1>1, <1>2, <1>3, SlotFacts DEF TableInv, Vacant, Free
<1> QED BY <1>1, <1>4 DEF IInv, CallInv, Errnos

LEMMA StepKeeps ==
  ASSUME ConversionsWriteText PROVE IInv /\ [Next]_vars => IInv'
<1> SUFFICES ASSUME IInv, [Next]_vars PROVE IInv' OBVIOUS
<1>1. CASE \E cookie \in Cookies, io \in {"reader", "writer"} : FOpenCookie(cookie, io)
  BY <1>1, FOpenCookieKeeps
<1>2. CASE \E f \in ToSet(opened) : ClearErr(f) BY <1>2, ClearErrKeeps
<1>3. CASE \E f \in Slots \cup {NULL}, n \in ReadSizes : FRead(f, n) BY <1>3, FReadKeeps
<1>4. CASE \E f \in Slots \cup {NULL}, items \in Formats : FPrintf(f, items)
  BY <1>4, FPrintfKeeps
<1>5. CASE \E f \in Slots \cup {NULL}, str \in Strings : Puts(f, str)
  BY <1>5, PutsKeeps
<1>6. CASE NextItem BY <1>6, NextItemKeeps
<1>7. CASE FWrite BY <1>7, FWriteKeeps
<1>8. CASE Return BY <1>8, ReturnKeeps
<1>9. CASE UNCHANGED vars
  BY <1>9 DEF IInv, TableInv, Vacant, CallInv, IsCall, Going, vars
<1> QED BY <1>1, <1>2, <1>3, <1>4, <1>5, <1>6, <1>7, <1>8, <1>9 DEF Next

(* The invariant of vfprintf.c and stdio.c: the table is filled in order,  *)
(* and a call that has printed has a writer and a clear errno.             *)
THEOREM Invariant ==
  ASSUME ConversionsWriteText PROVE Spec => []IInv
<1>1. IInv /\ [Next]_vars => IInv' BY StepKeeps
<1> QED BY InitKeeps, <1>1, PTL DEF Spec

LEMMA InvariantGives == IInv => TypeOK
<1> SUFFICES ASSUME IInv PROVE TypeOK OBVIOUS
<1>1. TableInv BY DEF IInv
<1>2. call # NoCall =>
        /\ call.fn \in {"fprintf", "puts"} /\ call.stream \in Slots \cup {NULL}
        /\ \E k \in 0 .. Len(call.items) :
             call.left = SubSeq(call.items, k + 1, Len(call.items))
        /\ call.written \in Nat
  BY <1>1, OpenedIs DEF IInv, CallInv, Going
<1> QED BY <1>1, <1>2 DEF IInv, TableInv, Errnos, TypeOK

(* The state has its types: the table gives out no more streams than it    *)
(* has, and a call prints its own format, from the front.                  *)
THEOREM TypeCorrect ==
  ASSUME ConversionsWriteText PROVE Spec => []TypeOK
BY Invariant, InvariantGives, PTL

(* The table needs less: that a call has a stream that is open. *)
StreamsInv ==
  TableInv /\ (call # NoCall =>
                 IsCall(call) /\ call.stream \in ToSet(opened) \cup {NULL})

LEMMA BeginStreams ==
  ASSUME StreamsInv, NEW fn, NEW stream, NEW items, NEW todo,
         Begin(fn, stream, items, todo)
  PROVE  StreamsInv'
<1>1. /\ stream \in ToSet(opened) \cup {NULL} /\ call' = Call(fn, stream, items, todo)
      /\ UNCHANGED <<streams, opened>>
  BY DEF Begin
<1>2. IsCall(call') /\ call'.stream = stream BY <1>1 DEF Call, IsCall
<1>3. TableInv' BY <1>1 DEF StreamsInv, TableInv, Vacant
<1> QED BY <1>1, <1>2, <1>3 DEF StreamsInv, IsCall

LEMMA StepStreams == StreamsInv /\ [Next]_vars => StreamsInv'
<1> SUFFICES ASSUME StreamsInv, [Next]_vars PROVE StreamsInv' OBVIOUS
<1>1. CASE \E cookie \in Cookies, io \in {"reader", "writer"} : FOpenCookie(cookie, io)
  <2>1. PICK cookie \in Cookies, io \in {"reader", "writer"} : FOpenCookie(cookie, io)
    BY <1>1
  <2>2. TableInv' BY <2>1, FOpenCookieTable DEF StreamsInv
  <2> QED BY <2>1, <2>2 DEF StreamsInv, FOpenCookie
<1>2. CASE \E f \in ToSet(opened) : ClearErr(f)
  <2>1. PICK f \in ToSet(opened) : ClearErr(f) BY <1>2
  <2>2. TableInv' BY <2>1, ClearErrTable DEF StreamsInv
  <2> QED BY <2>1, <2>2 DEF StreamsInv, ClearErr
<1>3. CASE \E f \in Slots \cup {NULL}, n \in ReadSizes : FRead(f, n)
  <2>1. PICK f \in Slots \cup {NULL}, n \in ReadSizes : FRead(f, n) BY <1>3
  <2>2. TableInv' /\ call = NoCall /\ UNCHANGED call
    BY <2>1, FReadTable DEF StreamsInv
  <2> QED BY <2>2 DEF StreamsInv
<1>4. CASE \E f \in Slots \cup {NULL}, items \in Formats : FPrintf(f, items)
  BY <1>4, BeginStreams DEF FPrintf
<1>5. CASE \E f \in Slots \cup {NULL}, str \in Strings : Puts(f, str)
  BY <1>5, BeginStreams DEF Puts
<1>6. CASE NextItem
  <2>1. call # NoCall /\ UNCHANGED <<streams, opened>> BY <1>6 DEF NextItem
  <2>2. TableInv' BY <2>1 DEF StreamsInv, TableInv, Vacant
  <2>3. \/ End(EOF)
        \/ \E left, todo : call' = [call EXCEPT !.left = left, !.todo = todo]
    BY <1>6 DEF NextItem
  <2>4. CASE End(EOF) BY <2>1, <2>2, <2>4 DEF StreamsInv, End
  <2>5. ASSUME NEW left, NEW todo, call' = [call EXCEPT !.left = left, !.todo = todo]
        PROVE  StreamsInv'
    <3>1. IsCall(call') /\ call'.stream = call.stream
      BY <2>1, <2>5 DEF StreamsInv, IsCall
    <3> QED BY <2>1, <2>2, <3>1 DEF StreamsInv, IsCall
  <2> QED BY <2>3, <2>4, <2>5
<1>7. CASE FWrite
  <2>1. PICK n \in Int : Wrote(n) BY <1>7, FWriteIs
  <2>2. call # NoCall /\ UNCHANGED opened BY <1>7, FWriteIs
  <2>3. TableInv' BY <2>1, <2>2, WroteMarks DEF StreamsInv
  <2>4. \/ End(EOF)
        \/ \E todo, written, out :
             call' = [call EXCEPT !.todo = todo, !.written = written, !.out = out]
    <3>1. \/ End(EOF)
          \/ call' = [call EXCEPT !.todo = Tail(call.todo),
                                  !.written = call.written + n,
                                  !.out = call.out \o SubSeq(Head(call.todo), 1, n)]
      BY <2>1, Zenon DEF Wrote
    <3> QED BY <3>1
  <2>5. CASE End(EOF) BY <2>2, <2>3, <2>5 DEF StreamsInv, End
  <2>6. ASSUME NEW todo, NEW written, NEW out,
               call' = [call EXCEPT !.todo = todo, !.written = written, !.out = out]
        PROVE  StreamsInv'
    <3>1. IsCall(call') /\ call'.stream = call.stream
      BY <2>2, <2>6 DEF StreamsInv, IsCall
    <3> QED BY <2>2, <2>3, <3>1 DEF StreamsInv, IsCall
  <2> QED BY <2>4, <2>5, <2>6
<1>8. CASE Return
  <2>1. call' = NoCall /\ UNCHANGED <<streams, opened>> BY <1>8 DEF Return, End
  <2> QED BY <2>1 DEF StreamsInv, TableInv, Vacant
<1>9. CASE UNCHANGED vars
  BY <1>9 DEF StreamsInv, TableInv, Vacant, IsCall, vars
<1> QED BY <1>1, <1>2, <1>3, <1>4, <1>5, <1>6, <1>7, <1>8, <1>9 DEF Next

(* fopencookie never gives out a stream twice, and no call of stdio.c      *)
(* vacates its slot, whatever conversions write.                           *)
THEOREM StreamsStayKept == Spec => []StreamsKept
<1>1. Init => StreamsInv
  <2>1. Init => IInv BY InitKeeps
  <2> QED BY <2>1 DEF Init, IInv, StreamsInv
<1>2. StreamsInv => StreamsKept
  <2> SUFFICES ASSUME TableInv PROVE StreamsKept BY DEF StreamsInv
  <2>1. DOMAIN opened = 1 .. Len(opened) BY SequenceIs DEF TableInv
  <2>2. IsInjective(opened) BY <2>1 DEF TableInv, IsInjective
  <2>3. \A f \in ToSet(opened) : ~Vacant(f) BY OpenedIs
  <2> QED BY <2>2, <2>3 DEF StreamsKept
<1> QED BY <1>1, <1>2, StepStreams, PTL DEF Spec

LEMMA WroteReports ==
  ASSUME IInv, FWrite, call' = NoCall
  PROVE  /\ ret' > 0 => errno' = "0"
         /\ ret' = EOF /\ errno' = "0" => call.todo = <<>> \/ Untraced(Head(call.todo))
         /\ errno' = "EIO" => streams'[call.stream].error
<1> DEFINE f == call.stream
           chunk == Head(call.todo)
<1>1. PICK n \in Int : Wrote(n) BY FWriteIs
<1>2. call # NoCall /\ call.todo # <<>> /\ UNCHANGED opened BY FWriteIs
<1>3. IsCall(call) /\ Going(call) BY <1>2 DEF IInv, CallInv
<1>4. n \in Nat /\ (errno' = "EIO" => streams'[call.stream].error)
  BY <1>1, <1>2, <1>3, WroteMarks, WroteSome DEF IInv, Going
<1>5. ~Accepts(chunk, n) /\ ret' = EOF
  <2>1. CASE ~Accepts(chunk, n) /\ End(EOF) BY <2>1 DEF End
  <2>2. CASE call' = [call EXCEPT !.todo = Tail(@), !.written = @ + n,
                                  !.out = @ \o SubSeq(chunk, 1, n)]
    <3>1. call'.fn = call.fn /\ IsCall(call') BY <1>3, <2>2 DEF IsCall
    <3>2. DOMAIN NoCall = {"fn"} BY DEF NoCall
    <3>3. "todo" \in DOMAIN call' BY <1>3, <2>2 DEF IsCall
    <3> QED BY <1>2, <3>2, <3>3
  <2> QED BY <1>1, <2>1, <2>2, Zenon DEF Wrote
<1>6. IsSequence(chunk) /\ Len(chunk) \in Nat /\ (chunk = <<>> <=> Len(chunk) = 0)
      /\ (call.fn = "puts" => chunk # <<>>)
  <2>1. IsSequence(chunk) /\ 1 \in 1 .. Len(call.todo) /\ chunk = call.todo[1]
    BY <1>2, <1>3, WritingTail DEF Going
  <2>2. call.fn = "puts" => chunk # <<>> BY <1>3, <2>1 DEF Going
  <2> HIDE DEF chunk
  <2>3. chunk \in Seq(ToSet(chunk)) BY <2>1 DEF IsSequence
  <2> QED BY <2>1, <2>2, <2>3, SequenceIs
<1>7. errno' = "0" => Untraced(chunk)
  <2> SUFFICES ASSUME errno' = "0" PROVE Untraced(chunk) OBVIOUS
  <2>1. call.fn = "puts" \/ call.fn = "fprintf" BY <1>3 DEF Going
  <2>2. CASE n = 0
    <3>1. chunk = <<>> BY <1>1, <2>2, Zenon DEF Wrote, WriteErrno
    <3>2. call.fn = "fprintf" /\ Len(chunk) = 0 BY <1>6, <2>1, <3>1
    <3>3. chunk = <<EOF_CHAR>> BY <1>5, <2>2, <3>2 DEF Accepts
    <3> QED BY <3>3 DEF Untraced
  <2>3. CASE n # 0
    <3>1. n \in 0 .. Len(chunk) BY <1>1, <2>3 DEF Wrote
    <3>2. call.fn = "fprintf" BY <1>4, <1>5, <2>1, <2>3 DEF Accepts
    <3>3. n = Len(chunk) => chunk = <<EOF_CHAR>> BY <1>5, <3>2 DEF Accepts
    <3>4. n < Len(chunk) => Len(chunk) > 1 BY <1>4, <1>6, <2>3
    <3> QED BY <1>4, <1>6, <3>1, <3>3, <3>4 DEF Untraced
  <2> QED BY <2>2, <2>3
<1> QED BY <1>4, <1>5, <1>7 DEF EOF

Reports ==
  call # NoCall /\ call' = NoCall =>
    /\ ret' > 0 => errno' = "0"
    /\ ret' = EOF /\ errno' = "0" => call.todo = <<>> \/ Untraced(Head(call.todo))
    /\ call.todo # <<>> /\ errno' = "EIO" => streams'[call.stream].error

LEMMA StepReports == IInv /\ [Next]_vars => Reports \/ UNCHANGED vars
<1> SUFFICES ASSUME IInv, Next, call # NoCall, call' = NoCall
             PROVE  /\ ret' > 0 => errno' = "0"
                    /\ ret' = EOF /\ errno' = "0" =>
                         call.todo = <<>> \/ Untraced(Head(call.todo))
                    /\ call.todo # <<>> /\ errno' = "EIO" =>
                         streams'[call.stream].error
  BY DEF Reports
<1>1. FWrite \/ NextItem \/ Return
  BY DEF Next, FOpenCookie, ClearErr, FRead, FPrintf, Puts, Begin
<1>2. CASE FWrite BY <1>2, WroteReports
<1>3. CASE NextItem
  <2>1. call.todo = <<>> BY <1>3 DEF NextItem
  <2>2. End(EOF)
    <3>1. IsCall(call) BY DEF IInv, CallInv
    <3>2. ASSUME NEW left, NEW todo, call' = [call EXCEPT !.left = left, !.todo = todo]
          PROVE FALSE
      <4>1. DOMAIN NoCall = {"fn"} BY DEF NoCall
      <4>2. "todo" \in DOMAIN call' BY <3>1, <3>2 DEF IsCall
      <4> QED BY <4>1, <4>2
    <3> QED BY <1>3, <3>2 DEF NextItem
  <2> QED BY <2>1, <2>2 DEF End, EOF
<1>4. CASE Return
  <2>1. call.todo = <<>> /\ ret' = call.written /\ UNCHANGED errno
    BY <1>4 DEF Return, End
  <2>2. call.written \in Nat /\ (call.written > 0 => errno = "0")
    BY DEF IInv, CallInv, Going
  <2> QED BY <2>1, <2>2 DEF EOF
<1> QED BY <1>1, <1>2, <1>3, <1>4

(* A call that returns EOF after a failed write has said why in errno and, *)
(* when the writer failed, on the stream; one that printed has a clear     *)
(* errno.                                                                  *)
THEOREM FailuresAreReported ==
  ASSUME ConversionsWriteText PROVE Spec => FailureReported
<1>1. IInv /\ [Next]_vars =>
        [call # NoCall /\ call' = NoCall =>
           /\ ret' > 0 => errno' = "0"
           /\ ret' = EOF /\ errno' = "0" => call.todo = <<>> \/ Untraced(Head(call.todo))
           /\ call.todo # <<>> /\ errno' = "EIO" => streams'[call.stream].error]_vars
  BY StepReports DEF Reports
<1> QED BY Invariant, <1>1, PTL DEF Spec, FailureReported
==============================================================================
