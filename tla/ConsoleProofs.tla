---------------------------- MODULE ConsoleProofs ----------------------------
(***************************************************************************)
(* The console, proved for every number of ports, depth of the FIFOs,      *)
(* text, size of font and screen, and behaviour of the peers.              *)
(*                                                                         *)
(* First the serial ports: the port accesses of serial_detect one by one   *)
(* and what the chip must look like before each, then one lemma for each   *)
(* step of Serial.                                                         *)
(*                                                                         *)
(* Then the screen: how far characters are drawn outside of it, that what  *)
(* was printed shows there as far as it lies on the screen, and that the   *)
(* ports of the console behave as those of Serial.                         *)
(***************************************************************************)
EXTENDS Console, SequenceTheorems, TLAPS

------------------------------------------------------------------------------
(* The FIFOs *)

AllIn(s, S) == \A j \in 1 .. Len(s) : s[j] \in S

LEMMA AllInIs ==
  ASSUME NEW T, NEW s \in Seq(T), NEW S
  PROVE  ToSet(s) \subseteq S <=> AllIn(s, S)
<1>1. DOMAIN s = 1 .. Len(s) OBVIOUS
<1>2. \A x : x \in ToSet(s) <=> \E j \in 1 .. Len(s) : x = s[j] BY <1>1 DEF ToSet
<1> QED BY <1>2 DEF AllIn

LEMMA EmptyFifo == <<>> \in Seq(Byte) /\ Len(<<>>) = 0 /\ \A S : AllIn(<<>>, S)
BY DEF AllIn

LEMMA AppendOne ==
  ASSUME NEW T, NEW f \in Seq(T), NEW byte \in T, f = <<>>
  PROVE  Append(f, byte) = <<byte>>
OBVIOUS

LEMMA FifoTakes ==
  ASSUME NEW T, NEW f \in Seq(T), NEW byte \in T, Len(f) <= DEPTH
  PROVE  /\ InFifo(f, byte) \in Seq(T) /\ Len(InFifo(f, byte)) <= DEPTH
         /\ \A S : AllIn(f, S) => /\ byte \in S => AllIn(InFifo(f, byte), S)
                                  /\ \A j \in 1 .. Len(InFifo(f, byte)) - 1 :
                                       InFifo(f, byte)[j] \in S
         /\ f = <<>> => InFifo(f, byte) = <<byte>>
<1>1. CASE Len(f) < DEPTH
  <2> DEFINE g == Append(f, byte)
  <2>1. InFifo(f, byte) = g BY <1>1 DEF InFifo
  <2>2. /\ g \in Seq(T) /\ Len(g) = Len(f) + 1 /\ g[Len(f) + 1] = byte
        /\ \A j \in 1 .. Len(f) : g[j] = f[j]
    BY AppendProperties
  <2>4. f = <<>> => g = <<byte>> BY AppendOne
  <2>3. Len(f) \in Nat /\ DEPTH \in Nat BY PortAssumption
  <2> HIDE DEF g
  <2>5. ASSUME NEW S, AllIn(f, S)
        PROVE  /\ byte \in S => AllIn(g, S)
               /\ \A j \in 1 .. Len(g) - 1 : g[j] \in S
    <3>1. \A j \in 1 .. Len(f) : g[j] \in S BY <2>2, <2>5 DEF AllIn
    <3>2. \A j \in 1 .. Len(g) - 1 : g[j] \in S BY <2>2, <2>3, <3>1
    <3>3. ASSUME byte \in S, NEW j \in 1 .. Len(g) PROVE g[j] \in S
      <4>1. CASE j = Len(f) + 1 BY <2>2, <3>3, <4>1
      <4>2. CASE j \in 1 .. Len(f) BY <3>1, <4>2
      <4> QED BY <2>2, <2>3, <4>1, <4>2
    <3> QED BY <3>2, <3>3 DEF AllIn
  <2>6. g \in Seq(T) /\ Len(g) <= DEPTH BY <1>1, <2>2, <2>3
  <2> QED BY <2>1, <2>4, <2>5, <2>6
<1>2. CASE ~(Len(f) < DEPTH)
  <2>1. InFifo(f, byte) = f BY <1>2 DEF InFifo
  <2>2. f # <<>> BY <1>2, PortAssumption
  <2>3. ASSUME NEW S, AllIn(f, S)
        PROVE  \A j \in 1 .. Len(f) - 1 : f[j] \in S
    <3>1. Len(f) \in Nat OBVIOUS
    <3> QED BY <2>3, <3>1 DEF AllIn
  <2>4. ASSUME NEW S, AllIn(f, S), byte \in S PROVE AllIn(f, S) BY <2>4
  <2>5. \A S : AllIn(f, S) => \A j \in 1 .. Len(f) - 1 : f[j] \in S BY <2>3
  <2> QED BY <1>2, <2>1, <2>2, <2>4, <2>5
<1> QED BY <1>1, <1>2

LEMMA FifoGives ==
  ASSUME NEW T, NEW f \in Seq(T), f # <<>>
  PROVE  /\ Head(f) \in T /\ Head(f) = f[1]
         /\ Tail(f) \in Seq(T) /\ Len(Tail(f)) = Len(f) - 1
         /\ Len(f) \in Nat \ {0}
         /\ \A j \in 1 .. Len(f) - 1 : Tail(f)[j] = f[j + 1]
         /\ \A S : AllIn(f, S) => Head(f) \in S /\ AllIn(Tail(f), S)
<1>1. /\ Head(f) \in T /\ Head(f) = f[1]
      /\ Tail(f) \in Seq(T) /\ Len(Tail(f)) = Len(f) - 1
      /\ Len(f) \in Nat \ {0}
      /\ \A j \in 1 .. Len(f) - 1 : Tail(f)[j] = f[j + 1]
  OBVIOUS
<1> DEFINE t == Tail(f)  h == Head(f)
<1>2. ASSUME NEW S, AllIn(f, S) PROVE h \in S /\ AllIn(t, S)
  <2> HIDE DEF t
  <2>1. 1 \in 1 .. Len(f) /\ \A j \in 1 .. Len(f) - 1 : j + 1 \in 1 .. Len(f)
    BY <1>1
  <2>2. Len(t) = Len(f) - 1 /\ \A j \in 1 .. Len(f) - 1 : t[j] = f[j + 1]
    BY <1>1 DEF t
  <2> QED BY <1>1, <1>2, <2>1, <2>2 DEF AllIn
<1> QED BY <1>1, <1>2

------------------------------------------------------------------------------
(* What a line carries: some of the bytes printed, in their order *)

(* f gives each element of s its place in t. *)
Places(f, s, t) ==
  /\ \A i \in 1 .. Len(s) : f[i] \in 1 .. Len(t) /\ s[i] = t[f[i]]
  /\ \A i, j \in 1 .. Len(s) : i < j => f[i] < f[j]

Subsequence(s, t) == \E f : Places(f, s, t)

LEMMA EmptySubsequence == ASSUME NEW t PROVE Subsequence(<<>>, t)
<1>1. Places(<<>>, <<>>, t) BY DEF Places
<1> QED BY <1>1 DEF Subsequence

LEMMA SubsequenceInOrder ==
  ASSUME NEW T, NEW s \in Seq(T), NEW t \in Seq(T), Subsequence(s, t)
  PROVE  InOrder(s, t)
<1> DEFINE m == Len(s)  n == Len(t)
<1>1. PICK f : Places(f, s, t) BY DEF Subsequence
<1>2. m \in Nat /\ n \in Nat OBVIOUS
<1>3. /\ \A i \in 1 .. m : f[i] \in 1 .. n /\ t[f[i]] = s[i]
      /\ \A i, j \in 1 .. m : i < j => f[i] < f[j]
  BY <1>1 DEF Places
<1>4. InOrder(s, t) <=>
        /\ \A i \in 1 .. m : \E k \in 1 .. n : t[k] = s[i]
        /\ \A i \in 1 .. m : \A j \in i + 1 .. m :
             \E k \in 1 .. n : t[k] = s[i] /\ \E l \in k + 1 .. n : t[l] = s[j]
  BY DEF InOrder
<1> HIDE DEF m, n
<1>5. ASSUME NEW i \in 1 .. m, NEW j \in i + 1 .. m
      PROVE  \E k \in 1 .. n : t[k] = s[i] /\ \E l \in k + 1 .. n : t[l] = s[j]
  <2>1. j \in 1 .. m /\ i < j BY <1>2
  <2>2. f[i] \in 1 .. n /\ f[j] \in 1 .. n /\ f[i] < f[j] BY <1>3, <2>1
  <2>3. f[j] \in f[i] + 1 .. n BY <1>2, <2>2
  <2> QED BY <1>3, <2>1, <2>2, <2>3
<1> QED BY <1>3, <1>4, <1>5

LEMMA SubsequencePrefix ==
  ASSUME NEW T, NEW s \in Seq(T), NEW r \in Seq(T), NEW t, Subsequence(s \o r, t)
  PROVE  Subsequence(s, t)
<1> DEFINE c == s \o r
<1>1. PICK f : Places(f, c, t) BY DEF Subsequence
<1>2. /\ Len(c) = Len(s) + Len(r) /\ Len(s) \in Nat /\ Len(r) \in Nat
      /\ \A i \in 1 .. Len(s) : c[i] = s[i]
  BY ConcatProperties
<1> HIDE DEF c
<1>3. \A i \in 1 .. Len(s) : i \in 1 .. Len(c) BY <1>2
<1>4. Places(f, s, t) BY <1>1, <1>2, <1>3 DEF Places
<1> QED BY <1>4 DEF Subsequence

LEMMA SubsequenceOfMore ==
  ASSUME NEW T, NEW s \in Seq(T), NEW t \in Seq(T), NEW x \in T, Subsequence(s, t)
  PROVE  Subsequence(s, Append(t, x)) /\ Subsequence(Append(s, x), Append(t, x))
<1> DEFINE a == Append(s, x)  b == Append(t, x)
<1>1. PICK f : Places(f, s, t) BY DEF Subsequence
<1>2. /\ Len(a) = Len(s) + 1 /\ a[Len(s) + 1] = x /\ Len(s) \in Nat
      /\ \A i \in 1 .. Len(s) : a[i] = s[i]
  BY AppendProperties
<1>3. /\ Len(b) = Len(t) + 1 /\ b[Len(t) + 1] = x /\ Len(t) \in Nat
      /\ \A i \in 1 .. Len(t) : b[i] = t[i]
  BY AppendProperties
<1> HIDE DEF a, b
<1>4. Places(f, s, b)
  <2>1. \A n \in 1 .. Len(t) : n \in 1 .. Len(b) BY <1>3
  <2> QED BY <1>1, <1>3, <2>1 DEF Places
<1> DEFINE m == Len(s)  n == Len(t)
           g == [i \in 1 .. m + 1 |-> IF i = m + 1 THEN n + 1 ELSE f[i]]
<1>5. /\ g[m + 1] = n + 1 /\ \A i \in 1 .. m : g[i] = f[i] /\ g[i] \in 1 .. n
      /\ \A i, j \in 1 .. m : i < j => g[i] < g[j]
  <2>1. \A i \in 1 .. m : f[i] \in 1 .. n BY <1>1 DEF Places
  <2>2. \A i, j \in 1 .. m : i < j => f[i] < f[j] BY <1>1 DEF Places
  <2>3. m \in Nat /\ n \in Nat BY <1>2, <1>3
  <2> HIDE DEF m, n
  <2>4. g[m + 1] = n + 1 /\ \A i \in 1 .. m : g[i] = f[i] BY <2>3
  <2> HIDE DEF g
  <2> QED BY <2>1, <2>2, <2>4
<1>6. \A i \in 1 .. m : s[i] = t[g[i]] BY <1>1, <1>5 DEF Places
<1>7. Places(g, a, b)
  <2>1. m \in Nat /\ n \in Nat /\ Len(a) = m + 1 /\ Len(b) = n + 1
    BY <1>2, <1>3
  <2>2. a[m + 1] = x /\ b[n + 1] = x /\ \A i \in 1 .. m : a[i] = s[i]
    BY <1>2, <1>3
  <2>3. \A i \in 1 .. n : b[i] = t[i] BY <1>3
  <2> HIDE DEF m, n, g
  <2>4. ASSUME NEW i \in 1 .. m + 1 PROVE g[i] \in 1 .. n + 1 /\ a[i] = b[g[i]]
    <3>1. CASE i = m + 1 BY <1>5, <2>1, <2>2, <3>1
    <3>2. CASE i \in 1 .. m
      <4>1. g[i] \in 1 .. n /\ a[i] = t[g[i]] BY <1>5, <1>6, <2>2, <3>2
      <4> QED BY <2>1, <2>3, <4>1
    <3> QED BY <2>1, <3>1, <3>2
  <2>5. ASSUME NEW i \in 1 .. m + 1, NEW j \in 1 .. m + 1, i < j PROVE g[i] < g[j]
    <3>1. i \in 1 .. m BY <2>1, <2>5
    <3>2. CASE j = m + 1 BY <1>5, <2>1, <3>1, <3>2
    <3>3. CASE j \in 1 .. m BY <1>5, <2>5, <3>1, <3>3
    <3> QED BY <2>1, <3>2, <3>3
  <2> QED BY <2>1, <2>4, <2>5 DEF Places
<1> QED BY <1>4, <1>7 DEF Subsequence, a, b

LEMMA LineMoves ==
  ASSUME NEW T, NEW w \in Seq(T), NEW f \in Seq(T), NEW byte \in T
  PROVE  /\ w \o <<>> = w
         /\ w \o Append(f, byte) = Append(w \o f, byte)
         /\ f # <<>> => Append(w, Head(f)) \o Tail(f) = w \o f
<1>1. w \o <<>> = w OBVIOUS
<1>2. w \o Append(f, byte) = Append(w \o f, byte)
  <2> DEFINE b == <<byte>>
  <2>1. b \in Seq(T) /\ w \o f \in Seq(T) BY ConcatProperties
  <2>2. Append(f, byte) = f \o b /\ Append(w \o f, byte) = (w \o f) \o b
    BY <2>1, AppendIsConcat
  <2> HIDE DEF b
  <2> QED BY <2>1, <2>2, ConcatAssociative, SMTT(30)
<1>3. ASSUME f # <<>> PROVE Append(w, Head(f)) \o Tail(f) = w \o f
  <2> DEFINE h == <<Head(f)>>  t == Tail(f)
  <2>1. Head(f) \in T /\ h \in Seq(T) /\ t \in Seq(T) BY <1>3, FifoGives
  <2>2. Append(w, Head(f)) = w \o h BY <2>1, AppendIsConcat
  <2>3. h \o t = f
    <3>1. \A x : Len(<<x>>) = 1 /\ <<x>>[1] = x OBVIOUS
    <3>2. Len(h) = 1 /\ h[1] = Head(f) BY <3>1
    <3>3. /\ Head(f) = f[1] /\ Len(t) = Len(f) - 1 /\ Len(f) \in Nat \ {0}
          /\ \A j \in 1 .. Len(f) - 1 : t[j] = f[j + 1]
      BY <1>3, FifoGives
    <3> HIDE DEF h, t
    <3>4. /\ h \o t \in Seq(T) /\ Len(h \o t) = Len(h) + Len(t)
          /\ \A i \in 1 .. Len(h) + Len(t) :
               (h \o t)[i] = IF i <= Len(h) THEN h[i] ELSE t[i - Len(h)]
      BY <2>1, ConcatProperties
    <3>5. Len(h \o t) = Len(f) BY <3>2, <3>3, <3>4
    <3>6. ASSUME NEW i \in 1 .. Len(h \o t) PROVE (h \o t)[i] = f[i]
      <4>1. i \in 1 .. Len(f) /\ i \in 1 .. Len(h) + Len(t) BY <3>2, <3>3, <3>5
      <4>2. CASE i = 1 BY <3>2, <3>3, <3>4, <4>1, <4>2
      <4>3. CASE i # 1
        <5>1. i - 1 \in 1 .. Len(f) - 1 /\ (i - 1) + 1 = i /\ ~(i <= 1)
          BY <3>3, <4>1, <4>3
        <5>2. t[i - 1] = f[i] BY <3>3, <5>1
        <5> QED BY <3>2, <3>4, <4>1, <5>1, <5>2
      <4> QED BY <4>2, <4>3
    <3> QED BY <3>4, <3>5, <3>6, SeqEqual
  <2> HIDE DEF h, t
  <2>4. (w \o h) \o t = w \o (h \o t) BY <2>1, ConcatAssociative, SMTT(30)
  <2> QED BY <2>2, <2>3, <2>4 DEF t
<1> QED BY <1>1, <1>2, <1>3

------------------------------------------------------------------------------
(* The accesses *)

LEMMA Joined ==
  ASSUME NEW a1, NEW a2, NEW a3, NEW a4, NEW a5, NEW a6, NEW a7, NEW a8,
         NEW a9, NEW a10, NEW a11, NEW a12, NEW a13
  PROVE  LET s == <<a1, a2>> \o <<a3, a4, a5, a6, a7>> \o <<a8, a9, a10>>
                    \o <<a11, a12>> \o <<a13>> IN
         /\ Len(s) = 13
         /\ s[1] = a1 /\ s[2] = a2 /\ s[3] = a3 /\ s[4] = a4 /\ s[5] = a5
         /\ s[6] = a6 /\ s[7] = a7 /\ s[8] = a8 /\ s[9] = a9 /\ s[10] = a10
         /\ s[11] = a11 /\ s[12] = a12 /\ s[13] = a13
OBVIOUS

LEMMA Steps ==
  /\ Len(DetectSteps) = 13
  /\ DetectSteps[1] = Out("SCRATCH", SCRATCH_TEST_BYTE)
  /\ DetectSteps[2] = Check("SCRATCH", SCRATCH_TEST_BYTE)
  /\ DetectSteps[3] = Latch("latch off")
  /\ DetectSteps[4] = Out("INTERRUPT_ENABLE", "0")
  /\ DetectSteps[5] = Latch("latch on")
  /\ DetectSteps[6] = Out("DATA", BAUD_LOW)
  /\ DetectSteps[7] = Out("INTERRUPT_ENABLE", BAUD_HIGH)
  /\ DetectSteps[8] = Out("LINE_CONTROL", {"8N1"})
  /\ DetectSteps[9] = Out("FIFO_CONTROL", {"ENABLE", "CLEAR_RX", "CLEAR_TX"})
  /\ DetectSteps[10] = Out("MODEM_CONTROL", {"DTR", "RTS", "LOOPBACK"})
  /\ DetectSteps[11] = Out("DATA", LOOP_TEST_BYTE)
  /\ DetectSteps[12] = Check("DATA", LOOP_TEST_BYTE)
  /\ DetectSteps[13] = Out("MODEM_CONTROL", {"DTR", "RTS"})
<1> DEFINE a1 == Out("SCRATCH", SCRATCH_TEST_BYTE)
           a2 == Check("SCRATCH", SCRATCH_TEST_BYTE)
           a3 == Latch("latch off")
           a4 == Out("INTERRUPT_ENABLE", "0")
           a5 == Latch("latch on")
           a6 == Out("DATA", BAUD_LOW)
           a7 == Out("INTERRUPT_ENABLE", BAUD_HIGH)
           a8 == Out("LINE_CONTROL", {"8N1"})
           a9 == Out("FIFO_CONTROL", {"ENABLE", "CLEAR_RX", "CLEAR_TX"})
           a10 == Out("MODEM_CONTROL", {"DTR", "RTS", "LOOPBACK"})
           a11 == Out("DATA", LOOP_TEST_BYTE)
           a12 == Check("DATA", LOOP_TEST_BYTE)
           a13 == Out("MODEM_CONTROL", {"DTR", "RTS"})
<1>1. DetectSteps = <<a1, a2>> \o <<a3, a4, a5, a6, a7>> \o <<a8, a9, a10>>
                      \o <<a11, a12>> \o <<a13>>
  BY DEF DetectSteps, ScratchTest, BaudRate, Defaults, LoopbackTest, NormalMode
<1> HIDE DEF a1, a2, a3, a4, a5, a6, a7, a8, a9, a10, a11, a12, a13
<1>2. /\ Len(DetectSteps) = 13
      /\ DetectSteps[1] = a1 /\ DetectSteps[2] = a2 /\ DetectSteps[3] = a3
      /\ DetectSteps[4] = a4 /\ DetectSteps[5] = a5 /\ DetectSteps[6] = a6
      /\ DetectSteps[7] = a7 /\ DetectSteps[8] = a8 /\ DetectSteps[9] = a9
      /\ DetectSteps[10] = a10 /\ DetectSteps[11] = a11 /\ DetectSteps[12] = a12
      /\ DetectSteps[13] = a13
  BY <1>1, Joined
<1> QED BY <1>2 DEF a1, a2, a3, a4, a5, a6, a7, a8, a9, a10, a11, a12, a13

LEMMA Writes ==
  ASSUME NEW u, NEW val
  PROVE  /\ Written(u, "SCRATCH", val) = [u EXCEPT !.scratch = val]
         /\ Written(u, "LINE_CONTROL", val) = [u EXCEPT !.line = val]
         /\ Written(u, "MODEM_CONTROL", val) = [u EXCEPT !.modem = val]
         /\ Written(u, "FIFO_CONTROL", val) =
              [u EXCEPT !.fifo = "ENABLE" \in val,
                        !.rx = IF "CLEAR_RX" \in val THEN <<>> ELSE @,
                        !.tx = IF "CLEAR_TX" \in val THEN <<>> ELSE @]
         /\ Written(u, "DATA", val) =
              IF "DIV_LATCH" \in u.line THEN [u EXCEPT !.low = val] ELSE Transmit(u, val)
         /\ Written(u, "INTERRUPT_ENABLE", val) =
              IF "DIV_LATCH" \in u.line THEN [u EXCEPT !.high = val]
                                        ELSE [u EXCEPT !.interrupts = val]
BY DEF Written

UartOK(u) == u \in Uart /\ Len(u.tx) <= DEPTH /\ Len(u.rx) <= DEPTH

LEMMA StepCount == Len(DetectSteps) = 13 BY Steps

LEMMA Fields ==
  /\ \A reg, val : Out(reg, val).op = "out"
  /\ \A op : Latch(op).op = op
  /\ \A reg, val : /\ Check(reg, val).op = "check" /\ Check(reg, val).reg = reg
                   /\ Check(reg, val).val = val
BY DEF Out, Latch, Check

LEMMA Checks ==
  /\ \A i \in 1 .. 13 : i \notin {2, 12} => DetectSteps[i].op # "check"
  /\ DetectSteps[2].op = "check" /\ DetectSteps[2].reg = "SCRATCH"
  /\ DetectSteps[2].val = SCRATCH_TEST_BYTE
  /\ DetectSteps[12].op = "check" /\ DetectSteps[12].reg = "DATA"
  /\ DetectSteps[12].val = LOOP_TEST_BYTE
<1>1. DetectSteps[2] = Check("SCRATCH", SCRATCH_TEST_BYTE) BY Steps
<1>2. DetectSteps[12] = Check("DATA", LOOP_TEST_BYTE) BY Steps
<1>3. ASSUME NEW i \in 1 .. 13, i \notin {2, 12} PROVE DetectSteps[i].op # "check"
  <2>1. CASE i \in {3, 5}
    <3>1. \E op \in {"latch off", "latch on"} : DetectSteps[i] = Latch(op)
      BY <2>1, Steps
    <3> QED BY <3>1, Fields
  <2>2. CASE i \notin {3, 5}
    <3>1. \E reg, val : DetectSteps[i] = Out(reg, val)
      <4>1. i \in {1, 4, 6, 7, 8, 9, 10, 11, 13} BY <1>3, <2>2
      <4>2. CASE i = 1
        <5>1. DetectSteps[1] = Out("SCRATCH", SCRATCH_TEST_BYTE) BY Steps
        <5> QED BY <4>2, <5>1
      <4>3. CASE i = 4
        <5>1. DetectSteps[4] = Out("INTERRUPT_ENABLE", "0") BY Steps
        <5> QED BY <4>3, <5>1
      <4>4. CASE i = 6
        <5>1. DetectSteps[6] = Out("DATA", BAUD_LOW) BY Steps
        <5> QED BY <4>4, <5>1
      <4>5. CASE i = 7
        <5>1. DetectSteps[7] = Out("INTERRUPT_ENABLE", BAUD_HIGH) BY Steps
        <5> QED BY <4>5, <5>1
      <4>6. CASE i = 8
        <5>1. DetectSteps[8] = Out("LINE_CONTROL", {"8N1"}) BY Steps
        <5> QED BY <4>6, <5>1
      <4>7. CASE i = 9
        <5>1. DetectSteps[9] = Out("FIFO_CONTROL", {"ENABLE", "CLEAR_RX", "CLEAR_TX"}) BY Steps
        <5> QED BY <4>7, <5>1
      <4>8. CASE i = 10
        <5>1. DetectSteps[10] = Out("MODEM_CONTROL", {"DTR", "RTS", "LOOPBACK"}) BY Steps
        <5> QED BY <4>8, <5>1
      <4>9. CASE i = 11
        <5>1. DetectSteps[11] = Out("DATA", LOOP_TEST_BYTE) BY Steps
        <5> QED BY <4>9, <5>1
      <4>10. CASE i = 13
        <5>1. DetectSteps[13] = Out("MODEM_CONTROL", {"DTR", "RTS"}) BY Steps
        <5> QED BY <4>10, <5>1
      <4> QED BY <4>1, <4>2, <4>3, <4>4, <4>5, <4>6, <4>7, <4>8, <4>9, <4>10
    <3> QED BY <3>1, Fields
  <2> QED BY <2>1, <2>2
<1> DEFINE c == Check("SCRATCH", SCRATCH_TEST_BYTE)
           d == Check("DATA", LOOP_TEST_BYTE)
<1>4. /\ c.op = "check" /\ c.reg = "SCRATCH" /\ c.val = SCRATCH_TEST_BYTE
      /\ d.op = "check" /\ d.reg = "DATA" /\ d.val = LOOP_TEST_BYTE
  BY DEF Check
<1> HIDE DEF c, d
<1>5. DetectSteps[2] = c /\ DetectSteps[12] = d BY <1>1, <1>2 DEF c, d
<1> QED BY <1>3, <1>4, <1>5

(* The chip before access i of serial_detect; noisy when a byte came in    *)
(* after the input was cleared.                                            *)
Under(i, u, noisy) ==
  /\ i = 2 => u.scratch = SCRATCH_TEST_BYTE
  /\ i = 4 => "DIV_LATCH" \notin u.line
  /\ i >= 5 => u.interrupts = "0"
  /\ i \in {6, 7} => "DIV_LATCH" \in u.line
  /\ i >= 7 => u.low = BAUD_LOW
  /\ i >= 8 => u.high = BAUD_HIGH
  /\ i >= 9 => u.line = {"8N1"}
  /\ i >= 10 => u.fifo
  /\ i >= 11 => u.modem = {"DTR", "RTS", "LOOPBACK"}
  /\ i \in {10, 11, 13} => AllIn(u.rx, PeerBytes)
  /\ i \in {10, 11} /\ ~noisy => u.rx = <<>>
  /\ i = 12 => \A j \in 1 .. Len(u.rx) - 1 : u.rx[j] \in PeerBytes
  /\ i = 12 /\ ~noisy => u.rx = <<LOOP_TEST_BYTE>>

(* The value a check wants is read. *)
Passes(i, u) ==
  /\ i = 2 => u.scratch = SCRATCH_TEST_BYTE
  /\ i = 12 => u.rx # <<>> /\ Head(u.rx) = LOOP_TEST_BYTE

(* A passed access leaves the chip as the next one needs it, and puts      *)
(* nothing on the line; after the last it is ready.                        *)
LEMMA AccessKeeps ==
  ASSUME NEW i \in 1 .. 13, NEW u, NEW noisy \in BOOLEAN,
         UartOK(u), Under(i, u, noisy), Passes(i, u)
  PROVE  LET v == Accessed(u, DetectSteps[i]) IN
         /\ UartOK(v) /\ v.tx \in {u.tx, <<>>}
         /\ i < 13 => Under(i + 1, v, noisy)
         /\ i = 13 => Ready(v) /\ AllIn(v.rx, PeerBytes)
<1> DEFINE a == DetectSteps[i]
           v == Accessed(u, a)
<1>0. /\ u \in Uart /\ u.tx \in Seq(Byte) /\ u.rx \in Seq(Byte)
      /\ Len(u.tx) <= DEPTH /\ Len(u.rx) <= DEPTH
  BY DEF UartOK, Uart
<1> SUFFICES /\ UartOK(v) /\ v.tx \in {u.tx, <<>>}
             /\ i < 13 => Under(i + 1, v, noisy)
             /\ i = 13 => Ready(v) /\ AllIn(v.rx, PeerBytes)
  OBVIOUS
<1> HIDE DEF a, v
<1>1. CASE i = 1
  <2>0. a = Out("SCRATCH", SCRATCH_TEST_BYTE) BY <1>1, Steps DEF a
  <2>1. v = [u EXCEPT !.scratch = SCRATCH_TEST_BYTE]
    BY <2>0, Writes DEF v, Accessed, Out
  <2>2. v \in Uart /\ v.rx = u.rx /\ v.tx = u.tx BY <1>0, <2>1 DEF Uart
  <2>3. v.scratch = SCRATCH_TEST_BYTE BY <1>0, <2>1 DEF Uart
  <2> QED BY <1>0, <1>1, <2>2, <2>3 DEF UartOK, Under
<1>2. CASE i = 2
  <2>0. a = Check("SCRATCH", SCRATCH_TEST_BYTE) BY <1>2, Steps DEF a
  <2>1. v = u BY <2>0 DEF v, Accessed, Check, AfterRead
  <2> QED BY <1>0, <1>2, <2>1 DEF UartOK, Under
<1>3. CASE i = 3
  <2>0. a = Latch("latch off") BY <1>3, Steps DEF a
  <2>1. v = [u EXCEPT !.line = @ \ {"DIV_LATCH"}]
    BY <2>0 DEF v, Accessed, Latch
  <2> QED BY <1>0, <1>3, <2>1, SMTT(30) DEF UartOK, Uart, Under
<1>4. CASE i = 4
  <2>0. a = Out("INTERRUPT_ENABLE", "0") BY <1>4, Steps DEF a
  <2>1. v = [u EXCEPT !.interrupts = "0"]
    <3>1. v = Written(u, "INTERRUPT_ENABLE", "0") BY <2>0 DEF v, Accessed, Out
    <3>2. "DIV_LATCH" \notin u.line BY <1>4 DEF Under
    <3> QED BY <3>1, <3>2 DEF Written
  <2>5. /\ v \in Uart
        /\ v.scratch = u.scratch /\ v.line = u.line /\ v.modem = u.modem
        /\ v.low = u.low /\ v.high = u.high /\ v.fifo = u.fifo
        /\ v.tx = u.tx /\ v.rx = u.rx
    BY <1>0, <2>1 DEF Uart
  <2>6. v.interrupts = "0" BY <1>0, <2>1 DEF Uart
  <2> QED BY <1>0, <1>4, <2>5, <2>6 DEF UartOK, Under
<1>5. CASE i = 5
  <2>0. a = Latch("latch on") BY <1>5, Steps DEF a
  <2>1. v = [u EXCEPT !.line = @ \cup {"DIV_LATCH"}]
    BY <2>0 DEF v, Accessed, Latch
  <2>5. /\ v \in Uart
        /\ v.scratch = u.scratch /\ v.modem = u.modem /\ v.interrupts = u.interrupts
        /\ v.low = u.low /\ v.high = u.high /\ v.fifo = u.fifo
        /\ v.tx = u.tx /\ v.rx = u.rx
    BY <1>0, <2>1 DEF Uart
  <2>6. v.line = u.line \cup {"DIV_LATCH"} BY <1>0, <2>1 DEF Uart
  <2> QED BY <1>0, <1>5, <2>5, <2>6 DEF UartOK, Under
<1>6. CASE i = 6
  <2>0. a = Out("DATA", BAUD_LOW) BY <1>6, Steps DEF a
  <2>1. v = [u EXCEPT !.low = BAUD_LOW]
    <3>1. v = Written(u, "DATA", BAUD_LOW) BY <2>0 DEF v, Accessed, Out
    <3>2. "DIV_LATCH" \in u.line BY <1>6 DEF Under
    <3> QED BY <3>1, <3>2 DEF Written
  <2>5. /\ v \in Uart
        /\ v.scratch = u.scratch /\ v.line = u.line /\ v.modem = u.modem
        /\ v.interrupts = u.interrupts /\ v.high = u.high /\ v.fifo = u.fifo
        /\ v.tx = u.tx /\ v.rx = u.rx
    BY <1>0, <2>1 DEF Uart
  <2>6. v.low = BAUD_LOW BY <1>0, <2>1 DEF Uart
  <2> QED BY <1>0, <1>6, <2>5, <2>6 DEF UartOK, Under
<1>7. CASE i = 7
  <2>0. a = Out("INTERRUPT_ENABLE", BAUD_HIGH) BY <1>7, Steps DEF a
  <2>1. v = [u EXCEPT !.high = BAUD_HIGH]
    <3>1. v = Written(u, "INTERRUPT_ENABLE", BAUD_HIGH) BY <2>0 DEF v, Accessed, Out
    <3>2. "DIV_LATCH" \in u.line BY <1>7 DEF Under
    <3> QED BY <3>1, <3>2 DEF Written
  <2> QED BY <1>0, <1>7, <2>1, SMTT(30) DEF UartOK, Uart, Under, BAUD_HIGH
<1>8. CASE i = 8
  <2>0. a = Out("LINE_CONTROL", {"8N1"}) BY <1>8, Steps DEF a
  <2>1. v = [u EXCEPT !.line = {"8N1"}]
    BY <2>0, Writes DEF v, Accessed, Out
  <2> QED BY <1>0, <1>8, <2>1 DEF UartOK, Uart, Under
<1>9. CASE i = 9
  <2>0. a = Out("FIFO_CONTROL", {"ENABLE", "CLEAR_RX", "CLEAR_TX"}) BY <1>9, Steps DEF a
  <2>1. v = [u EXCEPT !.fifo = TRUE, !.rx = <<>>, !.tx = <<>>]
    <3>1. v = Written(u, "FIFO_CONTROL", {"ENABLE", "CLEAR_RX", "CLEAR_TX"}) BY <2>0 DEF v, Accessed, Out
    <3> QED BY <3>1 DEF Written
  <2>2. v \in Uart BY <1>0, <2>1, EmptyFifo DEF Uart
  <2>3. /\ v.rx = <<>> /\ v.tx = <<>> /\ v.fifo = TRUE
        /\ v.line = u.line /\ v.interrupts = u.interrupts
        /\ v.low = u.low /\ v.high = u.high
    BY <1>0, <2>1 DEF Uart
  <2> QED BY <1>9, <2>2, <2>3, EmptyFifo, PortAssumption DEF UartOK, Under
<1>10. CASE i = 10
  <2>0. a = Out("MODEM_CONTROL", {"DTR", "RTS", "LOOPBACK"}) BY <1>10, Steps DEF a
  <2>1. v = [u EXCEPT !.modem = {"DTR", "RTS", "LOOPBACK"}]
    BY <2>0, Writes DEF v, Accessed, Out
  <2>5. /\ v \in Uart
        /\ v.scratch = u.scratch /\ v.line = u.line /\ v.interrupts = u.interrupts
        /\ v.low = u.low /\ v.high = u.high /\ v.fifo = u.fifo
        /\ v.tx = u.tx /\ v.rx = u.rx
    BY <1>0, <2>1 DEF Uart
  <2>6. v.modem = {"DTR", "RTS", "LOOPBACK"} BY <1>0, <2>1 DEF Uart
  <2> QED BY <1>0, <1>10, <2>5, <2>6 DEF UartOK, Under
<1>11. CASE i = 11
  <2>0. a = Out("DATA", LOOP_TEST_BYTE) BY <1>11, Steps DEF a
  <2> DEFINE f == InFifo(u.rx, LOOP_TEST_BYTE)
  <2>1. v = [u EXCEPT !.rx = f]
    <3>1. v = Written(u, "DATA", LOOP_TEST_BYTE) BY <2>0 DEF v, Accessed, Out
    <3>2. "DIV_LATCH" \notin u.line /\ "LOOPBACK" \in u.modem BY <1>11 DEF Under
    <3> QED BY <3>1, <3>2 DEF Written, Transmit
  <2>2. /\ f \in Seq(Byte) /\ Len(f) <= DEPTH
        /\ \A j \in 1 .. Len(f) - 1 : f[j] \in PeerBytes
        /\ u.rx = <<>> => f = <<LOOP_TEST_BYTE>>
    <3>1. LOOP_TEST_BYTE \in Byte BY DEF Byte
    <3>2. AllIn(u.rx, PeerBytes) BY <1>11 DEF Under
    <3> QED BY <1>0, <3>1, <3>2, FifoTakes
  <2> HIDE DEF f
  <2>5. /\ v \in Uart
        /\ v.scratch = u.scratch /\ v.line = u.line /\ v.modem = u.modem
        /\ v.interrupts = u.interrupts /\ v.low = u.low /\ v.high = u.high
        /\ v.fifo = u.fifo /\ v.tx = u.tx
    BY <1>0, <2>1, <2>2 DEF Uart
  <2>6. v.rx = f BY <1>0, <2>1 DEF Uart
  <2> QED BY <1>0, <1>11, <2>2, <2>5, <2>6 DEF UartOK, Under
<1>12. CASE i = 12
  <2>0. a = Check("DATA", LOOP_TEST_BYTE) BY <1>12, Steps DEF a
  <2> DEFINE t == Tail(u.rx)
  <2>1. u.rx # <<>> /\ Head(u.rx) = LOOP_TEST_BYTE BY <1>12 DEF Passes
  <2>2. v = [u EXCEPT !.rx = t]
    BY <2>0, <2>1 DEF v, Accessed, Check, AfterRead
  <2>3. /\ t \in Seq(Byte) /\ Len(t) = Len(u.rx) - 1 /\ Len(u.rx) \in Nat \ {0}
        /\ u.rx[1] = LOOP_TEST_BYTE
    BY <1>0, <2>1, FifoGives
  <2>4. Len(t) = 0
    <3>1. LOOP_TEST_BYTE \notin PeerBytes BY PortAssumption
    <3>2. \A j \in 1 .. Len(u.rx) - 1 : u.rx[j] \in PeerBytes BY <1>12 DEF Under
    <3> HIDE DEF t
    <3> DEFINE n == Len(u.rx)
    <3>3. n \in Nat \ {0} /\ ~(1 \in 1 .. n - 1) BY <2>3, <3>1, <3>2
    <3> HIDE DEF n
    <3>4. n = 1 BY <3>3
    <3> QED BY <2>3, <3>4 DEF n
  <2>5. AllIn(t, PeerBytes) BY <2>4 DEF AllIn
  <2> HIDE DEF t
  <2>6. /\ v \in Uart /\ v.rx = t /\ v.tx = u.tx
        /\ v.line = u.line /\ v.modem = u.modem /\ v.interrupts = u.interrupts
        /\ v.low = u.low /\ v.high = u.high /\ v.fifo = u.fifo
    BY <1>0, <2>2, <2>3 DEF Uart
  <2> QED BY <1>0, <1>12, <2>4, <2>5, <2>6, PortAssumption DEF UartOK, Under
<1>13. CASE i = 13
  <2>0. a = Out("MODEM_CONTROL", {"DTR", "RTS"}) BY <1>13, Steps DEF a
  <2>1. v = [u EXCEPT !.modem = {"DTR", "RTS"}]
    BY <2>0, Writes DEF v, Accessed, Out
  <2> QED BY <1>0, <1>13, <2>1 DEF UartOK, Uart, Under, Ready
<1> QED BY <1>1, <1>2, <1>3, <1>4, <1>5, <1>6, <1>7, <1>8, <1>9, <1>10, <1>11,
           <1>12, <1>13

------------------------------------------------------------------------------
(* The invariant *)

(* Output waits between detections; a detection has left the chip as its   *)
(* next access needs it, and ends at the first check without a chip.       *)
CpuInv ==
  /\ cpu.text # <<>> => cpu.step = 1
  /\ cpu.port \in Present => Under(cpu.step, uart[cpu.port], cpu.port \in noise)
  /\ cpu.port \notin Present => cpu.step <= 2

(* A port: what was found is ready, only noise hides a chip, the input is  *)
(* the peer's, and what is on the line or waits for it was printed.        *)
PortInv(p) ==
  /\ found[p] = "found" /\ AtRest(p) =>
       p \in Present /\ Ready(uart[p]) /\ AllIn(uart[p].rx, PeerBytes)
  /\ p \in Present /\ found[p] = "missed" => p \in noise \/ ~AtRest(p)
  /\ AllIn(input[p], PeerBytes)
  /\ wire[p] # <<>> \/ uart[p].tx # <<>> => p = STDOUT_SERIAL
  /\ Subsequence(wire[p] \o uart[p].tx, sent)

SerialInv == TypeOK /\ CpuInv /\ \A p \in 1 .. PORTS : PortInv(p)

LEMMA StateFacts ==
  ASSUME TypeOK
  PROVE  /\ uart \in [1 .. PORTS -> Uart] /\ \A p \in 1 .. PORTS : UartOK(uart[p])
         /\ cpu.port \in 1 .. PORTS + 1 /\ cpu.step \in 1 .. 13
         /\ cpu.text \in Seq(Byte) /\ PORTS \in Nat \ {0}
         /\ Present \subseteq 1 .. PORTS /\ STDOUT_SERIAL \in 1 .. PORTS
         /\ Len(DetectSteps) = 13
<1>1. Len(DetectSteps) = 13 BY Steps
<1>2. /\ PORTS \in Nat \ {0} /\ Present \subseteq 1 .. PORTS
      /\ STDOUT_SERIAL \in 1 .. PORTS
  BY PortAssumption DEF STDOUT_SERIAL
<1>3. \A p \in 1 .. PORTS : UartOK(uart[p]) BY DEF TypeOK, UartOK
<1> QED BY <1>1, <1>2, <1>3 DEF TypeOK

(* An access to the port under detection: the other ports stay as they are.*)
Moved ==
  /\ uart' \in [1 .. PORTS -> Uart] /\ UartOK(uart'[cpu.port])
  /\ uart'[cpu.port].tx \in {uart[cpu.port].tx, <<>>}
  /\ \A q \in 1 .. PORTS : q # cpu.port => uart'[q] = uart[q]

LEMMA DetectFacts ==
  ASSUME SerialInv, SerialDetect
  PROVE  /\ cpu.port \in 1 .. PORTS /\ cpu.text = <<>>
         /\ UNCHANGED <<sent, wire, input, peer>>
         /\ noise' = IF cpu.step = 1 THEN noise \ {cpu.port} ELSE noise
BY StateFacts DEF SerialInv, SerialDetect, IsPort

LEMMA MovedTypes ==
  ASSUME SerialInv, SerialDetect, Moved,
         cpu' \in [port : 1 .. PORTS + 1, step : 1 .. Len(DetectSteps), text : Seq(Byte)],
         stdout' \in {"none", "serial", "framebuffer"},
         found' \in [1 .. PORTS -> {"unknown", "found", "missed"}]
  PROVE  TypeOK'
<1>1. \A q \in 1 .. PORTS : UartOK(uart'[q])
  BY StateFacts DEF Moved, SerialInv
<1>2. noise' \subseteq 1 .. PORTS BY DetectFacts DEF SerialInv, TypeOK
<1> QED BY <1>1, <1>2, DetectFacts DEF Moved, UartOK, SerialInv, TypeOK

(* Ports that are not under detection. *)
LEMMA MovedOthers ==
  ASSUME SerialInv, SerialDetect, Moved, NEW q \in 1 .. PORTS, q # cpu.port,
         found'[q] = found[q]
  PROVE  PortInv(q)'
<1>1. AtRest(q) BY DEF AtRest
<1>2. q \in noise' <=> q \in noise BY DetectFacts
<1>3. uart'[q] = uart[q] BY DEF Moved
<1>4. PortInv(q) BY DEF SerialInv
<1>5. UNCHANGED <<sent, wire, input>> BY DetectFacts
<1> QED BY <1>1, <1>2, <1>3, <1>4, <1>5 DEF PortInv

LEMMA MovedLine ==
  ASSUME SerialInv, SerialDetect, Moved, NEW p, p = cpu.port
  PROVE  /\ AllIn(input'[p], PeerBytes)
         /\ wire'[p] # <<>> \/ uart'[p].tx # <<>> => p = STDOUT_SERIAL
         /\ Subsequence(wire'[p] \o uart'[p].tx, sent')
<1>1. PortInv(p) /\ p \in 1 .. PORTS BY DetectFacts DEF SerialInv
<1>2. UNCHANGED <<sent, wire, input>> BY DetectFacts
<1>3. CASE uart'[p].tx = uart[p].tx BY <1>1, <1>2, <1>3 DEF PortInv
<1>4. CASE uart'[p].tx = <<>>
  <2> DEFINE w == wire[p]  tx == uart[p].tx
  <2>1. w \in Seq(Byte) /\ tx \in Seq(Byte) BY <1>1 DEF SerialInv, TypeOK, Uart
  <2>2. Subsequence(w \o tx, sent) BY <1>1 DEF PortInv
  <2> HIDE DEF w, tx
  <2>3. Subsequence(w, sent) BY <2>1, <2>2, SubsequencePrefix
  <2>4. w \o <<>> = w BY <2>1
  <2>5. Subsequence(wire'[p] \o uart'[p].tx, sent') BY <1>2, <1>4, <2>3, <2>4 DEF w
  <2> QED BY <1>1, <1>2, <1>4, <2>5 DEF PortInv
<1> QED BY <1>3, <1>4 DEF Moved

LEMMA ReturnKeeps ==
  ASSUME SerialInv, SerialDetect, Moved, NEW result \in BOOLEAN, Return(result),
         result => /\ cpu.port \in Present /\ Ready(uart'[cpu.port])
                   /\ AllIn(uart'[cpu.port].rx, PeerBytes),
         ~result /\ cpu.port \in Present => cpu.port \in noise'
  PROVE  SerialInv'
<1>p. PICK p \in 1 .. PORTS : p = cpu.port BY DetectFacts
<1>0. TypeOK /\ p \in 1 .. PORTS BY DEF SerialInv
<1>1. /\ found' \in [1 .. PORTS -> {"unknown", "found", "missed"}]
      /\ found'[p] = (IF result THEN "found" ELSE "missed")
      /\ \A q \in 1 .. PORTS : q # p => found'[q] = found[q]
  BY <1>0, <1>p DEF Return, TypeOK
<1>2. \E port \in 1 .. PORTS + 1, text \in Seq(Byte) :
        cpu' = [port |-> port, step |-> 1, text |-> text]
  <2>1. /\ Printed \subseteq Byte /\ Banner \in Seq(Byte) /\ Report \in Seq(Byte)
        /\ Detected(p) \in Seq(Byte) /\ <<>> \in Seq(Byte)
    BY <1>0, OutputAssumption DEF Byte
  <2>2. CASE stdout = "none"
    <3>1. cpu' = [port |-> 1, step |-> 1, text |-> Banner] BY <2>2 DEF Return
    <3>2. 1 \in 1 .. PORTS + 1 BY PortAssumption
    <3> QED BY <2>1, <3>1, <3>2
  <2>3. CASE stdout # "none"
    <3> DEFINE text == (IF result THEN Detected(cpu.port) ELSE <<>>) \o
                       (IF cpu.port = PORTS THEN Report ELSE <<>>)
    <3>1. cpu' = [port |-> cpu.port + 1, step |-> 1, text |-> text]
      BY <2>3 DEF Return
    <3>2. text \in Seq(Byte) BY <1>p, <2>1
    <3>3. cpu.port + 1 \in 1 .. PORTS + 1 BY <1>p, PortAssumption
    <3> HIDE DEF text
    <3> QED BY <3>1, <3>2, <3>3
  <2> QED BY <2>2, <2>3
<1>3. PICK port \in 1 .. PORTS + 1, text \in Seq(Byte) :
        cpu' = [port |-> port, step |-> 1, text |-> text]
  BY <1>2
<1>4. cpu' \in [port : 1 .. PORTS + 1, step : 1 .. Len(DetectSteps), text : Seq(Byte)]
  <2>1. 1 \in 1 .. Len(DetectSteps) BY StepCount
  <2> QED BY <1>3, <2>1
<1>5. cpu'.step = 1 BY <1>3
<1>6. stdout' \in {"none", "serial", "framebuffer"} BY <1>0 DEF Return, TypeOK
<1>7. TypeOK' BY <1>1, <1>4, <1>6, MovedTypes
<1>8. CpuInv' BY <1>5 DEF CpuInv, Under
<1>9. PortInv(p)'
  <2>1. /\ found'[p] = "found" => p \in Present /\ Ready(uart'[p]) /\ AllIn(uart'[p].rx, PeerBytes)
        /\ p \in Present /\ found'[p] = "missed" => p \in noise'
    BY <1>1, <1>p
  <2>2. /\ AllIn(input'[p], PeerBytes)
        /\ wire'[p] # <<>> \/ uart'[p].tx # <<>> => p = STDOUT_SERIAL
        /\ Subsequence(wire'[p] \o uart'[p].tx, sent')
    BY <1>p, MovedLine
  <2> QED BY <2>1, <2>2 DEF PortInv
<1>10. ASSUME NEW q \in 1 .. PORTS PROVE PortInv(q)'
  <2>1. CASE q = p BY <1>9, <2>1
  <2>2. CASE q # p BY <1>1, <1>p, <2>2, MovedOthers
  <2> QED BY <2>1, <2>2
<1> QED BY <1>7, <1>8, <1>10 DEF SerialInv

LEMMA NextAccessKeeps ==
  ASSUME SerialInv, SerialDetect, Moved, cpu.step < 13,
         cpu' = [cpu EXCEPT !.step = @ + 1], UNCHANGED <<stdout, found>>,
         cpu.port \in Present =>
           Under(cpu.step + 1, uart'[cpu.port], cpu.port \in noise'),
         cpu.port \notin Present => cpu.step = 1
  PROVE  SerialInv'
<1>p. PICK p \in 1 .. PORTS, i \in 1 .. 13 : p = cpu.port /\ i = cpu.step
  BY DetectFacts, StateFacts DEF SerialInv
<1>0. /\ TypeOK
      /\ cpu \in [port : 1 .. PORTS + 1, step : 1 .. Len(DetectSteps), text : Seq(Byte)]
  BY DetectFacts, StateFacts DEF SerialInv, TypeOK
<1>1. cpu'.port = p /\ cpu'.step = i + 1 /\ cpu'.text = <<>>
  BY <1>0, <1>p, DetectFacts
<1>2. cpu' \in [port : 1 .. PORTS + 1, step : 1 .. Len(DetectSteps), text : Seq(Byte)]
  <2>1. i + 1 \in 1 .. Len(DetectSteps) BY <1>p, StepCount
  <2> QED BY <1>0, <1>p, <2>1
<1>3. TypeOK' BY <1>0, <1>2, MovedTypes DEF TypeOK
<1>4. CpuInv' BY <1>1, <1>p DEF CpuInv
<1>5. PortInv(p)'
  <2>1. ~AtRest(p)' BY <1>p, <1>1 DEF AtRest
  <2>2. /\ AllIn(input'[p], PeerBytes)
        /\ wire'[p] # <<>> \/ uart'[p].tx # <<>> => p = STDOUT_SERIAL
        /\ Subsequence(wire'[p] \o uart'[p].tx, sent')
    BY <1>p, MovedLine
  <2> QED BY <2>1, <2>2 DEF PortInv
<1>6. ASSUME NEW q \in 1 .. PORTS PROVE PortInv(q)'
  <2>1. CASE q = p BY <1>5, <2>1
  <2>2. CASE q # p BY <1>p, <2>2, MovedOthers
  <2> QED BY <2>1, <2>2
<1> QED BY <1>3, <1>4, <1>6 DEF SerialInv

------------------------------------------------------------------------------
(* The steps *)

(* A turn of serial_detect: without a chip the first check fails; with one *)
(* only the check of the loopback can, and only when a byte came in before.*)
LEMMA DetectKeeps == ASSUME SerialInv, SerialDetect PROVE SerialInv'
<1> DEFINE step == DetectSteps[cpu.step]
           failed == step.op = "check" /\ ReadBack(cpu.port, step.reg) # step.val
<1>p. PICK p \in 1 .. PORTS, i \in 1 .. 13 : p = cpu.port /\ i = cpu.step
  BY DetectFacts, StateFacts DEF SerialInv
<1>1. /\ Access(p, step)
      /\ failed \/ i = 13 => Return(~failed)
      /\ ~failed /\ i # 13 => cpu' = [cpu EXCEPT !.step = @ + 1] /\ UNCHANGED <<stdout, found>>
  BY <1>p, StateFacts DEF SerialDetect, SerialInv
<1>2. /\ uart \in [1 .. PORTS -> Uart] /\ UartOK(uart[p]) /\ CpuInv
      /\ noise' = IF i = 1 THEN noise \ {p} ELSE noise
  BY <1>p, StateFacts, DetectFacts DEF SerialInv
<1>3. /\ i \notin {2, 12} => step.op # "check"
      /\ i = 2 => step.op = "check" /\ step.reg = "SCRATCH" /\ step.val = SCRATCH_TEST_BYTE
      /\ i = 12 => step.op = "check" /\ step.reg = "DATA" /\ step.val = LOOP_TEST_BYTE
  BY <1>p, Checks
<1> HIDE DEF step
<1>4. CASE p \notin Present
  <2>1. uart' = uart /\ i \in {1, 2} BY <1>p, <1>1, <1>2, <1>4 DEF Access, CpuInv
  <2>2. Moved BY <1>p, <1>2, <2>1 DEF Moved
  <2>3. CASE i = 1
    <3>1. ~failed BY <1>3, <2>3
    <3> QED BY <1>p, <1>1, <1>4, <2>2, <2>3, <3>1, NextAccessKeeps
  <2>4. CASE i = 2
    <3>1. failed
      <4> DEFINE reg == step.reg
      <4> HIDE DEF reg
      <4>1. ReadBack(p, reg) = FLOATING BY <1>4 DEF ReadBack
      <4>2. FLOATING # SCRATCH_TEST_BYTE BY DEF FLOATING, SCRATCH_TEST_BYTE
      <4> QED BY <1>p, <1>3, <2>4, <4>1, <4>2 DEF reg
    <3>2. Return(FALSE) BY <1>1, <3>1
    <3> QED BY <1>p, <1>4, <2>2, <3>2, ReturnKeeps
  <2> QED BY <2>1, <2>3, <2>4
<1>5. CASE p \in Present
  <2> DEFINE u == uart[p]
             v == Accessed(u, step)
             noisy == p \in noise'
  <2>1. uart' = [uart EXCEPT ![p] = v] BY <1>1, <1>5 DEF Access
  <2>2. Under(i, u, noisy) BY <1>p, <1>2, <1>5 DEF CpuInv, Under
  <2>3. UartOK(v) /\ v.tx \in {u.tx, <<>>} => Moved
    <3> HIDE DEF v
    <3> QED BY <1>p, <1>2, <2>1 DEF Moved, UartOK
  <2>4. uart'[p] = v BY <1>2, <2>1
  <2>5. i = 2 => u.scratch = SCRATCH_TEST_BYTE BY <2>2 DEF Under
  <2>6. CASE Passes(i, u)
    <3>1. ~failed
      BY <1>p, <1>3, <1>5, <2>5, <2>6 DEF ReadBack, Passes
    <3>2. /\ UartOK(v) /\ v.tx \in {u.tx, <<>>}
          /\ i < 13 => Under(i + 1, v, noisy)
          /\ i = 13 => Ready(v) /\ AllIn(v.rx, PeerBytes)
      <4>1. step = DetectSteps[i] BY <1>p DEF step
      <4>2. noisy \in BOOLEAN OBVIOUS
      <4> HIDE DEF noisy, u
      <4>3. UartOK(u) BY <1>2 DEF u
      <4> QED BY <2>2, <2>6, <4>1, <4>2, <4>3, AccessKeeps
    <3>3. Moved BY <2>3, <3>2
    <3>4. CASE i = 13
      <4>1. Return(TRUE) BY <1>1, <3>1, <3>4
      <4> QED BY <1>p, <1>5, <2>4, <3>2, <3>3, <3>4, <4>1, ReturnKeeps
    <3>5. CASE i # 13
      <4>1. cpu' = [cpu EXCEPT !.step = @ + 1] /\ UNCHANGED <<stdout, found>>
        BY <1>1, <3>1, <3>5
      <4>2. Under(cpu.step + 1, uart'[cpu.port], cpu.port \in noise') /\ cpu.step < 13
        BY <1>p, <2>4, <3>2, <3>5
      <4> QED BY <1>p, <1>5, <3>3, <4>1, <4>2, NextAccessKeeps
    <3> QED BY <3>4, <3>5
  <2>7. CASE ~Passes(i, u)
    <3>1. i = 12 /\ (u.rx = <<>> \/ Head(u.rx) # LOOP_TEST_BYTE)
      BY <2>5, <2>7 DEF Passes
    <3>2. failed
      BY <1>p, <1>3, <1>5, <3>1 DEF ReadBack, FLOATING, LOOP_TEST_BYTE
    <3>3. noisy
      <4>1. <<LOOP_TEST_BYTE>> # <<>> /\ Head(<<LOOP_TEST_BYTE>>) = LOOP_TEST_BYTE
        OBVIOUS
      <4> HIDE DEF noisy, u
      <4>2. ~noisy => u.rx = <<LOOP_TEST_BYTE>> BY <2>2, <3>1 DEF Under
      <4> QED BY <3>1, <4>1, <4>2
    <3>4. v = IF u.rx # <<>> THEN [u EXCEPT !.rx = Tail(@)] ELSE u
      <4>1. step = Check("DATA", LOOP_TEST_BYTE) BY <1>p, <3>1, Steps DEF step
      <4> QED BY <4>1 DEF Accessed, Check, AfterRead
    <3>5. UartOK(v) /\ v.tx = u.tx
      <4>1. CASE u.rx = <<>> BY <1>2, <3>4, <4>1
      <4>2. CASE u.rx # <<>>
        <5> DEFINE t == Tail(u.rx)
        <5>1. u \in Uart /\ u.rx \in Seq(Byte) BY <1>2 DEF UartOK, Uart
        <5>2. t \in Seq(Byte) /\ Len(t) <= DEPTH
          BY <1>2, <4>2, <5>1, FifoGives, PortAssumption DEF UartOK
        <5>3. v = [u EXCEPT !.rx = t] BY <3>4, <4>2
        <5> HIDE DEF t, v
        <5>4. v \in Uart /\ v.rx = t /\ v.tx = u.tx BY <5>1, <5>2, <5>3 DEF Uart
        <5> QED BY <1>2, <5>2, <5>4 DEF UartOK
      <4> QED BY <4>1, <4>2
    <3>6. Moved BY <2>3, <3>5
    <3>7. Return(FALSE) BY <1>1, <3>2
    <3> QED BY <1>p, <1>5, <3>3, <3>6, <3>7, ReturnKeeps
  <2> QED BY <2>6, <2>7
<1> QED BY <1>4, <1>5

(* A step of the processor's output, of a chip, or of a peer: only port p  *)
(* changes, and serial_detect goes on where it was.                        *)
LEMMA StepKeeps ==
  ASSUME SerialInv, NEW p \in 1 .. PORTS,
         cpu' \in [port : 1 .. PORTS + 1, step : 1 .. Len(DetectSteps), text : Seq(Byte)],
         cpu'.port = cpu.port, cpu'.step = cpu.step,
         cpu'.text # <<>> => cpu.text # <<>>, UNCHANGED <<stdout, found>>,
         uart' \in [1 .. PORTS -> Uart], UartOK(uart'[p]),
         \A q \in 1 .. PORTS : q # p => uart'[q] = uart[q],
         noise' \in {noise, noise \cup {p}}, peer' \in 0 .. MaxPeer,
         sent' \in Seq(Byte), wire' \in [1 .. PORTS -> Seq(Byte)],
         input' \in [1 .. PORTS -> Seq(Byte)],
         \A q \in 1 .. PORTS :
           q # p => /\ wire'[q] = wire[q] /\ input'[q] = input[q]
                    /\ Subsequence(wire[q] \o uart[q].tx, sent'),
         cpu.port = p /\ p \in Present => Under(cpu.step, uart'[p], p \in noise'),
         PortInv(p)'
  PROVE  SerialInv'
<1>0. /\ TypeOK /\ CpuInv /\ PORTS \in Nat \ {0} /\ Present \subseteq 1 .. PORTS
      /\ \A q \in 1 .. PORTS : UartOK(uart[q])
  BY StateFacts DEF SerialInv
<1>1. TypeOK'
  <2>1. \A q \in 1 .. PORTS : UartOK(uart'[q]) BY <1>0
  <2>2. noise' \subseteq 1 .. PORTS BY <1>0 DEF TypeOK
  <2> QED BY <1>0, <2>1, <2>2 DEF TypeOK, UartOK
<1>2. CpuInv'
  <2>1. cpu.port # p /\ cpu.port \in Present =>
          Under(cpu.step, uart'[cpu.port], cpu.port \in noise')
    <3> SUFFICES ASSUME cpu.port # p, cpu.port \in Present
                 PROVE  Under(cpu.step, uart'[cpu.port], cpu.port \in noise')
      OBVIOUS
    <3>1. uart'[cpu.port] = uart[cpu.port] /\ (cpu.port \in noise' <=> cpu.port \in noise)
      BY <1>0
    <3>2. Under(cpu.step, uart[cpu.port], cpu.port \in noise) BY <1>0 DEF CpuInv
    <3> QED BY <3>1, <3>2 DEF Under
  <2> QED BY <1>0, <2>1 DEF CpuInv
<1>3. ASSUME NEW q \in 1 .. PORTS, q # p PROVE PortInv(q)'
  <2>1. PortInv(q) BY DEF SerialInv
  <2>2. uart'[q] = uart[q] /\ wire'[q] = wire[q] /\ input'[q] = input[q]
    BY <1>3
  <2>3. Subsequence(wire[q] \o uart[q].tx, sent') BY <1>3
  <2>4. (q \in noise' <=> q \in noise) /\ (AtRest(q)' <=> AtRest(q))
    BY <1>3 DEF AtRest
  <2> QED BY <2>1, <2>2, <2>3, <2>4 DEF PortInv
<1> QED BY <1>1, <1>2, <1>3 DEF SerialInv

(* A byte written to a chip goes to the line, back to the input, or into   *)
(* the baud rate; that of a port that is ready goes to the line.           *)
LEMMA DataWritten ==
  ASSUME NEW u, NEW byte \in Byte, UartOK(u)
  PROVE  LET v == Accessed(u, Out("DATA", byte)) IN
         /\ UartOK(v) /\ v.tx \in {u.tx, InFifo(u.tx, byte)}
         /\ Ready(u) => Ready(v) /\ v.rx = u.rx
<1> DEFINE v == Accessed(u, Out("DATA", byte))
           f == InFifo(u.tx, byte)  g == InFifo(u.rx, byte)
<1>0. /\ u \in Uart /\ u.tx \in Seq(Byte) /\ u.rx \in Seq(Byte)
      /\ Len(u.tx) <= DEPTH /\ Len(u.rx) <= DEPTH
  BY DEF UartOK, Uart
<1>1. v = IF "DIV_LATCH" \in u.line THEN [u EXCEPT !.low = byte]
          ELSE IF "LOOPBACK" \in u.modem THEN [u EXCEPT !.rx = g]
          ELSE [u EXCEPT !.tx = f]
  <2>1. v = Written(u, "DATA", byte) BY DEF Accessed, Out
  <2> QED BY <2>1 DEF Written, Transmit
<1>2. /\ f \in Seq(Byte) /\ Len(f) <= DEPTH
      /\ g \in Seq(Byte) /\ Len(g) <= DEPTH
  BY <1>0, FifoTakes
<1> SUFFICES /\ UartOK(v) /\ v.tx \in {u.tx, f}
             /\ Ready(u) => Ready(v) /\ v.rx = u.rx
  OBVIOUS
<1> HIDE DEF v, f, g
<1>3. CASE "DIV_LATCH" \in u.line
  <2>1. v = [u EXCEPT !.low = byte] BY <1>1, <1>3
  <2>2. v \in Uart /\ v.tx = u.tx /\ v.rx = u.rx BY <1>0, <2>1 DEF Uart
  <2>3. ~Ready(u) BY <1>3 DEF Ready
  <2> QED BY <1>0, <2>2, <2>3 DEF UartOK
<1>4. CASE "DIV_LATCH" \notin u.line /\ "LOOPBACK" \in u.modem
  <2>1. v = [u EXCEPT !.rx = g] BY <1>1, <1>4
  <2>2. v \in Uart /\ v.tx = u.tx /\ v.rx = g BY <1>0, <1>2, <2>1 DEF Uart
  <2>3. ~Ready(u) BY <1>4 DEF Ready
  <2> QED BY <1>0, <1>2, <2>2, <2>3 DEF UartOK
<1>5. CASE "DIV_LATCH" \notin u.line /\ "LOOPBACK" \notin u.modem
  <2>1. v = [u EXCEPT !.tx = f] BY <1>1, <1>5
  <2>2. v \in Uart /\ v.tx = f /\ v.rx = u.rx BY <1>0, <1>2, <2>1 DEF Uart
  <2>3. /\ v.line = u.line /\ v.modem = u.modem /\ v.fifo = u.fifo
        /\ v.interrupts = u.interrupts /\ v.low = u.low /\ v.high = u.high
    BY <1>0, <2>1 DEF Uart
  <2> QED BY <1>0, <1>2, <2>2, <2>3 DEF UartOK, Ready
<1> QED BY <1>3, <1>4, <1>5

(* What the line of port p carries when the output grows by a byte.        *)
LEMMA OutputGrows ==
  ASSUME SerialInv, NEW p \in 1 .. PORTS, NEW byte \in Byte, sent' = Append(sent, byte)
  PROVE  /\ sent' \in Seq(Byte)
         /\ Subsequence(wire[p] \o uart[p].tx, sent')
         /\ Subsequence(wire[p] \o InFifo(uart[p].tx, byte), sent')
<1> DEFINE w == wire[p]  tx == uart[p].tx  a == Append(tx, byte)
<1>1. /\ w \in Seq(Byte) /\ tx \in Seq(Byte) /\ sent \in Seq(Byte)
      /\ Subsequence(w \o tx, sent)
  BY DEF SerialInv, TypeOK, Uart, PortInv
<1> HIDE DEF w, tx
<1>2. w \o tx \in Seq(Byte) BY <1>1, ConcatProperties
<1>3. w \o a = Append(w \o tx, byte) BY <1>1, LineMoves
<1>4. Subsequence(w \o tx, sent') /\ Subsequence(Append(w \o tx, byte), sent')
  BY <1>1, <1>2, SubsequenceOfMore
<1>5. InFifo(tx, byte) \in {tx, a} BY DEF InFifo
<1>6. sent' \in Seq(Byte) BY <1>1
<1> QED BY <1>3, <1>4, <1>5, <1>6 DEF w, tx

LEMMA SerialWriteKeeps == ASSUME SerialInv, SerialWrite PROVE SerialInv'
<1> DEFINE byte == Head(cpu.text)  text == Tail(cpu.text)
<1>p. PICK p \in 1 .. PORTS : p = STDOUT_SERIAL BY StateFacts DEF SerialInv
<1>0. /\ TypeOK /\ CpuInv /\ uart \in [1 .. PORTS -> Uart] /\ UartOK(uart[p])
      /\ cpu.text \in Seq(Byte) /\ cpu.text # <<>> /\ PortInv(p)
  BY StateFacts DEF SerialInv, SerialWrite
<1>1. byte \in Byte /\ text \in Seq(Byte) BY <1>0, FifoGives
<1>2. /\ cpu' = [cpu EXCEPT !.text = text] /\ cpu.step = 1
      /\ UNCHANGED <<stdout, found, wire, input, noise, peer>>
  BY <1>0 DEF SerialWrite, CpuInv
<1>3. /\ cpu' \in [port : 1 .. PORTS + 1, step : 1 .. Len(DetectSteps), text : Seq(Byte)]
      /\ cpu'.port = cpu.port /\ cpu'.step = cpu.step
  BY <1>0, <1>1, <1>2 DEF TypeOK
<1>4. sent' \in {sent, Append(sent, byte)} BY DEF SerialWrite
<1>5. /\ sent' \in Seq(Byte)
      /\ \A q \in 1 .. PORTS : Subsequence(wire[q] \o uart[q].tx, sent')
  <2>1. \A q \in 1 .. PORTS : Subsequence(wire[q] \o uart[q].tx, sent)
    BY DEF SerialInv, PortInv
  <2> HIDE DEF byte
  <2>2. CASE sent' = sent BY <1>0, <2>1, <2>2 DEF TypeOK
  <2>3. CASE sent' = Append(sent, byte)
    <3>1. \A q \in 1 .. PORTS : Subsequence(wire[q] \o uart[q].tx, sent')
      BY <1>1, <2>3, OutputGrows
    <3>2. sent' \in Seq(Byte) BY <1>p, <1>1, <2>3, OutputGrows
    <3> QED BY <3>1, <3>2
  <2> QED BY <1>4, <2>2, <2>3
<1>6. /\ uart' \in [1 .. PORTS -> Uart] /\ UartOK(uart'[p])
      /\ \A q \in 1 .. PORTS : q # p => uart'[q] = uart[q]
      /\ Ready(uart[p]) => Ready(uart'[p]) /\ uart'[p].rx = uart[p].rx
      /\ Subsequence(wire[p] \o uart'[p].tx, sent')
  <2>1. CASE stdout = "serial" /\ p \in Present
    <3> DEFINE u == uart[p]  v == Accessed(u, Out("DATA", byte))
    <3>1. uart' = [uart EXCEPT ![p] = v] /\ sent' = Append(sent, byte)
      BY <1>p, <2>1 DEF SerialWrite, Access
    <3> HIDE DEF byte
    <3>2. /\ UartOK(v) /\ v.tx \in {u.tx, InFifo(u.tx, byte)}
          /\ Ready(u) => Ready(v) /\ v.rx = u.rx
      BY <1>0, <1>1, DataWritten
    <3>3. /\ Subsequence(wire[p] \o u.tx, sent')
          /\ Subsequence(wire[p] \o InFifo(u.tx, byte), sent')
      BY <1>1, <3>1, OutputGrows
    <3> HIDE DEF u, v
    <3>4. /\ uart'[p] = v /\ \A q \in 1 .. PORTS : q # p => uart'[q] = uart[q]
          /\ uart' \in [1 .. PORTS -> Uart]
      BY <1>0, <3>1, <3>2 DEF UartOK
    <3> QED BY <3>2, <3>3, <3>4 DEF u
  <2>2. CASE ~(stdout = "serial" /\ p \in Present)
    <3>1. uart' = uart BY <1>p, <2>2 DEF SerialWrite, Access
    <3> QED BY <1>0, <1>5, <3>1
  <2> QED BY <2>1, <2>2
<1>7. PortInv(p)'
  <2>1. AtRest(p)' <=> AtRest(p) BY <1>3 DEF AtRest
  <2> QED BY <1>0, <1>2, <1>p, <1>6, <2>1 DEF PortInv
<1>8. Under(cpu.step, uart'[p], p \in noise') BY <1>2 DEF Under
<1> HIDE DEF text
<1>9. peer' \in 0 .. MaxPeer /\ wire' \in [1 .. PORTS -> Seq(Byte)]
      /\ input' \in [1 .. PORTS -> Seq(Byte)]
  BY <1>0, <1>2 DEF TypeOK
<1> QED BY <1>0, <1>2, <1>3, <1>5, <1>6, <1>7, <1>8, <1>9, StepKeeps

LEMMA SendKeeps == ASSUME SerialInv, NEW p \in Present, Send(p) PROVE SerialInv'
<1> DEFINE u == uart[p]  w == wire[p]  t == Tail(u.tx)  byte == Head(u.tx)
           v == [u EXCEPT !.tx = t]
<1>0. /\ TypeOK /\ CpuInv /\ uart \in [1 .. PORTS -> Uart] /\ UartOK(u) /\ PortInv(p)
      /\ p \in 1 .. PORTS /\ u.tx # <<>>
  BY StateFacts DEF SerialInv, Send
<1>1. /\ uart' = [uart EXCEPT ![p] = v] /\ wire' = [wire EXCEPT ![p] = Append(w, byte)]
      /\ UNCHANGED <<cpu, stdout, found, sent, input, noise, peer>>
  BY <1>0 DEF Send
<1>2. u \in Uart /\ u.tx \in Seq(Byte) /\ Len(u.tx) <= DEPTH /\ w \in Seq(Byte)
  BY <1>0 DEF UartOK, Uart, TypeOK
<1>3. /\ byte \in Byte /\ t \in Seq(Byte) /\ Len(t) <= DEPTH
      /\ Append(w, byte) \o t = w \o u.tx
  <2>1. /\ byte \in Byte /\ t \in Seq(Byte) /\ Len(t) = Len(u.tx) - 1
        /\ Len(u.tx) \in Nat
    BY <1>0, <1>2, FifoGives
  <2>2. Len(t) <= DEPTH BY <1>2, <2>1, PortAssumption
  <2> HIDE DEF w
  <2> QED BY <1>0, <1>2, <2>1, <2>2, LineMoves
<1>4. Append(w, byte) \in Seq(Byte) BY <1>2, <1>3
<1> HIDE DEF t, byte
<1>5. /\ v \in Uart /\ v.tx = t
      /\ v.rx = u.rx /\ v.scratch = u.scratch /\ v.line = u.line /\ v.modem = u.modem
      /\ v.interrupts = u.interrupts /\ v.low = u.low /\ v.high = u.high /\ v.fifo = u.fifo
  BY <1>2, <1>3 DEF Uart
<1> HIDE DEF v
<1>6. /\ uart' \in [1 .. PORTS -> Uart] /\ uart'[p] = v
      /\ \A q \in 1 .. PORTS : q # p => uart'[q] = uart[q]
  BY <1>0, <1>1, <1>5
<1> DEFINE x == Append(w, byte)
<1> HIDE DEF x
<1>7. /\ wire' \in [1 .. PORTS -> Seq(Byte)] /\ wire'[p] = x
      /\ \A q \in 1 .. PORTS : q # p => wire'[q] = wire[q]
  BY <1>0, <1>1, <1>4 DEF TypeOK, x
<1>8. UartOK(v) BY <1>0, <1>3, <1>5 DEF UartOK
<1>9. cpu.port = p => Under(cpu.step, v, p \in noise)
  <2>1. cpu.port = p => Under(cpu.step, u, p \in noise) BY <1>0 DEF CpuInv
  <2> QED BY <1>5, <2>1 DEF Under
<1>10. PortInv(p)'
  <2>1. AtRest(p)' <=> AtRest(p) BY <1>1 DEF AtRest
  <2>2. Ready(u) => Ready(v) BY <1>5 DEF Ready
  <2>3. x \o v.tx = w \o u.tx BY <1>3, <1>5 DEF x
  <2> QED BY <1>0, <1>1, <1>5, <1>6, <1>7, <2>1, <2>2, <2>3 DEF PortInv
<1>11. \A q \in 1 .. PORTS : Subsequence(wire[q] \o uart[q].tx, sent')
  BY <1>1 DEF SerialInv, PortInv
<1>12. /\ cpu' \in [port : 1 .. PORTS + 1, step : 1 .. Len(DetectSteps), text : Seq(Byte)]
       /\ cpu' = cpu /\ sent' \in Seq(Byte) /\ input' \in [1 .. PORTS -> Seq(Byte)]
       /\ peer' \in 0 .. MaxPeer
  BY <1>0, <1>1 DEF TypeOK
<1> HIDE DEF u, w
<1> QED BY <1>0, <1>1, <1>6, <1>7, <1>8, <1>9, <1>10, <1>11, <1>12, StepKeeps

LEMMA SerialReadKeeps == ASSUME SerialInv, NEW p \in Present, SerialRead(p) PROVE SerialInv'
<1> DEFINE u == uart[p]  in == input[p]  t == Tail(u.rx)  byte == Head(u.rx)
           v == [u EXCEPT !.rx = t]
<1>0. /\ TypeOK /\ uart \in [1 .. PORTS -> Uart] /\ UartOK(u) /\ PortInv(p)
      /\ p \in 1 .. PORTS /\ u.rx # <<>> /\ cpu.port # p /\ found[p] = "found"
  BY StateFacts DEF SerialInv, SerialRead
<1>1. /\ uart' = [uart EXCEPT ![p] = v] /\ input' = [input EXCEPT ![p] = Append(in, byte)]
      /\ UNCHANGED <<cpu, stdout, found, sent, wire, noise, peer>>
  BY <1>0 DEF SerialRead
<1>2. u \in Uart /\ u.rx \in Seq(Byte) /\ Len(u.rx) <= DEPTH /\ in \in Seq(Byte)
  BY <1>0 DEF UartOK, Uart, TypeOK
<1>3. Ready(u) /\ AllIn(u.rx, PeerBytes) /\ AllIn(in, PeerBytes)
  BY <1>0 DEF PortInv, AtRest
<1>4. /\ byte \in PeerBytes /\ byte \in Byte /\ t \in Seq(Byte)
      /\ AllIn(t, PeerBytes) /\ Len(t) <= DEPTH
  <2>1. /\ byte \in Byte /\ t \in Seq(Byte) /\ Len(t) = Len(u.rx) - 1
        /\ Len(u.rx) \in Nat /\ byte \in PeerBytes /\ AllIn(t, PeerBytes)
    BY <1>0, <1>2, <1>3, FifoGives
  <2>2. Len(t) <= DEPTH BY <1>2, <2>1, PortAssumption
  <2> QED BY <2>1, <2>2
<1> HIDE DEF t, byte, in
<1> DEFINE x == Append(in, byte)
<1>5. x \in Seq(Byte) /\ AllIn(x, PeerBytes)
  <2>1. /\ x \in Seq(Byte) /\ Len(x) = Len(in) + 1 /\ x[Len(in) + 1] = byte
        /\ Len(in) \in Nat /\ \A i \in 1 .. Len(in) : x[i] = in[i]
    BY <1>2, <1>4, AppendProperties
  <2> HIDE DEF x
  <2>2. ASSUME NEW i \in 1 .. Len(x) PROVE x[i] \in PeerBytes
    <3>1. CASE i = Len(in) + 1 BY <1>4, <2>1, <3>1
    <3>2. CASE i \in 1 .. Len(in) BY <1>3, <2>1, <3>2 DEF AllIn
    <3> QED BY <2>1, <3>1, <3>2
  <2> QED BY <2>1, <2>2 DEF AllIn
<1> HIDE DEF x
<1>6. /\ v \in Uart /\ v.rx = t
      /\ v.tx = u.tx /\ v.line = u.line /\ v.modem = u.modem
      /\ v.interrupts = u.interrupts /\ v.low = u.low /\ v.high = u.high /\ v.fifo = u.fifo
  BY <1>2, <1>4 DEF Uart
<1> HIDE DEF v
<1>7. /\ uart' \in [1 .. PORTS -> Uart] /\ uart'[p] = v
      /\ \A q \in 1 .. PORTS : q # p => uart'[q] = uart[q]
  BY <1>0, <1>1, <1>6
<1>8. /\ input' \in [1 .. PORTS -> Seq(Byte)] /\ input'[p] = x
      /\ \A q \in 1 .. PORTS : q # p => input'[q] = input[q]
  BY <1>0, <1>1, <1>5 DEF TypeOK, x
<1>9. UartOK(v) BY <1>0, <1>4, <1>6 DEF UartOK
<1>10. PortInv(p)'
  <2>1. Ready(v) /\ p \in Present BY <1>3, <1>6 DEF Ready
  <2> QED BY <1>0, <1>1, <1>4, <1>5, <1>6, <1>7, <1>8, <2>1 DEF PortInv
<1>11. \A q \in 1 .. PORTS : Subsequence(wire[q] \o uart[q].tx, sent')
  BY <1>1 DEF SerialInv, PortInv
<1>12. /\ cpu' \in [port : 1 .. PORTS + 1, step : 1 .. Len(DetectSteps), text : Seq(Byte)]
       /\ cpu' = cpu /\ sent' \in Seq(Byte) /\ wire' \in [1 .. PORTS -> Seq(Byte)]
       /\ peer' \in 0 .. MaxPeer
  BY <1>0, <1>1 DEF TypeOK
<1> HIDE DEF u
<1> QED BY <1>0, <1>1, <1>7, <1>8, <1>9, <1>10, <1>11, <1>12, StepKeeps

(* The only bytes of a peer that serial_detect can stumble over are those  *)
(* before access 10, when noise is set.                                    *)
LEMMA Window == ASSUME NEW p, cpu.port = p, cpu.step = 10 PROVE InWindow(p)
<1> DEFINE o == Out("MODEM_CONTROL", {"DTR", "RTS", "LOOPBACK"})
<1>1. o.reg = "MODEM_CONTROL" /\ o.val = {"DTR", "RTS", "LOOPBACK"} BY DEF Out
<1>2. DetectSteps[10] = o BY Steps
<1> HIDE DEF o
<1> QED BY <1>1, <1>2 DEF InWindow

LEMMA PeerSendKeeps == ASSUME SerialInv, NEW p \in Present, PeerSend(p) PROVE SerialInv'
<1> DEFINE u == uart[p]
<1>0. /\ TypeOK /\ CpuInv /\ uart \in [1 .. PORTS -> Uart] /\ UartOK(u) /\ PortInv(p)
      /\ p \in 1 .. PORTS /\ cpu.step \in 1 .. 13
  BY StateFacts DEF SerialInv
<1>1. PICK byte \in PeerBytes :
        uart' = [uart EXCEPT ![p].rx =
                   IF "LOOPBACK" \in uart[p].modem THEN @ ELSE InFifo(@, byte)]
  BY DEF PeerSend
<1> DEFINE f == IF "LOOPBACK" \in u.modem THEN u.rx ELSE InFifo(u.rx, byte)
           v == [u EXCEPT !.rx = f]
<1>2. uart' = [uart EXCEPT ![p] = v] BY <1>0, <1>1
<1>3. /\ u \in Uart /\ u.rx \in Seq(Byte) /\ Len(u.rx) <= DEPTH /\ byte \in Byte
  BY <1>0 DEF UartOK, Uart, Byte
<1>4. /\ f \in Seq(Byte) /\ Len(f) <= DEPTH
      /\ AllIn(u.rx, PeerBytes) => AllIn(f, PeerBytes)
      /\ "LOOPBACK" \in u.modem => f = u.rx
  <2> DEFINE g == InFifo(u.rx, byte)
  <2>1. g \in Seq(Byte) /\ Len(g) <= DEPTH /\ (AllIn(u.rx, PeerBytes) => AllIn(g, PeerBytes))
    BY <1>3, FifoTakes
  <2>2. f = IF "LOOPBACK" \in u.modem THEN u.rx ELSE g OBVIOUS
  <2> HIDE DEF f, g
  <2> QED BY <1>3, <2>1, <2>2
<1> HIDE DEF f
<1>5. /\ v \in Uart /\ v.rx = f
      /\ v.tx = u.tx /\ v.scratch = u.scratch /\ v.line = u.line /\ v.modem = u.modem
      /\ v.interrupts = u.interrupts /\ v.low = u.low /\ v.high = u.high /\ v.fifo = u.fifo
  BY <1>3, <1>4 DEF Uart
<1> HIDE DEF v
<1>6. /\ uart' \in [1 .. PORTS -> Uart] /\ uart'[p] = v
      /\ \A q \in 1 .. PORTS : q # p => uart'[q] = uart[q]
  BY <1>0, <1>2, <1>5
<1>7. UartOK(v) BY <1>0, <1>4, <1>5 DEF UartOK
<1>8. /\ UNCHANGED <<cpu, stdout, found, sent, wire, input>> /\ peer' \in 0 .. MaxPeer
      /\ noise' \in {noise, noise \cup {p}} /\ (InWindow(p) => p \in noise')
  <2>1. peer' = peer + 1 /\ peer < MaxPeer BY DEF PeerSend
  <2>2. peer' \in 0 .. MaxPeer BY <1>0, <2>1, PortAssumption DEF TypeOK
  <2> QED BY <2>2 DEF PeerSend
<1>9. cpu.port = p => Under(cpu.step, v, p \in noise')
  <2> SUFFICES ASSUME cpu.port = p PROVE Under(cpu.step, v, p \in noise') OBVIOUS
  <2>1. Under(cpu.step, u, p \in noise) BY <1>0 DEF CpuInv
  <2>2. CASE cpu.step >= 11
    <3>1. f = u.rx BY <1>4, <2>1, <2>2 DEF Under
    <3>2. p \in noise => p \in noise' BY <1>8
    <3> QED BY <1>5, <2>1, <2>2, <3>1, <3>2 DEF Under
  <2>3. CASE cpu.step = 10
    <3>1. p \in noise' BY <1>8, <2>3, Window
    <3> QED BY <1>4, <1>5, <2>1, <2>3, <3>1 DEF Under
  <2>4. CASE cpu.step < 10 BY <1>0, <1>5, <2>1, <2>4 DEF Under
  <2> QED BY <1>0, <2>2, <2>3, <2>4
<1>10. PortInv(p)'
  <2>1. AtRest(p)' <=> AtRest(p) BY <1>8 DEF AtRest
  <2>2. Ready(u) => Ready(v) BY <1>5 DEF Ready
  <2>3. p \in noise => p \in noise' BY <1>8
  <2> QED BY <1>0, <1>4, <1>5, <1>6, <1>8, <2>1, <2>2, <2>3 DEF PortInv
<1>11. \A q \in 1 .. PORTS : Subsequence(wire[q] \o uart[q].tx, sent')
  BY <1>8 DEF SerialInv, PortInv
<1>12. /\ cpu' \in [port : 1 .. PORTS + 1, step : 1 .. Len(DetectSteps), text : Seq(Byte)]
       /\ cpu' = cpu /\ sent' \in Seq(Byte) /\ wire' \in [1 .. PORTS -> Seq(Byte)]
       /\ input' \in [1 .. PORTS -> Seq(Byte)]
  BY <1>0, <1>8 DEF TypeOK
<1> HIDE DEF u
<1> QED BY <1>0, <1>6, <1>7, <1>8, <1>9, <1>10, <1>11, <1>12, StepKeeps

LEMMA SerialInitOK == Init => SerialInv
<1> SUFFICES ASSUME Init PROVE SerialInv OBVIOUS
<1>1. PICK line \in SUBSET {"DIV_LATCH", "8N1"}, modem \in SUBSET {"LOOPBACK"} :
        uart = [p \in 1 .. PORTS |->
          [scratch |-> FLOATING, line |-> line, modem |-> modem,
           interrupts |-> "any", low |-> "any", high |-> "any", fifo |-> FALSE,
           tx |-> <<>>, rx |-> <<>>]]
  BY DEF Init
<1>2. /\ uart \in [1 .. PORTS -> Uart]
      /\ \A p \in 1 .. PORTS : uart[p].tx = <<>> /\ uart[p].rx = <<>>
  BY <1>1, EmptyFifo DEF Uart
<1>3. /\ cpu \in [port : 1 .. PORTS + 1, step : 1 .. Len(DetectSteps), text : Seq(Byte)]
      /\ cpu.step = 1
  <2>1. 1 \in 1 .. PORTS + 1 /\ 1 \in 1 .. Len(DetectSteps)
    BY StepCount, PortAssumption
  <2>2. Banner \in Seq(Byte) /\ <<>> \in Seq(Byte) BY OutputAssumption DEF Byte
  <2>3. \E text \in Seq(Byte) : cpu = [port |-> 1, step |-> 1, text |-> text]
    BY <2>2 DEF Init, STDOUT_SERIAL
  <2> QED BY <2>1, <2>3
<1>4. /\ stdout \in {"none", "serial", "framebuffer"}
      /\ found = [p \in 1 .. PORTS |-> "unknown"] /\ sent = <<>> /\ noise = {} /\ peer = 0
      /\ wire = [p \in 1 .. PORTS |-> <<>>] /\ input = [p \in 1 .. PORTS |-> <<>>]
  BY DEF Init
<1>5. TypeOK
  <2>1. \A p \in 1 .. PORTS : Len(uart[p].tx) <= DEPTH /\ Len(uart[p].rx) <= DEPTH
    BY <1>2, EmptyFifo, PortAssumption
  <2>2. 0 \in 0 .. MaxPeer BY PortAssumption
  <2>3. <<>> \in Seq(Byte) BY EmptyFifo
  <2> QED BY <1>2, <1>3, <1>4, <2>1, <2>2, <2>3 DEF TypeOK
<1>6. CpuInv BY <1>3 DEF CpuInv, Under
<1>7. ASSUME NEW p \in 1 .. PORTS PROVE PortInv(p)
  <2>1. /\ found[p] = "unknown" /\ wire[p] = <<>> /\ input[p] = <<>>
        /\ uart[p].tx = <<>>
    BY <1>2, <1>4
  <2>2. <<>> \o <<>> = <<>> OBVIOUS
  <2>3. Subsequence(wire[p] \o uart[p].tx, sent) BY <2>1, <2>2, EmptySubsequence
  <2> QED BY <2>1, <2>3, EmptyFifo DEF PortInv
<1> QED BY <1>5, <1>6, <1>7 DEF SerialInv

LEMMA SerialStepOK == SerialInv /\ [Next]_vars => SerialInv'
<1> SUFFICES ASSUME SerialInv, [Next]_vars PROVE SerialInv' OBVIOUS
<1>1. CASE SerialDetect BY <1>1, DetectKeeps
<1>2. CASE SerialWrite BY <1>2, SerialWriteKeeps
<1>3. ASSUME NEW p \in Present, Send(p) PROVE SerialInv' BY <1>3, SendKeeps
<1>4. ASSUME NEW p \in Present, SerialRead(p) PROVE SerialInv' BY <1>4, SerialReadKeeps
<1>5. ASSUME NEW p \in Present, PeerSend(p) PROVE SerialInv' BY <1>5, PeerSendKeeps
<1>6. CASE UNCHANGED vars
  <2>1. TypeOK' BY <1>6 DEF vars, SerialInv, TypeOK
  <2>2. CpuInv' BY <1>6 DEF vars, SerialInv, CpuInv
  <2>3. ASSUME NEW p \in 1 .. PORTS PROVE PortInv(p)'
    BY <1>6 DEF vars, SerialInv, PortInv, AtRest
  <2> QED BY <2>1, <2>2, <2>3 DEF SerialInv
<1> QED BY <1>1, <1>2, <1>3, <1>4, <1>5, <1>6 DEF Next

------------------------------------------------------------------------------
(* The theorems *)

(* Every state of the ports satisfies the invariant: before each access of *)
(* serial_detect the chip is as that access needs it, whatever the peers   *)
(* send in between, and every port is as PortInv says.                     *)
THEOREM Invariant == Spec => []SerialInv
BY SerialInitOK, SerialStepOK, PTL DEF Spec

(* The variables keep their types, and no FIFO holds more than its depth.  *)
THEOREM TypeCorrect == Spec => []TypeOK
<1>1. SerialInv => TypeOK BY DEF SerialInv
<1> QED BY <1>1, Invariant, PTL

(* A port for which serial_detect returned true has a chip that is set up, *)
(* and stays so whatever is written to it.                                 *)
THEOREM FoundStaysReady == Spec => []FoundIsReady
<1>1. SerialInv => FoundIsReady BY DEF SerialInv, PortInv, FoundIsReady
<1> QED BY <1>1, Invariant, PTL

(* serial_detect returns false for a chip only when its peer sent a byte   *)
(* between the clearing of the input and the loopback.                     *)
THEOREM OnlyNoiseHidesChips == Spec => []MissedOnlyByNoise
<1>1. SerialInv => MissedOnlyByNoise
  BY StateFacts DEF SerialInv, PortInv, MissedOnlyByNoise
<1> QED BY <1>1, Invariant, PTL

(* serial_read returns bytes of the peer, never that of the loopback test. *)
THEOREM InputStaysGenuine == Spec => []InputGenuine
<1>1. SerialInv => InputGenuine
  <2> SUFFICES ASSUME SerialInv, NEW p \in 1 .. PORTS
               PROVE  /\ ToSet(input[p]) \subseteq PeerBytes
                      /\ found[p] = "found" /\ AtRest(p) =>
                           ToSet(uart[p].rx) \subseteq PeerBytes
    BY DEF InputGenuine
  <2>1. PortInv(p) /\ TypeOK BY DEF SerialInv
  <2> DEFINE in == input[p]  rx == uart[p].rx
  <2>2. in \in Seq(Byte) /\ rx \in Seq(Byte) BY <2>1 DEF TypeOK, Uart
  <2>3. AllIn(in, PeerBytes) /\ (found[p] = "found" /\ AtRest(p) => AllIn(rx, PeerBytes))
    BY <2>1 DEF PortInv
  <2> HIDE DEF in, rx
  <2>4. /\ ToSet(in) \subseteq PeerBytes
        /\ AllIn(rx, PeerBytes) => ToSet(rx) \subseteq PeerBytes
    BY <2>2, <2>3, AllInIs
  <2> QED BY <2>3, <2>4 DEF in, rx
<1> QED BY <1>1, Invariant, PTL

(* What the peers receive.  WireGetsOutput follows from it, and says the   *)
(* same when no byte is printed twice; the output of the kernel has bytes  *)
(* that are, and this holds for it as well.                                *)
WireInOrder ==
  \A p \in 1 .. PORTS :
    /\ wire[p] # <<>> => p = STDOUT_SERIAL
    /\ Subsequence(wire[p], sent)

(* What a peer receives is part of what was printed, in the same order, on *)
(* the port of stdout only; the loopback test never reaches a line.        *)
THEOREM WireStaysInOrder == Spec => []WireInOrder
<1>1. SerialInv => WireInOrder
  <2> SUFFICES ASSUME SerialInv, NEW p \in 1 .. PORTS
               PROVE  /\ wire[p] # <<>> => p = STDOUT_SERIAL
                      /\ Subsequence(wire[p], sent)
    BY DEF WireInOrder
  <2>1. PortInv(p) /\ TypeOK BY DEF SerialInv
  <2> DEFINE w == wire[p]  tx == uart[p].tx
  <2>2. w \in Seq(Byte) /\ tx \in Seq(Byte) BY <2>1 DEF TypeOK, Uart
  <2>3. Subsequence(w \o tx, sent) BY <2>1 DEF PortInv
  <2> HIDE DEF w, tx
  <2>4. Subsequence(w, sent) BY <2>2, <2>3, SubsequencePrefix
  <2> QED BY <2>1, <2>4 DEF PortInv, w
<1> QED BY <1>1, Invariant, PTL

(* Bytes reach the peer of stdout in the order in which they were printed, *)
(* and no other byte reaches it, nor any byte another peer.                *)
THEOREM WireOnlyGetsOutput == Spec => []WireGetsOutput
<1>1. TypeOK /\ WireInOrder => WireGetsOutput
  <2> SUFFICES ASSUME TypeOK, WireInOrder, NEW p \in 1 .. PORTS
               PROVE  (wire[p] # <<>> => p = STDOUT_SERIAL) /\ InOrder(wire[p], sent)
    BY DEF WireGetsOutput
  <2> DEFINE w == wire[p]
  <2>1. w \in Seq(Byte) /\ sent \in Seq(Byte) BY DEF TypeOK
  <2>2. Subsequence(w, sent) BY DEF WireInOrder
  <2> HIDE DEF w
  <2>3. InOrder(w, sent) BY <2>1, <2>2, SubsequenceInOrder
  <2> QED BY <2>3 DEF WireInOrder, w
<1> QED BY <1>1, TypeCorrect, WireStaysInOrder, PTL

------------------------------------------------------------------------------
(* The size of a character on the screen *)

W == FONT_CHAR_WIDTH
H == FONT_CHAR_HEIGHT

------------------------------------------------------------------------------
(* Arithmetic *)

(* Multiplication keeps order. *)
LEMMA TimesMonotonic ==
  ASSUME NEW k \in Nat, NEW n \in Nat, NEW m \in Nat, n <= m
  PROVE  k * n \in Nat /\ k * m \in Nat /\ k * n <= k * m
OBVIOUS

(* A place has one row and one column: n units of k and a rest below k.    *)
LEMMA PlaceUnique ==
  ASSUME NEW k \in Nat, NEW n \in Nat, NEW m \in Nat,
         NEW r \in Nat, NEW s \in Nat, r < k, s < k,
         k * n + r = k * m + s
  PROVE  n = m /\ r = s
<1>1. ASSUME NEW i \in Nat, NEW j \in Nat, i < j
      PROVE  k * i \in Nat /\ k * j \in Nat /\ k * i + k <= k * j
  <2>1. k * (i + 1) <= k * j /\ k * j \in Nat
    BY <1>1, TimesMonotonic
  <2>2. k * (i + 1) = k * i + k /\ k * i \in Nat
    BY TimesMonotonic
  <2> QED BY <2>1, <2>2
<1>2. ~ (n < m)
  <2>1. SUFFICES ASSUME n < m PROVE FALSE OBVIOUS
  <2>2. k * n \in Nat /\ k * m \in Nat /\ k * n + k <= k * m BY <1>1, <2>1
  <2> QED BY <2>2
<1>3. ~ (m < n)
  <2>1. SUFFICES ASSUME m < n PROVE FALSE OBVIOUS
  <2>2. k * n \in Nat /\ k * m \in Nat /\ k * m + k <= k * n BY <1>1, <2>1
  <2> QED BY <2>2
<1>4. n = m BY <1>2, <1>3
<1>5. k * n \in Nat BY TimesMonotonic
<1> QED BY <1>4, <1>5

------------------------------------------------------------------------------
(* The invariant *)

(* The cursor is behind the text shown, which begins at the top left, and  *)
(* every character of it was drawn where the row had not ended.            *)
CursorAtEnd ==
  /\ shown \in Seq(Seq(Char)) /\ Len(shown) > 0
  /\ cursor = [x |-> W * Len(shown[Len(shown)]), y |-> H * (Len(shown) - 1)]
  /\ \A row \in DOMAIN shown :
       Len(shown[row]) > 0 => W * (Len(shown[row]) - 1) <= screen.width

CpuOK ==
  /\ cpu \in [port : Nat \ {0}, step : Nat, text : Seq(Char)]
  /\ stdout \in {"none", "serial", "framebuffer"}

ScreenOK == IF stdout = "framebuffer" THEN screen \in Screens ELSE Dark

IInv == CpuOK /\ ScreenOK /\ CursorAtEnd /\ OverrunBounded /\ TextReadable

------------------------------------------------------------------------------
(* Drawing a character *)

(* Facts on the sizes. *)
LEMMA Sizes ==
  ASSUME screen \in Screens
  PROVE  /\ W \in Nat \ {0} /\ H \in Nat \ {0}
         /\ screen.width \in Nat \ {0} /\ screen.height \in Nat \ {0}
         /\ screen.pitch \in Nat \ {0}
         /\ screen.width <= screen.pitch /\ W <= screen.width
BY ScreenAssumption DEF W, H

(* The cursor is within the screen. *)
LEMMA CursorNat ==
  ASSUME screen \in Screens, CursorAtEnd
  PROVE  /\ cursor.x \in Nat /\ cursor.y \in Nat
         /\ cursor = [x |-> cursor.x, y |-> cursor.y]
<1>1. Len(shown) \in Nat \ {0} /\ Len(shown[Len(shown)]) \in Nat
  BY DEF CursorAtEnd
<1>2. /\ W * Len(shown[Len(shown)]) \in Nat
      /\ H * (Len(shown) - 1) \in Nat
  BY <1>1, Sizes, TimesMonotonic, SMTT(30)
<1> QED BY <1>2 DEF CursorAtEnd

(* What is drawn of a character keeps within a character of the screen.    *)
LEMMA OverrunOfOne ==
  ASSUME screen \in Screens, CursorAtEnd, OverrunBounded, NEW c \in Char,
         NEW a \in DOMAIN Drawn(c, cursor.x, cursor.y)
  PROVE  a < Pixel(screen.width + FONT_CHAR_WIDTH, screen.height + FONT_CHAR_HEIGHT - 1)
<1>1. CASE a \in DOMAIN pixel
  BY <1>1 DEF OverrunBounded
<1>2. CASE a \notin DOMAIN pixel
  <2>1. PICK d \in Dots : a = Pixel(cursor.x + d[1], cursor.y + d[2])
    BY <1>2 DEF Drawn
  <2>2. /\ d[1] \in Nat /\ d[1] <= W - 1 /\ d[2] \in Nat /\ d[2] <= H - 1
    BY Sizes DEF Dots, W, H
  <2>3. cursor.x \in Nat /\ cursor.y \in Nat BY CursorNat
  <2>4. cursor.y + d[2] <= screen.height + H - 1
    BY <2>2, <2>3, Sizes DEF OverrunBounded
  <2>5. screen.pitch * (cursor.y + d[2]) <= screen.pitch * (screen.height + H - 1)
        /\ screen.pitch * (cursor.y + d[2]) \in Nat
        /\ screen.pitch * (screen.height + H - 1) \in Nat
    BY <2>2, <2>3, <2>4, Sizes, TimesMonotonic
  <2>6. cursor.x + d[1] < screen.width + W
    BY <2>2, <2>3, Sizes DEF OverrunBounded
  <2> QED BY <2>1, <2>2, <2>3, <2>5, <2>6, Sizes DEF Pixel, W, H
<1> QED BY <1>1, <1>2

(* The memory of dot d of the character in a column of a row of text. *)
At(row, column, d) == Pixel((column - 1) * W + d[1], (row - 1) * H + d[2])

(* A dot of the last character drawn takes the place of no dot that is on  *)
(* the screen, unless that is one of the first character of its line and   *)
(* the line has run over.                                                  *)
LEMMA CellsApart ==
  ASSUME screen \in Screens, NEW d \in Dots, NEW e \in Dots,
         NEW n \in Nat \ {0}, NEW m \in Nat \ {0}, W * (m - 1) <= screen.width,
         NEW row \in Nat \ {0}, NEW column \in Nat \ {0}, row <= n,
         (column - 1) * W + e[1] < screen.width,
         column > 1 \/ row # n \/ W * m <= screen.pitch,
         At(row, column, e) = At(n, m, d)
  PROVE  row = n /\ column = m /\ e = d
<1>1. /\ d[1] \in Nat /\ d[1] < W /\ d[2] \in Nat /\ d[2] < H /\ d = <<d[1], d[2]>>
      /\ e[1] \in Nat /\ e[1] < W /\ e[2] \in Nat /\ e[2] < H /\ e = <<e[1], e[2]>>
  BY Sizes DEF Dots, W, H
<1>2. ASSUME NEW i \in Nat \ {0}, NEW k \in Nat
      PROVE  /\ k * i \in Nat /\ k * (i - 1) \in Nat
             /\ (i - 1) * k = k * (i - 1) /\ k * i = k * (i - 1) + k
  OBVIOUS
<1> DEFINE x == W * (m - 1) + d[1]
           y == H * (n - 1) + d[2]
           u == W * (column - 1) + e[1]
           v == H * (row - 1) + e[2]
<1>3. x \in Nat /\ y \in Nat /\ u \in Nat /\ v \in Nat
  BY <1>1, <1>2, Sizes
<1>4. u < screen.pitch
  <2>1. (column - 1) * W = W * (column - 1) /\ W * (column - 1) \in Nat BY <1>2, Sizes
  <2> QED BY <1>1, <2>1, Sizes
<1>5. screen.pitch * y + x = screen.pitch * v + u
  <2>1. (m - 1) * W = W * (m - 1) /\ (column - 1) * W = W * (column - 1) BY <1>2, Sizes
  <2>2. (n - 1) * H = H * (n - 1) /\ (row - 1) * H = H * (row - 1) BY <1>2, Sizes
  <2> QED BY <2>1, <2>2 DEF At, Pixel
<1>6. x < screen.pitch
  <2> SUFFICES ASSUME screen.pitch <= x PROVE FALSE BY <1>3, Sizes
  <2> DEFINE z == x - screen.pitch
  <2>1. z \in Nat /\ z < W /\ z < screen.pitch /\ x = screen.pitch + z
    <3>1. W * (m - 1) \in Nat BY <1>2, Sizes
    <3> QED BY <1>1, <1>3, <3>1, Sizes
  <2>2. v = y + 1 /\ u = z
    <3> HIDE DEF x, y, u, v, z
    <3>1. screen.pitch * (y + 1) = screen.pitch * y + screen.pitch
          /\ screen.pitch * y \in Nat /\ screen.pitch * v \in Nat
      BY <1>3, Sizes
    <3>2. screen.pitch * (y + 1) + z = screen.pitch * v + u
      BY <1>3, <1>5, <2>1, <3>1, Sizes
    <3> QED BY <1>3, <1>4, <2>1, <3>2, Sizes, PlaceUnique
  <2>3. row = n
    <3> SUFFICES ASSUME row < n PROVE FALSE OBVIOUS
    <3>1. H * row = H * (row - 1) + H /\ H * (row - 1) \in Nat BY <1>2, Sizes
    <3>2. H * row <= H * (n - 1) /\ H * (n - 1) \in Nat BY Sizes, TimesMonotonic
    <3> QED BY <1>1, <2>2, <3>1, <3>2, Sizes
  <2>4. column = 1
    <3> SUFFICES ASSUME 1 <= column - 1 PROVE FALSE OBVIOUS
    <3>1. W * 1 <= W * (column - 1) /\ W * 1 = W /\ W * (column - 1) \in Nat
      BY Sizes, TimesMonotonic
    <3> HIDE DEF z
    <3> QED BY <1>1, <2>1, <2>2, <3>1, Sizes
  <2>5. W * m <= screen.pitch /\ W * m = W * (m - 1) + W /\ W * (m - 1) \in Nat
    BY <1>2, <2>3, <2>4, Sizes
  <2> QED BY <1>1, <2>5, Sizes
<1>7. v = y /\ u = x
  <2> HIDE DEF x, y, u, v
  <2> QED BY <1>3, <1>4, <1>5, <1>6, Sizes, PlaceUnique
<1> DEFINE j0 == m - 1  k0 == column - 1  q0 == n - 1  r0 == row - 1
<1>8. /\ j0 \in Nat /\ k0 \in Nat /\ W * j0 + d[1] = W * k0 + e[1]
      /\ q0 \in Nat /\ r0 \in Nat /\ H * q0 + d[2] = H * r0 + e[2]
  BY <1>7
<1>9. j0 = k0 /\ d[1] = e[1] /\ q0 = r0 /\ d[2] = e[2]
  <2> HIDE DEF j0, k0, q0, r0
  <2> DEFINE d1 == d[1]  e1 == e[1]  d2 == d[2]  e2 == e[2]
  <2>1. /\ d1 \in Nat /\ d1 < W /\ e1 \in Nat /\ e1 < W /\ W * j0 + d1 = W * k0 + e1
        /\ d2 \in Nat /\ d2 < H /\ e2 \in Nat /\ e2 < H /\ H * q0 + d2 = H * r0 + e2
    BY <1>1, <1>8
  <2>2. W \in Nat /\ H \in Nat BY Sizes
  <2> HIDE DEF d1, d2, e1, e2
  <2>3. j0 = k0 /\ d1 = e1 BY <2>1, <2>2, <1>8, PlaceUnique
  <2>4. q0 = r0 /\ d2 = e2 BY <2>1, <2>2, <1>8, PlaceUnique
  <2> QED BY <2>3, <2>4 DEF d1, d2, e1, e2
<1> QED BY <1>1, <1>9

(* The lines of the text with character c at the end. *)
Lines(c) == [shown EXCEPT ![Len(shown)] = Append(@, c)]

LEMMA LinesShown ==
  ASSUME CursorAtEnd, NEW c \in Char
  PROVE  /\ Lines(c) \in Seq(Seq(Char)) /\ Len(Lines(c)) = Len(shown)
         /\ Len(shown) \in DOMAIN shown
         /\ Lines(c)[Len(shown)] = Append(shown[Len(shown)], c)
         /\ \A row \in DOMAIN shown :
              row # Len(shown) => Lines(c)[row] = shown[row]
<1> DEFINE n == Len(shown)
<1>1. n \in DOMAIN shown /\ shown \in Seq(Seq(Char))
  BY DEF CursorAtEnd
<1>2. Append(shown[n], c) \in Seq(Char)
  BY <1>1
<1>3. Lines(c) = [row \in 1 .. n |-> IF row = n THEN Append(shown[n], c) ELSE shown[row]]
  <2> DEFINE last == Append(shown[n], c)
  <2>1. DOMAIN shown = 1 .. n BY <1>1
  <2>2. Lines(c) = [shown EXCEPT ![n] = last] BY DEF Lines
  <2> HIDE DEF n, last
  <2>3. [shown EXCEPT ![n] = last] = [row \in DOMAIN shown |-> IF row = n THEN last ELSE shown[row]]
    OBVIOUS
  <2> QED BY <2>1, <2>2, <2>3 DEF last
<1>4. Lines(c) \in [1 .. n -> Seq(Char)]
  BY <1>1, <1>2, <1>3
<1>5. Lines(c) \in Seq(Seq(Char)) /\ Len(Lines(c)) = n
  BY <1>1, <1>3, <1>4
<1> QED BY <1>1, <1>3, <1>5

(* The cursor, the lines and their place go on together. *)
LEMMA CursorMoves ==
  ASSUME screen \in Screens, CursorAtEnd, OverrunBounded,
         NEW c \in Char, FbCookieWrite(c)
  PROVE  /\ CursorAtEnd'
         /\ cursor'.x <= screen.width /\ cursor'.y <= screen.height
<1> DEFINE n == Len(shown)
           m == Len(shown[n])
           wide == W * m
           high == H * (n - 1)
<1>1. n \in Nat \ {0} /\ m \in Nat /\ n \in DOMAIN shown
  BY DEF CursorAtEnd
<1>2. /\ cursor = [x |-> wide, y |-> high]
      /\ wide \in Nat /\ wide <= screen.width
      /\ high \in Nat /\ high <= screen.height
  BY CursorNat DEF CursorAtEnd, OverrunBounded
<1>3. W * (m + 1) = wide + W /\ H * n = high + H
  BY <1>1, Sizes
<1>4. Lines(c) \in Seq(Seq(Char)) /\ Len(Lines(c)) = n /\ Len(Lines(c)[n]) = m + 1
  BY <1>1, LinesShown DEF CursorAtEnd
<1>5. ASSUME NEW row \in DOMAIN Lines(c)
      PROVE  Len(Lines(c)[row]) > 0 => W * (Len(Lines(c)[row]) - 1) <= screen.width
  <2>1. CASE row = n
    <3>1. (m + 1) - 1 = m BY <1>1
    <3> HIDE DEF m, n
    <3>2. Len(Lines(c)[row]) - 1 = m BY <1>4, <2>1, <3>1
    <3> QED BY <1>2, <3>2
  <2>2. CASE row # n
    <3>1. row \in DOMAIN shown BY <1>4 DEF CursorAtEnd
    <3>2. Lines(c)[row] = shown[row] BY <2>2, <3>1, LinesShown
    <3> QED BY <3>1, <3>2 DEF CursorAtEnd
  <2> QED BY <2>1, <2>2
<1>6. screen' = screen BY DEF FbCookieWrite
<1>7. CASE ~EndsLine(c)
  <2>1. cursor' = [cursor EXCEPT !.x = cursor.x + W]
    BY <1>7 DEF FbCookieWrite, W
  <2>2. shown' = Lines(c) BY <1>7 DEF FbCookieWrite, Lines
  <2>3. cursor.x + W <= screen.width /\ cursor.x = wide
    <3> HIDE DEF wide, high
    <3>1. cursor.x = wide BY <1>2
    <3> QED BY <1>2, <3>1, <1>7, Sizes DEF EndsLine, W
  <2>4. cursor' = [x |-> W * (m + 1), y |-> high]
    <3> HIDE DEF wide, high, m, n
    <3> QED BY <1>2, <1>3, <2>1
  <2>5. W * (Len(shown'[Len(shown')])) = W * (m + 1) /\ Len(shown') = n
    BY <1>4, <2>2
  <2>6. W * (m + 1) <= screen.width
    <3> HIDE DEF wide, high, m, n
    <3> QED BY <1>3, <2>3
  <2>7. /\ shown' \in Seq(Seq(Char)) /\ Len(shown') > 0
        /\ cursor' = [x |-> W * Len(shown'[Len(shown')]), y |-> H * (Len(shown') - 1)]
    BY <1>1, <1>4, <2>2, <2>4, <2>5
  <2>8. CursorAtEnd' BY <1>5, <1>6, <2>2, <2>7 DEF CursorAtEnd
  <2> HIDE DEF wide, high, m, n
  <2> QED BY <1>2, <2>4, <2>6, <2>8
<1>8. CASE EndsLine(c) /\ cursor'.y = 0
  <2>1. cursor' = [x |-> 0, y |-> 0] BY <1>8 DEF FbCookieWrite
  <2>2. shown' = <<<<>>>> BY <1>8 DEF FbCookieWrite
  <2>3. W * 0 = 0 /\ H * (1 - 1) = 0 BY Sizes
  <2> QED BY <1>6, <2>1, <2>2, <2>3, Sizes DEF CursorAtEnd
<1>9. CASE EndsLine(c) /\ cursor'.y # 0
  <2>1. cursor' = [x |-> 0, y |-> NextRow] BY <1>9 DEF FbCookieWrite
  <2>2. NextRow = H * n /\ H * n <= screen.height
    <3> HIDE DEF wide, high, m, n
    <3>1. NextRow # 0 BY <1>9, <2>1
    <3>2. cursor.y + H <= screen.height /\ NextRow = cursor.y + H
      BY <1>2, <3>1, Sizes DEF NextRow, H
    <3> QED BY <1>2, <1>3, <3>2
  <2>3. shown' = Append(Lines(c), <<>>) BY <1>9 DEF FbCookieWrite, Lines
  <2>4. W * 0 = 0 BY Sizes
  <2>5. /\ shown' \in Seq(Seq(Char)) /\ Len(shown') = n + 1 /\ shown'[n + 1] = <<>>
        /\ \A row \in DOMAIN shown' :
             row # n + 1 => row \in DOMAIN Lines(c) /\ shown'[row] = Lines(c)[row]
    BY <1>1, <1>4, <2>3
  <2>6. (n + 1) - 1 = n /\ n + 1 > 0 BY <1>1
  <2>7. /\ shown' \in Seq(Seq(Char)) /\ Len(shown') > 0
        /\ cursor' = [x |-> W * Len(shown'[Len(shown')]), y |-> H * (Len(shown') - 1)]
    BY <2>1, <2>2, <2>4, <2>5, <2>6
  <2>8. ASSUME NEW row \in DOMAIN shown'
        PROVE  Len(shown'[row]) > 0 => W * (Len(shown'[row]) - 1) <= screen.width
    BY <1>5, <2>5
  <2>9. CursorAtEnd' BY <1>6, <2>7, <2>8 DEF CursorAtEnd
  <2> QED BY <2>1, <2>2, <2>9, Sizes
<1> QED BY <1>7, <1>8, <1>9

(* A character keeps the bound on what is drawn outside of the screen. *)
LEMMA OverrunKept ==
  ASSUME screen \in Screens, CursorAtEnd, OverrunBounded,
         NEW c \in Char, FbCookieWrite(c)
  PROVE  OverrunBounded'
BY CursorMoves, OverrunOfOne DEF FbCookieWrite, OverrunBounded, Pixel

(* Drawing changes nothing but the dots of the character. *)
LEMMA DrawnElsewhere ==
  ASSUME NEW c \in Char, NEW x, NEW y, NEW a \in DOMAIN pixel
  PROVE  /\ a \in DOMAIN Drawn(c, x, y)
         /\ (\A d \in Dots : a # Pixel(x + d[1], y + d[2]))
              => Drawn(c, x, y)[a] = pixel[a]
<1> DEFINE place == [d \in Dots |-> Pixel(x + d[1], y + d[2])]
           drawn == {place[d] : d \in Dots}
           dot(b) == CHOOSE d \in Dots : place[d] = b
           new(b) == IF b \in drawn THEN Dot(c, dot(b)[1], dot(b)[2]) ELSE pixel[b]
<1>1. c \notin Visible => Drawn(c, x, y) = pixel
  BY DEF Drawn
<1>2. c \in Visible => Drawn(c, x, y) = [b \in drawn \cup DOMAIN pixel |-> new(b)]
  BY DEF Drawn
<1>3. (\A d \in Dots : a # Pixel(x + d[1], y + d[2])) => a \notin drawn
  OBVIOUS
<1> HIDE DEF drawn, dot
<1> QED BY <1>1, <1>2, <1>3

(* Drawing writes a dot that has its place alone. *)
LEMMA DrawnDot ==
  ASSUME NEW c \in Visible, NEW x, NEW y, NEW d \in Dots,
         \A e \in Dots :
           Pixel(x + d[1], y + d[2]) = Pixel(x + e[1], y + e[2]) => d = e
  PROVE  /\ Pixel(x + d[1], y + d[2]) \in DOMAIN Drawn(c, x, y)
         /\ Drawn(c, x, y)[Pixel(x + d[1], y + d[2])] = Dot(c, d[1], d[2])
<1> DEFINE place == [e \in Dots |-> Pixel(x + e[1], y + e[2])]
           drawn == {place[e] : e \in Dots}
           dot(b) == CHOOSE e \in Dots : place[e] = b
           new(b) == IF b \in drawn THEN Dot(c, dot(b)[1], dot(b)[2]) ELSE pixel[b]
<1>1. Drawn(c, x, y) = [b \in drawn \cup DOMAIN pixel |-> new(b)]
  BY DEF Drawn
<1>2. place[d] = Pixel(x + d[1], y + d[2]) /\ place[d] \in drawn
  OBVIOUS
<1>3. \A e \in Dots : place[e] = place[d] => e = d
  OBVIOUS
<1> HIDE DEF place, drawn
<1>4. dot(place[d]) = d
  BY <1>3
<1> HIDE DEF dot
<1> QED BY <1>1, <1>2, <1>4

(* A character keeps the text readable. *)
LEMMA ReadableKept ==
  ASSUME screen \in Screens, CursorAtEnd, OverrunBounded, TextReadable,
         NEW c \in Char, FbCookieWrite(c)
  PROVE  TextReadable'
<1> DEFINE n == Len(shown)
           m == Len(shown[n])
<1>1. /\ n \in Nat \ {0} /\ m \in Nat /\ n \in DOMAIN shown /\ DOMAIN shown = 1 .. n
      /\ \A row \in DOMAIN shown : shown[row] \in Seq(Char)
  BY DEF CursorAtEnd
<1>2. /\ screen' = screen /\ pixel' = Drawn(c, cursor.x, cursor.y)
      /\ shown' = IF ~EndsLine(c) THEN Lines(c)
                  ELSE IF cursor'.y = 0 THEN <<<<>>>> ELSE Append(Lines(c), <<>>)
  BY DEF FbCookieWrite, Lines
<1>3. /\ Lines(c) \in Seq(Seq(Char)) /\ DOMAIN Lines(c) = 1 .. n
      /\ Lines(c)[n] = Append(shown[n], c)
      /\ \A row \in 1 .. n : row # n => Lines(c)[row] = shown[row]
  <2>1. Lines(c) \in Seq(Seq(Char)) /\ Len(Lines(c)) = n BY LinesShown
  <2>2. DOMAIN Lines(c) = 1 .. n BY <2>1
  <2> QED BY <1>1, <2>1, <2>2, LinesShown
<1>4. CASE shown' = <<<<>>>>
  BY <1>4 DEF TextReadable
<1>5. CASE shown' # <<<<>>>>
  <2>1. /\ 1 .. n \subseteq DOMAIN shown'
        /\ \A row \in 1 .. n : shown'[row] = Lines(c)[row]
        /\ \A row \in DOMAIN shown' : row \in 1 .. n \/ shown'[row] = <<>>
    <3>1. CASE shown' = Lines(c) BY <1>3, <3>1
    <3>2. CASE shown' = Append(Lines(c), <<>>)
      <4>1. Len(Lines(c)) = n BY LinesShown
      <4> HIDE DEF n, m
      <4> QED BY <1>1, <1>3, <3>2, <4>1
    <3> QED BY <1>2, <1>5, <3>1, <3>2
  <2> DEFINE Seen(line, row, column, d) ==
        /\ line[column] \in Visible
        /\ OnScreen((column - 1) * W + d[1], (row - 1) * H + d[2])
        /\ column > 1 \/ ~RunsOver(line)
  <2>2. SUFFICES ASSUME NEW row \in 1 .. n, NEW column \in DOMAIN Lines(c)[row],
                        NEW d \in Dots, Seen(Lines(c)[row], row, column, d)
                 PROVE  /\ At(row, column, d) \in DOMAIN pixel'
                        /\ pixel'[At(row, column, d)]
                             = Dot(Lines(c)[row][column], d[1], d[2])
    <3>1. SUFFICES ASSUME NEW row \in DOMAIN shown', NEW column \in DOMAIN shown'[row],
                          NEW d \in Dots, Seen(shown'[row], row, column, d)
                   PROVE  /\ At(row, column, d) \in DOMAIN pixel'
                          /\ pixel'[At(row, column, d)]
                               = Dot(shown'[row][column], d[1], d[2])
      BY <1>2 DEF TextReadable, RunsOver, OnScreen, At, Pixel, W, H, Dots, Dot
    <3>2. row \in 1 .. n /\ shown'[row] = Lines(c)[row]
      BY <2>1, <3>1
    <3> HIDE DEF n, m, Seen
    <3> QED BY <2>2, <3>1, <3>2
  <2>3. /\ m + 1 \in DOMAIN Lines(c)[n] /\ Lines(c)[n][m + 1] = c /\ Len(Lines(c)[n]) = m + 1
        /\ \A k \in DOMAIN Lines(c)[n] :
             k # m + 1 => k \in DOMAIN shown[n] /\ shown[n][k] = Lines(c)[n][k]
    <3>1. shown[n] \in Seq(Char) /\ Len(shown[n]) = m BY <1>1
    <3> DEFINE last == shown[n]
    <3> HIDE DEF n, m, last
    <3>2. last \in Seq(Char) /\ Len(last) = m /\ Lines(c)[n] = Append(last, c)
      BY <1>3, <3>1 DEF last
    <3>3. /\ m + 1 \in DOMAIN Lines(c)[n] /\ Lines(c)[n][m + 1] = c /\ Len(Lines(c)[n]) = m + 1
          /\ \A k \in DOMAIN Lines(c)[n] :
               k # m + 1 => k \in DOMAIN last /\ last[k] = Lines(c)[n][k]
      BY <3>2
    <3> QED BY <3>3 DEF last
  <2>4. ASSUME NEW e \in Dots
        PROVE  At(n, m + 1, e) = Pixel(cursor.x + e[1], cursor.y + e[2])
    <3>1. (m + 1) - 1 = m /\ m * W = W * m /\ (n - 1) * H = H * (n - 1)
      BY <1>1, Sizes
    <3>2. cursor = [x |-> W * m, y |-> H * (n - 1)] BY DEF CursorAtEnd
    <3> HIDE DEF m, n
    <3>3. cursor.x = W * m /\ cursor.y = H * (n - 1) BY <3>2
    <3> QED BY <3>1, <3>3 DEF At
  <2>5. \A e \in Dots : At(row, column, d) = At(n, m + 1, e) =>
                          row = n /\ column = m + 1 /\ d = e
    <3>1. column \in Nat \ {0} /\ row \in Nat \ {0} /\ row <= n
      <4>1. row \in Nat \ {0} /\ row <= n
        <5> HIDE DEF n
        <5> QED BY <1>1
      <4>2. Lines(c)[row] \in Seq(Char)
        <5> DEFINE lines == Lines(c)
        <5>1. row \in DOMAIN lines /\ lines \in Seq(Seq(Char)) BY <1>3
        <5> HIDE DEF lines
        <5>2. lines[row] \in Seq(Char) BY <5>1
        <5> QED BY <5>2 DEF lines
      <4> QED BY <4>1, <4>2
    <3>2. m + 1 \in Nat \ {0} /\ W * ((m + 1) - 1) <= screen.width
      <4>1. cursor.x <= screen.width BY DEF OverrunBounded
      <4>2. cursor = [x |-> W * m, y |-> H * (n - 1)] BY DEF CursorAtEnd
      <4>3. cursor.x = W * m BY <4>2
      <4>4. (m + 1) - 1 = m BY <1>1
      <4> HIDE DEF m, n
      <4> QED BY <1>1, <4>1, <4>3, <4>4
    <3>3. (column - 1) * W + d[1] < screen.width BY <2>2 DEF OnScreen
    <3>4. column > 1 \/ row # n \/ W * (m + 1) <= screen.pitch
      <4> SUFFICES ASSUME ~RunsOver(Lines(c)[row]), row = n
                   PROVE  W * (m + 1) <= screen.pitch
        BY <2>2
      <4>1. (m + 1) * W = W * (m + 1) /\ W * (m + 1) \in Nat
        <5>1. \A i \in Nat, j \in Nat : (i + 1) * j = j * (i + 1) /\ j * (i + 1) \in Nat
          OBVIOUS
        <5> HIDE DEF n, m
        <5> QED BY <1>1, <5>1, Sizes
      <4>2. ~((m + 1) * W > screen.pitch) BY <2>3 DEF RunsOver, W
      <4> QED BY <4>1, <4>2, Sizes
    <3> HIDE DEF m, n
    <3> QED BY <1>1, <3>1, <3>2, <3>3, <3>4, CellsApart
  <2>6. CASE row = n /\ column = m + 1
    <3>1. c \in Visible BY <2>2, <2>3, <2>6
    <3>2. \A e \in Dots : Pixel(cursor.x + d[1], cursor.y + d[2])
                            = Pixel(cursor.x + e[1], cursor.y + e[2]) => d = e
      BY <2>4, <2>5, <2>6
    <3>3. /\ Pixel(cursor.x + d[1], cursor.y + d[2]) \in DOMAIN pixel'
          /\ pixel'[Pixel(cursor.x + d[1], cursor.y + d[2])] = Dot(c, d[1], d[2])
      BY <1>2, <3>1, <3>2, DrawnDot, ZenonT(60)
    <3> HIDE DEF m, n
    <3> QED BY <2>3, <2>4, <2>6, <3>3
  <2>7. CASE ~(row = n /\ column = m + 1)
    <3>1. /\ column \in DOMAIN shown[row] /\ shown[row][column] = Lines(c)[row][column]
      <4> HIDE DEF n, m
      <4> QED BY <1>3, <2>3, <2>7
    <3>2. ~RunsOver(Lines(c)[row]) => ~RunsOver(shown[row])
      <4>1. CASE row # n BY <1>3, <4>1
      <4>2. CASE row = n
        <5>1. Len(shown[row]) = m /\ Len(Lines(c)[row]) = m + 1 BY <2>3, <4>2
        <5>2. m * W \in Nat /\ (m + 1) * W \in Nat /\ m * W <= (m + 1) * W
          <6>1. \A i \in Nat, j \in Nat : i * j \in Nat /\ (i + 1) * j \in Nat /\ i * j <= (i + 1) * j
            OBVIOUS
          <6> HIDE DEF n, m
          <6> QED BY <1>1, <6>1, Sizes
        <5> HIDE DEF m, n
        <5> QED BY <5>1, <5>2, Sizes DEF RunsOver, W
      <4> QED BY <4>1, <4>2
    <3>3. Seen(shown[row], row, column, d) BY <2>2, <3>1, <3>2
    <3>4. /\ At(row, column, d) \in DOMAIN pixel
          /\ pixel[At(row, column, d)] = Dot(Lines(c)[row][column], d[1], d[2])
      BY <1>1, <3>1, <3>3 DEF TextReadable, At, W, H
    <3>5. \A e \in Dots : At(row, column, d) # Pixel(cursor.x + e[1], cursor.y + e[2])
      BY <2>4, <2>5, <2>7
    <3> QED BY <1>2, <3>4, <3>5, DrawnElsewhere
  <2> QED BY <2>6, <2>7
<1> QED BY <1>4, <1>5

------------------------------------------------------------------------------
(* The steps of the console *)

(* A screen nothing was drawn on, in use or not. *)
Fresh ==
  /\ screen \in Screens \cup {NoScreen}
  /\ cursor = [x |-> 0, y |-> 0] /\ pixel = <<>> /\ shown = <<<<>>>>

LEMMA FreshKeepsAll == Fresh => CursorAtEnd /\ OverrunBounded /\ TextReadable
<1> SUFFICES ASSUME Fresh PROVE CursorAtEnd /\ OverrunBounded /\ TextReadable
  OBVIOUS
<1>1. W * 0 = 0 /\ H * (1 - 1) = 0 BY ScreenAssumption DEF W, H
<1>2. screen.width \in Nat /\ screen.height \in Nat
  BY ScreenAssumption DEF Fresh, NoScreen
<1>3. CursorAtEnd BY <1>1 DEF Fresh, CursorAtEnd
<1>4. OverrunBounded BY <1>2 DEF Fresh, OverrunBounded
<1>5. TextReadable BY DEF Fresh, TextReadable
<1> QED BY <1>3, <1>4, <1>5

LEMMA InitOK == ConsoleInit => IInv
<1> SUFFICES ASSUME ConsoleInit PROVE IInv OBVIOUS
<1>1. CpuOK
  <2>1. <<>> \in Seq(Char) /\ Banner \in Seq(Char) BY TextAssumption
  <2>2. CASE /\ stdout = "none"
             /\ cpu = [port |-> STDOUT_SERIAL, step |-> 1, text |-> <<>>]
    BY <2>1, <2>2 DEF CpuOK, STDOUT_SERIAL
  <2>3. CASE /\ stdout = "framebuffer"
             /\ cpu = [port |-> 1, step |-> 1, text |-> Banner]
    BY <2>1, <2>3 DEF CpuOK
  <2> QED BY <2>2, <2>3 DEF ConsoleInit, Init
<1>2. ScreenOK /\ Fresh
  BY DEF ConsoleInit, ScreenOK, FbInit, Dark, Fresh
<1> QED BY <1>1, <1>2, FreshKeepsAll DEF IInv

LEMMA DetectOK == IInv /\ Detect => IInv'
<1> SUFFICES ASSUME IInv, Detect PROVE IInv' OBVIOUS
<1>1. CpuOK'
  <2> DEFINE step == DetectSteps[cpu.step]
             failed == step.op = "check" /\ ReadBack(cpu.port, step.reg) # step.val
             last == cpu.step = Len(DetectSteps)
  <2>1. cpu.port \in 1 .. PORTS
    BY PortAssumption DEF Detect, SerialDetect, IsPort, IInv, CpuOK
  <2>2. CASE failed \/ last
    <3>1. Return(~failed) BY <2>2 DEF Detect, SerialDetect
    <3>2. /\ (IF ~failed THEN Detected(cpu.port) ELSE <<>>) \o
               (IF cpu.port = PORTS THEN Report ELSE <<>>) \in Seq(Char)
          /\ Banner \in Seq(Char)
      BY <2>1, TextAssumption
    <3> DEFINE text == (IF ~failed THEN Detected(cpu.port) ELSE <<>>) \o
                         (IF cpu.port = PORTS THEN Report ELSE <<>>)
    <3>3. \/ cpu' = [port |-> 1, step |-> 1, text |-> Banner]
          \/ cpu' = [port |-> cpu.port + 1, step |-> 1, text |-> text]
      BY <3>1 DEF Return
    <3>4. stdout' \in {stdout, "serial", "framebuffer"}
      BY <3>1 DEF Return
    <3>5. text \in Seq(Char) BY <3>2
    <3>6. cpu.port + 1 \in Nat \ {0} BY <2>1
    <3> HIDE DEF failed, text
    <3>7. cpu' \in [port : Nat \ {0}, step : Nat, text : Seq(Char)]
      BY <3>2, <3>3, <3>5, <3>6
    <3> QED BY <3>4, <3>7 DEF IInv, CpuOK
  <2>3. CASE ~(failed \/ last)
    <3>1. cpu' = [cpu EXCEPT !.step = @ + 1] /\ UNCHANGED <<stdout, found>>
      BY <2>3 DEF Detect, SerialDetect
    <3> QED BY <3>1 DEF IInv, CpuOK
  <2> QED BY <2>2, <2>3
<1>2. CASE stdout = "none" /\ stdout' = "framebuffer"
  <2>1. Fresh' BY <1>2 DEF Detect, IInv, ScreenOK, Dark, Fresh
  <2>2. ScreenOK' BY <1>2 DEF Detect, ScreenOK
  <2> QED BY <1>1, <2>1, <2>2, FreshKeepsAll, PTL DEF IInv
<1>3. CASE ~(stdout = "none" /\ stdout' = "framebuffer")
  <2>1. UNCHANGED fbvars BY <1>3 DEF Detect
  <2>2. stdout' = stdout \/ (stdout = "none" /\ stdout' = "serial")
    BY <1>3 DEF Detect, SerialDetect, Return
  <2>3. ScreenOK' BY <2>1, <2>2 DEF fbvars, IInv, ScreenOK, Dark
  <2> QED BY <1>1, <2>1, <2>3 DEF fbvars, IInv, CursorAtEnd, OverrunBounded,
            TextReadable, Pixel, RunsOver, OnScreen
<1> QED BY <1>2, <1>3

LEMMA WriteOK == IInv /\ Write => IInv'
<1> SUFFICES ASSUME IInv, Write PROVE IInv' OBVIOUS
<1>1. CpuOK' /\ Head(cpu.text) \in Char /\ stdout' = stdout
  <2>1. cpu.text \in Seq(Char) /\ cpu.text # <<>>
    BY DEF Write, SerialWrite, IInv, CpuOK
  <2> DEFINE text == Tail(cpu.text)
  <2>2. text \in Seq(Char) /\ Head(cpu.text) \in Char
    BY <2>1
  <2>3. cpu' = [cpu EXCEPT !.text = text] /\ stdout' = stdout
    BY DEF Write, SerialWrite
  <2> HIDE DEF text
  <2> QED BY <2>2, <2>3 DEF IInv, CpuOK
<1>2. CASE stdout = "framebuffer"
  <2>1. FbCookieWrite(Head(cpu.text)) /\ screen \in Screens
    BY <1>2 DEF Write, IInv, ScreenOK
  <2>2. CursorAtEnd' /\ OverrunBounded' /\ TextReadable'
    BY <1>1, <2>1, CursorMoves, OverrunKept, ReadableKept DEF IInv
  <2>3. ScreenOK' BY <1>1, <1>2, <2>1 DEF ScreenOK, FbCookieWrite
  <2> QED BY <1>1, <2>2, <2>3 DEF IInv
<1>3. CASE stdout # "framebuffer"
  <2>1. UNCHANGED fbvars BY <1>3 DEF Write
  <2>2. ScreenOK' BY <1>1, <2>1 DEF fbvars, IInv, ScreenOK, Dark
  <2> QED BY <1>1, <2>1, <2>2 DEF fbvars, IInv, CursorAtEnd, OverrunBounded,
            TextReadable, Pixel, RunsOver, OnScreen
<1> QED BY <1>2, <1>3

(* The chips and their peers do not touch the screen. *)
LEMMA OthersOK == IInv /\ UNCHANGED <<fbvars, cpu, stdout>> => IInv'
BY DEF fbvars, IInv, CpuOK, ScreenOK, Dark, CursorAtEnd, OverrunBounded,
       TextReadable, Pixel, RunsOver, OnScreen

------------------------------------------------------------------------------
(* Theorems *)

LEMMA ConsoleInvariant == ConsoleSpec => []IInv
<1>1. ASSUME IInv, [ConsoleNext]_consoleVars PROVE IInv'
  <2>1. CASE Detect BY <1>1, <2>1, DetectOK
  <2>2. CASE Write BY <1>1, <2>2, WriteOK
  <2>3. CASE /\ \E p \in Present : Send(p) \/ SerialRead(p) \/ PeerSend(p)
             /\ UNCHANGED fbvars
    <3>1. UNCHANGED <<cpu, stdout>>
      BY <2>3 DEF Send, SerialRead, PeerSend
    <3> QED BY <1>1, <2>3, <3>1, OthersOK
  <2>4. CASE UNCHANGED consoleVars
    BY <1>1, <2>4, OthersOK DEF consoleVars, vars
  <2> QED BY <1>1, <2>1, <2>2, <2>3, <2>4 DEF ConsoleNext
<1> QED BY <1>1, InitOK, PTL DEF ConsoleSpec

(* For every screen at least as wide as a character and every text, the    *)
(* console draws less than one character to the right of a row and below   *)
(* the last row: fb_cookie_write and framebuffer_write_at write nothing    *)
(* further from the framebuffer, however much the kernel prints and on     *)
(* whatever path of the detection it came to use the screen.               *)
THEOREM OverrunIsBounded == ConsoleSpec => []OverrunBounded
<1>1. IInv => OverrunBounded BY DEF IInv
<1> QED BY <1>1, ConsoleInvariant, PTL

(* For the same screens and texts: of what fb_cookie_write printed since   *)
(* the cursor was last in the first row, every dot that lies on the screen *)
(* (its width and height) is there and belongs to its own character, but   *)
(* for the first character of a line that ran over the end of its row of   *)
(* memory.  Of dots beside or below the screen, which fb_cookie_write also *)
(* draws, nothing is claimed but OverrunIsBounded.                         *)
THEOREM TextIsReadable == ConsoleSpec => []TextReadable
<1>1. IInv => TextReadable BY DEF IInv
<1> QED BY <1>1, ConsoleInvariant, PTL

(* With the screen beside it, the serial driver does nothing it does not   *)
(* do alone.                                                               *)
THEOREM ImplementsSerial == ConsoleSpec => Spec
<1>1. ConsoleInit => Init BY DEF ConsoleInit
<1>2. [ConsoleNext]_consoleVars => [Next]_vars
  BY DEF ConsoleNext, Next, Detect, Write, consoleVars
<1> QED BY <1>1, <1>2, PTL DEF ConsoleSpec, Spec

(* So what is shown above of the ports holds for the console.               *)
THEOREM PortsBehave ==
  ConsoleSpec => [](/\ TypeOK /\ FoundIsReady /\ MissedOnlyByNoise
                    /\ InputGenuine /\ WireGetsOutput)
BY ImplementsSerial, TypeCorrect, FoundStaysReady, OnlyNoiseHidesChips,
   InputStaysGenuine, WireOnlyGetsOutput, PTL
==============================================================================
