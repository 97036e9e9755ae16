-------------------------------- MODULE Stdio --------------------------------
(***************************************************************************)
(* The streams of src/libk/stdio.c with vfprintf (src/libk/vfprintf.c) on  *)
(* top.  A call is a loop of fwrite, and every fwrite asks the writer of   *)
(* the stream, which may take all of it, a part or nothing.  What a call   *)
(* of fprintf is given is a sequence of items: a character that stands for *)
(* itself, or the parts of a conversion specification with its argument.   *)
(***************************************************************************)
EXTENDS Format

CONSTANTS
  MAX_OPEN_STREAMS,   \* slots of the stream table (8)
  Cookies,            \* cookies of callers of fopencookie
  NULL,               \* no cookie, no stream
  Formats,            \* what fprintf is called with
  Strings,            \* what puts is called with
  ReadSizes           \* how many bytes fread is asked for

IsSequence(s) == s \in Seq(ToSet(s))

(* kstdio.h: "all FILEs must have cookies". *)
ASSUME StdioAssumption ==
  /\ MAX_OPEN_STREAMS \in Nat \ {0} /\ NULL \notin Cookies /\ ReadSizes \subseteq Nat
  /\ \A items \in Formats : IsSequence(items)
  /\ \A str \in Strings : IsSequence(str)

EOF == -1
EOF_CHAR == "\\xff"       \* (char) -1

VARIABLES
  streams,   \* the table
  errno,
  opened,    \* slots fopencookie has returned
  call,      \* the call of fprintf or puts in progress
  ret        \* what the last one returned, 0 during a call

vars == <<streams, errno, opened, call, ret>>

Slots == 1 .. MAX_OPEN_STREAMS
Free == [cookie |-> NULL, io |-> "none", eof |-> FALSE, error |-> FALSE]
NoCall == [fn |-> "none"]

(* zero: with the flag 0; width 0 and prec -1 stand for none.              *)
Conv(zero, width, prec, length, conv, arg) ==
  [zero |-> zero, width |-> width, prec |-> prec, length |-> length,
   conv |-> conv, arg |-> arg]
Char(c) == Conv(FALSE, 0, -1, <<>>, "", c)

(* The characters between % and the conversion. *)
Spell(item) ==
  (IF item.zero THEN <<"0">> ELSE <<>>) \o
  (IF item.width > 0 THEN Digits(item.width, 10) ELSE <<>>) \o
  (IF item.prec >= 0 THEN <<".">> \o Digits(item.prec, 10) ELSE <<>>) \o
  item.length

(* What fprintf writes is text, whatever is converted. *)
ConversionsWriteText ==
  \A items \in Formats : \A i \in DOMAIN items :
    LET item == items[i]
        writes == Writes(Parse(Spell(item)), item.conv, item.arg)
    IN  item.conv # "" /\ Supported(Parse(Spell(item)), item.conv) =>
          /\ IsSequence(writes)
          /\ \A j \in DOMAIN writes : IsSequence(writes[j])

------------------------------------------------------------------------------
(* The stream table.  A caller gives a stream a writer or a reader.        *)

VacantAlways(i) == TRUE                    \* mutant: slot taken unseen
Vacant(i) == streams[i].cookie = NULL

FOpenCookie(cookie, io) ==
  /\ call = NoCall
  /\ \/ \E i \in Slots :
          /\ Vacant(i) /\ \A j \in 1 .. i - 1 : ~Vacant(j)
          /\ streams' = [streams EXCEPT ![i] =
                           [cookie |-> cookie, io |-> io, eof |-> FALSE, error |-> FALSE]]
          /\ opened' = Append(opened, i)
          /\ errno' = "0"
     \/ /\ \A i \in Slots : ~Vacant(i)
        /\ errno' = "ENOSR"
        /\ UNCHANGED <<streams, opened>>
  /\ UNCHANGED <<call, ret>>

ClearErr(f) ==
  /\ call = NoCall
  /\ streams' = [streams EXCEPT ![f].eof = FALSE, ![f].error = FALSE]
  /\ UNCHANGED <<errno, opened, call, ret>>

(* fread of nbytes bytes; the reader says how many it got, or -1.          *)
FRead(f, nbytes) ==
  LET Result(n, err) == ret' = n /\ errno' = err
  IN  /\ call = NoCall
      /\ f \in ToSet(opened) \cup {NULL}
      /\ \/ f = NULL /\ Result(0, "ENOSTR") /\ UNCHANGED streams
         \/ /\ f # NULL /\ streams[f].io # "reader"
            /\ Result(0, "EOPNOTSUPP") /\ UNCHANGED streams
         \/ /\ f # NULL /\ streams[f].io = "reader"
            /\ \/ nbytes = 0 /\ Result(0, "0") /\ UNCHANGED streams
               \/ /\ nbytes > 0
                  /\ \E n \in -1 .. nbytes :
                       \/ /\ n < 0 /\ Result(0, "EIO")
                          /\ streams' = [streams EXCEPT ![f].error = TRUE]
                       \/ /\ n >= 0 /\ Result(n, "0")
                          /\ streams' = [streams EXCEPT ![f].eof = @ \/ n = 0]
      /\ UNCHANGED <<opened, call>>

------------------------------------------------------------------------------
(* Calls.  left: the items to come; todo: the writes to come of the item   *)
(* before them; out: what the writer took.                                 *)

Call(fn, stream, items, todo) ==
  [fn |-> fn, stream |-> stream, items |-> items, left |-> items,
   todo |-> todo, written |-> 0, out |-> <<>>]

Begin(fn, stream, items, todo) ==
  /\ call = NoCall
  /\ stream \in ToSet(opened) \cup {NULL}
  /\ call' = Call(fn, stream, items, todo)
  /\ ret' = 0
  /\ UNCHANGED <<streams, errno, opened>>

End(result) == call' = NoCall /\ ret' = result

FPrintf(stream, items) == Begin("fprintf", stream, items, <<>>)

(* fputs, then fputc of a newline.  The length of fputs is strlen, which   *)
(* counts the terminator.                                                  *)
Puts(stream, str) ==
  Begin("puts", stream, <<>>, << Append(str, NUL), <<"\\n">> >>)

(* The next character of the format, or the next specification. *)
NextItem ==
  /\ call # NoCall /\ call.todo = <<>> /\ call.left # <<>>
  /\ LET item == Head(call.left)
         afmt == Parse(Spell(item))
         Go(todo) == call' = [call EXCEPT !.left = Tail(@), !.todo = todo]
     IN  \/ item.conv = "" /\ Go(<<<<item.arg>>>>) /\ UNCHANGED ret
         \/ /\ item.conv # "" /\ Supported(afmt, item.conv)
            /\ Go(Writes(afmt, item.conv, item.arg)) /\ UNCHANGED ret
         \/ item.conv # "" /\ ~Supported(afmt, item.conv) /\ End(EOF)
  /\ UNCHANGED <<streams, errno, opened>>

(* Whether the call goes on after a write that took n bytes: fwrite_e      *)
(* wants all of it, fputs any of it, and fputc confuses EOF_CHAR with EOF  *)
(* (no string or number of the formats is EOF_CHAR alone).                 *)
AcceptsAny(chunk, n) == TRUE               \* mutant: results not looked at
Accepts(chunk, n) ==
  IF call.fn = "fprintf" THEN n = Len(chunk) /\ chunk # <<EOF_CHAR>> ELSE n > 0

WriteErrnoNone(n) == "0"                   \* mutant: failure not reported
WriteErrno(n) == IF n = 0 THEN "EIO" ELSE "0"

(* fwrite of the next chunk.  Every call of it sets errno.                 *)
FWrite ==
  /\ call # NoCall /\ call.todo # <<>>
  /\ LET chunk == Head(call.todo)
         f == call.stream
         Result(n, err) ==
           /\ errno' = err
           /\ \/ /\ Accepts(chunk, n)
                 /\ call' = [call EXCEPT !.todo = Tail(@), !.written = @ + n,
                                         !.out = @ \o SubSeq(chunk, 1, n)]
                 /\ UNCHANGED ret
              \/ ~Accepts(chunk, n) /\ End(EOF)
     IN  \/ f = NULL /\ Result(0, "ENOSTR") /\ UNCHANGED streams
         \/ /\ f # NULL
            /\ IF streams[f].io # "writer"
               THEN Result(0, "EOPNOTSUPP") /\ UNCHANGED streams
               ELSE IF chunk = <<>> THEN Result(0, "0") /\ UNCHANGED streams
               ELSE \E n \in 0 .. Len(chunk) :
                      /\ Result(n, WriteErrno(n))
                      /\ streams' = [streams EXCEPT ![f].error = @ \/ n = 0]
  /\ UNCHANGED opened

Return ==
  /\ call # NoCall /\ call.todo = <<>> /\ call.left = <<>>
  /\ End(call.written)
  /\ UNCHANGED <<streams, errno, opened>>

Init ==
  /\ streams = [i \in Slots |-> Free]
  /\ errno = "0"
  /\ opened = <<>>
  /\ call = NoCall
  /\ ret = 0

Next ==
  \/ \E cookie \in Cookies, io \in {"reader", "writer"} : FOpenCookie(cookie, io)
  \/ \E f \in ToSet(opened) : ClearErr(f)
  \/ \E f \in Slots \cup {NULL}, n \in ReadSizes : FRead(f, n)
  \/ \E f \in Slots \cup {NULL}, items \in Formats : FPrintf(f, items)
  \/ \E f \in Slots \cup {NULL}, str \in Strings : Puts(f, str)
  \/ NextItem
  \/ FWrite
  \/ Return

Spec == Init /\ [][Next]_vars

------------------------------------------------------------------------------
(* What standard C says a conversion prints *)

Numeral(n, base) ==
  LET f[k \in Nat] == IF k < base THEN <<Numerals[k + 1]>>
                      ELSE Append(f[k \div base], Numerals[(k % base) + 1])
  IN  f[n]

Fill(n, c) == [i \in 1 .. n |-> c]

(* sign and digits in a field: zeros go between them, spaces before both.  *)
Field(sign, text, width, zero) ==
  LET fill == IF width > Len(sign \o text) THEN width - Len(sign \o text) ELSE 0
  IN  IF zero THEN sign \o Fill(fill, "0") \o text
              ELSE Fill(fill, " ") \o sign \o text

StandardItem(item) ==
  LET bits == IF item.length \in {<<>>, <<"h">>} THEN INT_BITS ELSE LONG_BITS
      u == item.arg % (2 ^ bits)
      negative == u >= 2 ^ (bits - 1)
  IN  CASE item.conv \in {"d", "i"} /\ negative ->
             Field(<<"-">>, Numeral((2 ^ bits) - u, 10), item.width, item.zero)
        [] item.conv \in {"d", "i"} /\ ~negative ->
             Field(<<>>, Numeral(u, 10), item.width, item.zero)
        [] item.conv = "u" -> Field(<<>>, Numeral(u, 10), item.width, item.zero)
        [] item.conv = "x" -> Field(<<>>, Numeral(u, 16), item.width, item.zero)
        [] item.conv = "p" ->
             Field(<<>>, Numeral(item.arg % (2 ^ LONG_BITS), 16), 16, TRUE)
        [] item.conv = "s" ->
             Field(<<>>, IF item.prec >= 0 /\ item.prec < Len(item.arg)
                         THEN SubSeq(item.arg, 1, item.prec) ELSE item.arg,
                   item.width, FALSE)
        [] item.conv = "%" -> <<"%">>
        [] item.conv \in {"c", ""} -> Field(<<>>, <<item.arg>>, item.width, FALSE)
        [] OTHER -> <<>>

Standard(items) == FlattenSeq([i \in DOMAIN items |-> StandardItem(items[i])])

------------------------------------------------------------------------------
(* Properties *)

(* Types of the state; the table never gives out more streams than it has. *)
TypeOK ==
  /\ streams \in [Slots -> [cookie : Cookies \cup {NULL}, io : {"none", "reader", "writer"},
                           eof : BOOLEAN, error : BOOLEAN]]
  /\ errno \in {"0", "ENOSR", "ENOSTR", "EOPNOTSUPP", "EIO"}
  /\ opened \in Seq(Slots) /\ Len(opened) <= MAX_OPEN_STREAMS
  /\ ret \in Nat \cup {EOF}
  /\ call # NoCall =>
       /\ call.fn \in {"fprintf", "puts"} /\ call.stream \in Slots \cup {NULL}
       /\ \E k \in 0 .. Len(call.items) :
            call.left = SubSeq(call.items, k + 1, Len(call.items))
       /\ call.written \in Nat

(* fopencookie never gives out a stream twice, and a stream that is open   *)
(* stays so: two owners never write through one slot.                      *)
StreamsKept ==
  /\ IsInjective(opened)
  /\ \A f \in ToSet(opened) : ~Vacant(f)

(* What fprintf has written and is about to write is a prefix of what      *)
(* standard C prints, and when it returns without EOF it has written all   *)
(* of that and returns its length (Style.md: functions copied from libc    *)
(* "should have, as much as possible, be standard c compliant").           *)
PrintfStandard ==
  call.fn = "fprintf" =>
    /\ IsPrefix(call.out \o FlattenSeq(call.todo), Standard(call.items))
    /\ call.todo = <<>> /\ call.left = <<>> =>
         call.out = Standard(call.items) /\ call.written = Len(call.out)

(* A call that returns EOF leaves the reason in errno, although every      *)
(* fwrite clears it, and one that printed anything leaves none; a failed   *)
(* write marks the stream too.  Three failures leave no trace: a conversion*)
(* vfprintf does not know, a writer that took only a part, and a character *)
(* that reads as EOF.  A call that never writes leaves an older errno.     *)
Untraced(chunk) == Len(chunk) > 1 \/ chunk = <<EOF_CHAR>>
FailureReported ==
  [][call # NoCall /\ call' = NoCall =>
       /\ ret' > 0 => errno' = "0"
       /\ ret' = EOF /\ errno' = "0" => call.todo = <<>> \/ Untraced(Head(call.todo))
       /\ call.todo # <<>> /\ errno' = "EIO" => streams'[call.stream].error]_vars
==============================================================================
