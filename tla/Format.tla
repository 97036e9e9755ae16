-------------------------------- MODULE Format -------------------------------
(***************************************************************************)
(* The conversions of vfprintf (src/libk/vfprintf.c): from one conversion  *)
(* specification and the arguments to the writes it makes, in order.       *)
(* A character is a string, a text a sequence of them, an integer argument *)
(* the bits of its slot (va_arg takes the low ones), as a natural number.  *)
(***************************************************************************)
EXTENDS Integers, Sequences, SequencesExt

CONSTANTS
  INT_BITS,      \* bits of an int (32)
  LONG_BITS,     \* bits of a long, and of a long long (64)
  INT_MAX        \* at least the length of every string

NUL == "NUL"
Numerals == <<"0", "1", "2", "3", "4", "5", "6", "7",
              "8", "9", "a", "b", "c", "d", "e", "f">>
DigitChars == {Numerals[i] : i \in 1 .. 10}
DigitOf(c) == (CHOOSE i \in 1 .. 10 : Numerals[i] = c) - 1

------------------------------------------------------------------------------
(* parse_format_str: the flags, width and precision up to the conversion   *)

Afmt == [precision |-> 0, width |-> 0, length |-> 0, zero_pad |-> FALSE,
         has_precision |-> FALSE, state |-> "FLAG"]

(* A width is kept in a signed char. *)
SignedChar(n) == ((n + 128) % 256) - 128

ParseDigitFlat(afmt, d) ==             \* mutant: every 0 is the flag
  CASE d = 0 -> [afmt EXCEPT !.zero_pad = TRUE, !.state = "WIDTH"]
    [] d # 0 /\ afmt.state = "PRECISION" -> [afmt EXCEPT !.precision = @ * 10 + d]
    [] OTHER -> [afmt EXCEPT !.width = SignedChar(@ * 10 + d), !.state = "WIDTH"]

ParseDigit(afmt, d) ==
  CASE afmt.state = "PRECISION" -> [afmt EXCEPT !.precision = @ * 10 + d]
    [] afmt.state = "FLAG" /\ d = 0 -> [afmt EXCEPT !.zero_pad = TRUE, !.state = "WIDTH"]
    [] OTHER -> [afmt EXCEPT !.width = SignedChar(@ * 10 + d), !.state = "WIDTH"]

ParseChar(afmt, c) ==
  CASE c \in DigitChars -> ParseDigit(afmt, DigitOf(c))
    [] c = "." -> [afmt EXCEPT !.state = "PRECISION", !.has_precision = TRUE]
    [] c = "h" -> [afmt EXCEPT !.length = @ - 1]
    [] c = "l" -> [afmt EXCEPT !.length = @ + 1]
    [] c \in {"z", "j", "t"} -> [afmt EXCEPT !.length = 1]

Parse(modifiers) == FoldLeft(ParseChar, Afmt, modifiers)

------------------------------------------------------------------------------
(* The conversions: each is the sequence of its writes *)

Bits(afmt) == IF afmt.length <= 0 THEN INT_BITS ELSE LONG_BITS

Conversions == {"d", "i", "u", "x", "c", "s", "p", "%", "f", "e", "g", "a"}

(* Otherwise ERROR(2), before the conversion writes anything.              *)
Supported(afmt, conv) ==
  conv \in Conversions /\ (conv \in {"d", "i", "u", "x"} => afmt.length \in -2 .. 2)

Unsigned(afmt, arg) == arg % (2 ^ Bits(afmt))
Signed(afmt, arg) ==
  LET u == Unsigned(afmt, arg)
  IN  IF u < 2 ^ (Bits(afmt) - 1) THEN u ELSE u - (2 ^ Bits(afmt))

DigitCount(value, base) ==
  CHOOSE n \in 1 .. LONG_BITS : value < base ^ n /\ (n = 1 \/ value >= base ^ (n - 1))

(* print_num_10 and print_num_16: the digits, filled in from the right.    *)
Digits(value, base) ==
  LET length == DigitCount(value, base)
  IN  [i \in 1 .. length |-> Numerals[((value \div (base ^ (length - i))) % base) + 1]]

Pad(afmt) == IF afmt.zero_pad THEN "0" ELSE " "
Padding(n, c) == [i \in 1 .. n |-> <<c>>]
Missing(width, length) == IF width > length THEN width - length ELSE 0

PrintNumber(afmt, value, base) ==
  LET digits == Digits(value, base)
  IN  Append(Padding(Missing(afmt.width, Len(digits)), Pad(afmt)), digits)

(* A sign comes before the padding and takes its place in a width.         *)
SignKeepsWidth(afmt) == afmt                                       \* mutant
AfterSign(afmt) == [afmt EXCEPT !.width = IF @ > 0 THEN @ - 1 ELSE @]

PrintSigned(afmt, arg) ==
  LET value == Signed(afmt, arg)
  IN  IF value < 0 THEN <<<<"-">>>> \o PrintNumber(AfterSign(afmt), -value, 10)
                   ELSE PrintNumber(afmt, value, 10)

(* strnlen of string_x86.s counts the terminator when it meets one.        *)
Strnlen(str, max) == IF Len(str) + 1 < max THEN Len(str) + 1 ELSE max

(* The padding is taken off the precision too.  A count below 0 is a very  *)
(* large size_t: the write goes on past the string.                        *)
PrintString(afmt, str) ==
  LET max == IF afmt.has_precision THEN afmt.precision ELSE INT_MAX
      chars == Strnlen(str, max)
      padding == Missing(afmt.width, chars)
      left == afmt.precision - padding
      count == IF afmt.has_precision /\ chars > left THEN left ELSE chars
      body == IF count < 0 THEN str \o <<NUL, "...">> ELSE SubSeq(Append(str, NUL), 1, count)
  IN  Append(Padding(padding, " "), body)

Pointer(afmt) == [afmt EXCEPT !.width = 16, !.length = 2, !.zero_pad = TRUE]

(* The writes of a supported conversion with its argument.                 *)
Writes(afmt, conv, arg) ==
  CASE conv \in {"d", "i"} -> PrintSigned(afmt, arg)
    [] conv = "u" -> PrintNumber(afmt, Unsigned(afmt, arg), 10)
    [] conv = "x" -> PrintNumber(afmt, Unsigned(afmt, arg), 16)
    [] conv = "p" -> PrintNumber(Pointer(afmt), Unsigned(Pointer(afmt), arg), 16)
    [] conv = "c" -> <<<<arg>>>>
    [] conv = "s" -> PrintString(afmt, arg)
    [] conv = "%" -> <<<<"%">>>>
    [] OTHER -> <<<<"?">>>>
==============================================================================
