------------------------------- MODULE MCStdio -------------------------------
(***************************************************************************)
(* Stdio with 2 slots, ints of 8 bits and longs of 12 bits.  The formats   *)
(* are of the kinds the kernel's calls have (fields of numbers padded with *)
(* zeros or spaces, "%zi", "%hu", "%p", "%.8s" of a longer string), and a  *)
(* few of several items.  Left out of MCFormats, but not of the model:     *)
(* strings printed up to their terminator (MCStringFormats), signed fields *)
(* padded with spaces, and strings with both a width and a precision.      *)
(***************************************************************************)
EXTENDS Stdio

Words == {0, 10, 128, 255, 2048, 4095}
Lengths == {<<>>, <<"z">>, <<"l", "l">>}
Text == <<"R", "S", "D">>

UnsignedFormats ==
  {<<Conv(zero, width, -1, length, conv, arg)>> :
     zero \in BOOLEAN, width \in {0, 3, 10}, length \in Lengths,
     conv \in {"u", "x"}, arg \in Words}
SignedFormats ==
  {<<Conv(width > 0, width, -1, length, "d", arg)>> :
     width \in {0, 3, 10}, length \in Lengths, arg \in Words}
Others ==
  { <<>>, <<Conv(FALSE, 0, -1, <<>>, "-", NUL)>>,
    <<Conv(FALSE, 0, -1, <<>>, "p", 4095)>>,
    <<Conv(FALSE, 0, -1, <<"h">>, "u", 32), Char("x"), Conv(FALSE, 0, -1, <<>>, "%", NUL)>>,
    <<Char("a"), Conv(FALSE, 0, 2, <<>>, "s", Text), Conv(FALSE, 0, -1, <<>>, "c", "b")>>,
    <<Conv(FALSE, 0, 0, <<>>, "s", Text), Char("a")>>,
    <<Char("a"), Conv(FALSE, 0, -1, <<"l", "l", "l">>, "u", 1), Char("b")>>,
    <<Char("a"), Conv(FALSE, 0, -1, <<>>, "-", NUL)>>,
    <<Char("a"), Conv(FALSE, 0, -1, <<>>, "c", EOF_CHAR), Char("b")>> }
MCFormats == UnsignedFormats \cup SignedFormats \cup Others

MCStringFormats == {<<Char("a"), Conv(FALSE, 0, -1, <<>>, "s", Text), Char("b")>>}
MCStrings == {Text, <<>>}

ASSUME ConversionsWriteText
==============================================================================
