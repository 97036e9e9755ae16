------------------------------- MODULE MCConsole -----------------------------
(***************************************************************************)
(* Console with 3 ports, the last without a chip, FIFOs of 2 bytes, and    *)
(* peers that send 2 bytes at any time.  Every character of the texts is   *)
(* told apart.  Characters are 2 by 2 pixels; the screens have 1 to 3 of   *)
(* them in a row, with and without a rest and a gap behind it, and 1 to 3  *)
(* rows.                                                                   *)
(***************************************************************************)
EXTENDS Console

MCBanner == <<"boot1", "boot2", "newline1">>
MCReport == <<"info1", "info2", "info3", "tab", "newline2", "end">>
MCDetected(p) == <<CASE p = 1 -> "one" [] p = 2 -> "two" [] p = 3 -> "three">>

MCNewline == {"newline1", "newline2"}
MCVisible == (ToSet(MCBanner \o MCReport) \cup {"one", "two", "three"}) \ (MCNewline \cup {"tab"})
MCChar == MCVisible \cup MCNewline \cup {"tab"}

MCScreens ==
  UNION {[width : {w}, height : 2 .. 6, pitch : {w, w + 1, w + 2}] : w \in 2 .. 6}
==============================================================================
