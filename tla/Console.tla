------------------------------- MODULE Console -------------------------------
(***************************************************************************)
(* The console of kernel_main (src/kernel.c): what the kernel prints goes  *)
(* to the stdout it chose, the serial port of Serial when there is one     *)
(* that works, and else the screen of Framebuffer, while the ports are     *)
(* still being detected.                                                   *)
(***************************************************************************)
EXTENDS Serial, Framebuffer

ASSUME TextAssumption ==
  /\ Banner \in Seq(Char) /\ Report \in Seq(Char)
  /\ \A p \in 1 .. PORTS : Detected(p) \in Seq(Char)

consoleVars == <<vars, fbvars>>

NoScreen == [width |-> 0, height |-> 0, pitch |-> 0]

Dark ==
  /\ screen = NoScreen
  /\ cursor = [x |-> 0, y |-> 0] /\ pixel = <<>> /\ shown = <<<<>>>>

(* kernel_main without the word "serial" on its command line takes the     *)
(* framebuffer at once, with it only when no port was detected.  The       *)
(* screen the bootloader set up is chosen when it is first used.           *)
ConsoleInit ==
  /\ Init
  /\ IF stdout = "framebuffer" THEN FbInit ELSE Dark

Detect ==
  /\ SerialDetect
  /\ IF stdout = "none" /\ stdout' = "framebuffer"
     THEN screen' \in Screens /\ UNCHANGED <<cursor, pixel, shown>>
     ELSE UNCHANGED fbvars

(* The writer of the stream gets the next character. *)
Write ==
  /\ SerialWrite
  /\ IF stdout = "framebuffer" THEN FbCookieWrite(Head(cpu.text))
                               ELSE UNCHANGED fbvars

ConsoleNext ==
  \/ Detect
  \/ Write
  \/ /\ \E p \in Present : Send(p) \/ SerialRead(p) \/ PeerSend(p)
     /\ UNCHANGED fbvars

ConsoleSpec == ConsoleInit /\ [][ConsoleNext]_consoleVars
==============================================================================
