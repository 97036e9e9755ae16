-------------------------------- MODULE Serial -------------------------------
(***************************************************************************)
(* The serial ports: serial_detect, serial_write and serial_read of        *)
(* src/drivers/serial.c, called as kernel_main (src/kernel.c) does: one    *)
(* port is detected to become stdout, then all ports are detected, the     *)
(* one in use too, with output in between.  The chips and the peers at     *)
(* the other end of the lines run beside the processor, which takes one    *)
(* step for every port access.                                             *)
(***************************************************************************)
EXTENDS Naturals, Sequences, SequencesExt

CONSTANTS
  PORTS,          \* the ports are 1 .. PORTS (SERIAL_PORT_1 to 4)
  Present,        \* those with a chip
  DEPTH,          \* bytes a FIFO of the chip holds (16)
  Banner, Report, \* what is printed after the first detection and at the end
  Detected(_),    \* what is printed for a port that was found
  PeerBytes,      \* what the other ends of the lines may send
  MaxPeer         \* bound on how often they do

SCRATCH_TEST_BYTE == "scratch"
LOOP_TEST_BYTE == "loop"
FLOATING == "floating"            \* read from a port without a chip
BAUD_LOW == "12"                  \* MAX_BAUD_RATE / BAUD_RATE
BAUD_HIGH == "0"

ASSUME PortAssumption ==
  /\ PORTS \in Nat \ {0} /\ Present \subseteq 1 .. PORTS
  /\ DEPTH \in Nat \ {0} /\ MaxPeer \in Nat
  /\ LOOP_TEST_BYTE \notin PeerBytes

(* The bytes of the kernel's output, and all there are. *)
Printed ==
  ToSet(Banner) \cup ToSet(Report) \cup UNION {ToSet(Detected(p)) : p \in 1 .. PORTS}
Byte == Printed \cup PeerBytes \cup {LOOP_TEST_BYTE}

ASSUME OutputAssumption ==
  /\ Banner \in Seq(Printed) /\ Report \in Seq(Printed)
  /\ \A p \in 1 .. PORTS : Detected(p) \in Seq(Printed)

STDOUT_SERIAL == 1

VARIABLES
  uart,      \* registers and FIFOs of the chips
  cpu,       \* where kernel_main and serial_detect are, and text to print
  stdout,    \* "none", "serial" or "framebuffer"
  found,     \* result of the last serial_detect of each port
  sent,      \* bytes that stdout gave to serial_write
  wire,      \* bytes each peer received
  input,     \* bytes serial_read returned
  noise,     \* ports with a byte between the last clear and the loopback
  peer       \* bytes peers have sent

vars == <<uart, cpu, stdout, found, sent, wire, input, noise, peer>>

------------------------------------------------------------------------------
(* The chip *)

Uart ==
  [scratch : {FLOATING, SCRATCH_TEST_BYTE}, line : SUBSET {"DIV_LATCH", "8N1"},
   modem : SUBSET {"DTR", "RTS", "LOOPBACK"}, interrupts : {"any", "0"},
   low : {"any", BAUD_LOW} \cup Byte, high : {"any", BAUD_HIGH},
   fifo : BOOLEAN, tx : Seq(Byte), rx : Seq(Byte)]

InFifo(fifo, byte) == IF Len(fifo) < DEPTH THEN Append(fifo, byte) ELSE fifo

(* A byte for the line.  In loopback it comes back at once.                *)
Transmit(u, byte) ==
  IF "LOOPBACK" \in u.modem THEN [u EXCEPT !.rx = InFifo(@, byte)]
                            ELSE [u EXCEPT !.tx = InFifo(@, byte)]

Written(u, reg, val) ==
  CASE reg = "SCRATCH" -> [u EXCEPT !.scratch = val]
    [] reg = "LINE_CONTROL" -> [u EXCEPT !.line = val]
    [] reg = "MODEM_CONTROL" -> [u EXCEPT !.modem = val]
    [] reg = "FIFO_CONTROL" ->
         [u EXCEPT !.fifo = "ENABLE" \in val,
                   !.rx = IF "CLEAR_RX" \in val THEN <<>> ELSE @,
                   !.tx = IF "CLEAR_TX" \in val THEN <<>> ELSE @]
    [] reg = "DATA" ->
         IF "DIV_LATCH" \in u.line THEN [u EXCEPT !.low = val] ELSE Transmit(u, val)
    [] reg = "INTERRUPT_ENABLE" ->
         IF "DIV_LATCH" \in u.line THEN [u EXCEPT !.high = val]
                                   ELSE [u EXCEPT !.interrupts = val]

(* Moves the oldest byte of the transmitter to the line. *)
Send(p) ==
  /\ uart[p].tx # <<>>
  /\ uart' = [uart EXCEPT ![p].tx = Tail(@)]
  /\ wire' = [wire EXCEPT ![p] = Append(@, Head(uart[p].tx))]
  /\ UNCHANGED <<cpu, stdout, found, sent, input, noise, peer>>

------------------------------------------------------------------------------
(* serial_detect: its port accesses in order.  Of a Check the value read   *)
(* must be the given one; Latch is set_div_latch.                          *)

Out(reg, val) == [op |-> "out", reg |-> reg, val |-> val]
Check(reg, val) == [op |-> "check", reg |-> reg, val |-> val]
Latch(op) == [op |-> op, reg |-> "LINE_CONTROL", val |-> {}]

ScratchTest == << Out("SCRATCH", SCRATCH_TEST_BYTE), Check("SCRATCH", SCRATCH_TEST_BYTE) >>
BaudRate ==
  << Latch("latch off"), Out("INTERRUPT_ENABLE", "0"),
     Latch("latch on"), Out("DATA", BAUD_LOW), Out("INTERRUPT_ENABLE", BAUD_HIGH) >>
DefaultsKeepInput ==                          \* mutant: input not cleared
  << Out("LINE_CONTROL", {"8N1"}),
     Out("FIFO_CONTROL", {"ENABLE", "CLEAR_TX"}),
     Out("MODEM_CONTROL", {"DTR", "RTS", "LOOPBACK"}) >>
DefaultsNoLoopback ==                         \* mutant: bit forgotten
  << Out("LINE_CONTROL", {"8N1"}),
     Out("FIFO_CONTROL", {"ENABLE", "CLEAR_RX", "CLEAR_TX"}),
     Out("MODEM_CONTROL", {"DTR", "RTS"}) >>
Defaults ==
  << Out("LINE_CONTROL", {"8N1"}),
     Out("FIFO_CONTROL", {"ENABLE", "CLEAR_RX", "CLEAR_TX"}),
     Out("MODEM_CONTROL", {"DTR", "RTS", "LOOPBACK"}) >>
LoopbackTestUnread == << Out("DATA", LOOP_TEST_BYTE) >>    \* mutant
LoopbackTest == << Out("DATA", LOOP_TEST_BYTE), Check("DATA", LOOP_TEST_BYTE) >>
NormalModeLoops ==                            \* mutant: loopback left on
  << Out("MODEM_CONTROL", {"DTR", "RTS", "LOOPBACK"}) >>
NormalMode == << Out("MODEM_CONTROL", {"DTR", "RTS"}) >>

DetectSteps == ScratchTest \o BaudRate \o Defaults \o LoopbackTest \o NormalMode

(* The input of port p has been cleared, and the loopback is not on yet.   *)
InWindow(p) ==
  /\ cpu.port = p /\ DetectSteps[cpu.step].reg = "MODEM_CONTROL"
  /\ "LOOPBACK" \in DetectSteps[cpu.step].val

ReadBack(p, reg) ==
  IF p \notin Present THEN FLOATING ELSE
    CASE reg = "SCRATCH" -> uart[p].scratch
      [] reg = "DATA" -> IF uart[p].rx = <<>> THEN FLOATING ELSE Head(uart[p].rx)

AfterRead(u, reg) ==
  IF reg = "DATA" /\ u.rx # <<>> THEN [u EXCEPT !.rx = Tail(@)] ELSE u

(* What an access does to a chip. *)
Accessed(u, step) ==
  CASE step.op = "out" -> Written(u, step.reg, step.val)
    [] step.op = "check" -> AfterRead(u, step.reg)
    [] step.op = "latch on" -> [u EXCEPT !.line = @ \cup {"DIV_LATCH"}]
    [] step.op = "latch off" -> [u EXCEPT !.line = @ \ {"DIV_LATCH"}]

(* Without a chip at the port nothing happens. *)
Access(p, step) ==
  IF p \in Present THEN uart' = [uart EXCEPT ![p] = Accessed(@, step)]
                   ELSE UNCHANGED uart

(* serial_detect returns into kernel_main, which goes on to print and to   *)
(* the detection of the next port, or to its end (port PORTS + 1).         *)
Return(result) ==
  /\ found' = [found EXCEPT ![cpu.port] = IF result THEN "found" ELSE "missed"]
  /\ IF stdout = "none"
     THEN /\ stdout' = IF result THEN "serial" ELSE "framebuffer"
          /\ cpu' = [port |-> 1, step |-> 1, text |-> Banner]
     ELSE /\ UNCHANGED stdout
          /\ cpu' = [port |-> cpu.port + 1, step |-> 1,
                     text |-> (IF result THEN Detected(cpu.port) ELSE <<>>) \o
                              (IF cpu.port = PORTS THEN Report ELSE <<>>)]

IsPortTooFar(port) == port <= PORTS + 1        \* mutant: one port too many
IsPort(port) == port <= PORTS

SerialDetect ==
  /\ cpu.text = <<>> /\ IsPort(cpu.port)
  /\ LET step == DetectSteps[cpu.step]
         failed == step.op = "check" /\ ReadBack(cpu.port, step.reg) # step.val
     IN  /\ Access(cpu.port, step)
         /\ noise' = IF cpu.step = 1 THEN noise \ {cpu.port} ELSE noise
         /\ IF failed \/ cpu.step = Len(DetectSteps)
            THEN Return(~failed)
            ELSE /\ cpu' = [cpu EXCEPT !.step = @ + 1]
                 /\ UNCHANGED <<stdout, found>>
  /\ UNCHANGED <<sent, wire, input, peer>>

------------------------------------------------------------------------------
(* Output and input *)

(* serial_write of the next byte of serial_cookie_write; with a            *)
(* framebuffer the text goes there.                                        *)
SerialWrite ==
  /\ cpu.text # <<>>
  /\ cpu' = [cpu EXCEPT !.text = Tail(@)]
  /\ IF stdout = "serial"
     THEN /\ Access(STDOUT_SERIAL, Out("DATA", Head(cpu.text)))
          /\ sent' = Append(sent, Head(cpu.text))
     ELSE UNCHANGED <<uart, sent>>
  /\ UNCHANGED <<stdout, found, wire, input, noise, peer>>

(* serial_read, once the kernel is up; without a byte it returns -1.       *)
SerialRead(p) ==
  /\ cpu.port > PORTS /\ cpu.text = <<>>
  /\ found[p] = "found" /\ uart[p].rx # <<>>
  /\ uart' = [uart EXCEPT ![p].rx = Tail(@)]
  /\ input' = [input EXCEPT ![p] = Append(@, Head(uart[p].rx))]
  /\ UNCHANGED <<cpu, stdout, found, sent, wire, noise, peer>>

(* The peer of p sends a byte; the chip does not listen in loopback.       *)
PeerSend(p) ==
  /\ peer < MaxPeer
  /\ peer' = peer + 1
  /\ \E byte \in PeerBytes :
       uart' = [uart EXCEPT ![p].rx =
                  IF "LOOPBACK" \in uart[p].modem THEN @ ELSE InFifo(@, byte)]
  /\ noise' = IF InWindow(p) THEN noise \cup {p} ELSE noise
  /\ UNCHANGED <<cpu, stdout, found, sent, wire, input>>

(* The bootloader may have used the ports in any way; use_serial.          *)
Init ==
  /\ \E line \in SUBSET {"DIV_LATCH", "8N1"}, modem \in SUBSET {"LOOPBACK"} :
       uart = [p \in 1 .. PORTS |->
         [scratch |-> FLOATING, line |-> line, modem |-> modem,
          interrupts |-> "any", low |-> "any", high |-> "any", fifo |-> FALSE,
          tx |-> <<>>, rx |-> <<>>]]
  /\ \/ /\ stdout = "none"
        /\ cpu = [port |-> STDOUT_SERIAL, step |-> 1, text |-> <<>>]
     \/ /\ stdout = "framebuffer"
        /\ cpu = [port |-> 1, step |-> 1, text |-> Banner]
  /\ found = [p \in 1 .. PORTS |-> "unknown"]
  /\ sent = <<>>
  /\ wire = [p \in 1 .. PORTS |-> <<>>]
  /\ input = [p \in 1 .. PORTS |-> <<>>]
  /\ noise = {}
  /\ peer = 0

Next ==
  \/ SerialDetect
  \/ SerialWrite
  \/ \E p \in Present : Send(p) \/ SerialRead(p) \/ PeerSend(p)

Spec == Init /\ [][Next]_vars

------------------------------------------------------------------------------
(* Properties *)

(* Types of the state; a FIFO never holds more than its depth.             *)
TypeOK ==
  /\ uart \in [1 .. PORTS -> Uart]
  /\ \A p \in 1 .. PORTS : Len(uart[p].tx) <= DEPTH /\ Len(uart[p].rx) <= DEPTH
  /\ cpu \in [port : 1 .. PORTS + 1, step : 1 .. Len(DetectSteps), text : Seq(Byte)]
  /\ stdout \in {"none", "serial", "framebuffer"}
  /\ found \in [1 .. PORTS -> {"unknown", "found", "missed"}]
  /\ sent \in Seq(Byte)
  /\ wire \in [1 .. PORTS -> Seq(Byte)]
  /\ input \in [1 .. PORTS -> Seq(Byte)]
  /\ noise \subseteq 1 .. PORTS
  /\ peer \in 0 .. MaxPeer

(* serial_detect is not at work on the port. *)
AtRest(p) == cpu.port # p \/ cpu.step = 1

Ready(u) ==
  /\ u.line = {"8N1"} /\ u.modem = {"DTR", "RTS"} /\ u.fifo
  /\ u.interrupts = "0" /\ u.low = BAUD_LOW /\ u.high = BAUD_HIGH

(* A port that serial_detect found is there and set up, whatever state it  *)
(* was in before and whatever is written to it later: the divisor latch is *)
(* off, so that no output changes the baud rate, and so is the loopback.   *)
FoundIsReady ==
  \A p \in 1 .. PORTS :
    found[p] = "found" /\ AtRest(p) => p \in Present /\ Ready(uart[p])

(* serial_detect misses a chip only when its peer sends a byte after the   *)
(* input was cleared and before the loopback is on; the detection of the   *)
(* port that stdout uses is no exception.                                  *)
MissedOnlyByNoise ==
  \A p \in Present : found[p] = "missed" => p \in noise \/ ~AtRest(p)

(* Each byte of s is one of t, and each two of them are in t in that order. *)
InOrder(s, t) ==
  /\ \A i \in 1 .. Len(s) : \E k \in 1 .. Len(t) : t[k] = s[i]
  /\ \A i \in 1 .. Len(s) : \A j \in i + 1 .. Len(s) :
       \E k \in 1 .. Len(t) : t[k] = s[i] /\ \E l \in k + 1 .. Len(t) : t[l] = s[j]

(* What a peer receives is what was printed, in this order, perhaps with   *)
(* bytes missing (a full FIFO, or one cleared by a second detection), and  *)
(* only on the port of stdout: never the byte of the loopback test.  When  *)
(* no byte is printed twice, none is received twice either.                *)
WireGetsOutput ==
  \A p \in 1 .. PORTS :
    /\ wire[p] # <<>> => p = STDOUT_SERIAL
    /\ InOrder(wire[p], sent)

(* What is read from a port that was found, now or later, was sent by its  *)
(* peer: the loopback test leaves nothing behind.                          *)
InputGenuine ==
  \A p \in 1 .. PORTS :
    /\ ToSet(input[p]) \subseteq PeerBytes
    /\ found[p] = "found" /\ AtRest(p) => ToSet(uart[p].rx) \subseteq PeerBytes
==============================================================================
