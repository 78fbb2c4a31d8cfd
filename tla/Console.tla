------------------------------ MODULE Console -------------------------------
(***************************************************************************)
(* The console of BenOS from the first message to the running guest: printk *)
(* and its one static print_buf (lib/printk.c), the early log, the UART and *)
(* the PLIC drivers (src/uart.c, src/plic.c), and who prints: kernel_main,  *)
(* vs_thread, the guest (which runs the same printk on the same buffer,     *)
(* mapped one to one by stage 2), and the trap handlers in between.         *)
(*                                                                         *)
(* A message is a name; its characters are <<name, 1>>, <<name, 2>>, ..., of *)
(* which the last is the newline.  One message stands for each run of        *)
(* messages printed under the same conditions.                             *)
(***************************************************************************)
EXTENDS Integers, Sequences, FiniteSets, SequencesExt

CONSTANTS
  MsgLen,      \* characters per message
  NrBytes,     \* bytes that arrive on the serial line
  RxFifo,      \* depth of the receive FIFO (16)
  Trigger      \* its trigger level (14)

Handlers == {"fault", "irq"}      \* printed with SIE clear
Messages == {"E1", "E2", "B", "M", "V", "G1", "G2"} \cup Handlers

ASSUME ConsoleAssumption ==
  /\ MsgLen \in [Messages -> Nat \ {0}]
  /\ Trigger \in 1 .. RxFifo

VARIABLES
  step,      \* the next statement of kernel_main, vs_main or the guest
  frames,    \* activations of printk and plic_handle_irq, the last one runs
  print_buf, \* the characters of the buffer
  log_buf, g_record, g_record_len,
  tx, line,  \* characters in the transmitter, and those that left it until
             \* the first message after the early ones is out (a history)
  lost,      \* how many characters uart_init threw away
  rx, left, timeout,   \* receive FIFO, bytes to come, character time-out
  pending, claimed, seie,   \* the PLIC's gateway of the UART; SIE_SEIE
  mapped     \* what stage 2 maps of the guest's way through printk

base == <<step>>
log  == <<log_buf, g_record, g_record_len>>
out  == <<tx, line, lost>>
in   == <<rx, left, timeout>>
plic == <<pending, claimed, seie>>
vars == <<base, frames, print_buf, log, out, in, plic, mapped>>

Char(m, i) == <<m, i>>
TheNul == <<"nul", 0>>
CR == <<"cr", 0>>
Text(m) == [i \in 1 .. MsgLen[m] |-> Char(m, i)]

Top == Last(frames)
Running(who) == frames # <<>> /\ Top.who \in who
SetTop(f) == frames' = Append(Front(frames), f)

(* The statements that print, and what comes after each of them. *)
Prints == [early1 |-> <<"E1", "init1">>, early2 |-> <<"E2", "replay">>,
           boot |-> <<"B", "init2">>, last |-> <<"M", "idle">>,
           vs |-> <<"V", "enter">>, guest1 |-> <<"G1", "guest2">>,
           guest2 |-> <<"G2", "spin">>]

(* Where SIE is set, or the hart is in VS mode. *)
InterruptsOn == step \in {"last", "idle", "vs", "enter", "guest1", "guest2", "spin"}
ThreadSteps == {"vs", "enter", "guest1", "guest2", "spin"}

(* A call of printk: whoever it interrupts remembers it. *)
Frame(m) == [who |-> m, at |-> "format", i |-> 0, todo |-> <<>>, hits |-> {}]
Hit(fs, m) == [k \in DOMAIN fs |-> [fs[k] EXCEPT !.hits = @ \cup {m}]]
Printk(fs, m) == frames' = Append(Hit(fs, m), Frame(m))

-----------------------------------------------------------------------------
Init ==
  /\ step = "early1" /\ frames = <<>>
  /\ print_buf = <<>>
  /\ log_buf = <<>> /\ g_record = 0 /\ g_record_len = 0
  /\ tx \in {<<>>, <<<<"sbi", 1>>>>} /\ line = <<>> /\ lost = 0
  /\ rx = <<>> /\ left = NrBytes /\ timeout = FALSE
  /\ pending = FALSE /\ claimed = FALSE /\ seie = TRUE
  /\ mapped = {}

(* kernel_main, vs_main and the guest call printk. *)
CallPrintk ==
  /\ frames = <<>> /\ step \in DOMAIN Prints
  /\ Printk(frames, Prints[step][1])
  /\ UNCHANGED <<base, print_buf, log, out, in, plic, mapped>>

(* uart_init, from kernel_main and from enable_uart_plic: both FIFOs are
   cleared; a character already in the shift register goes out.            *)
UartInit ==
  /\ frames = <<>> /\ step \in {"init1", "init2"}
  /\ step' = IF step = "init1" THEN "early2" ELSE "last"
  /\ \E kept \in {k \in 0 .. 1 : k <= Len(tx)} :
       tx' = SubSeq(tx, 1, kept) /\ lost' = lost + Len(tx) - kept
  /\ rx' = <<>> /\ timeout' = FALSE
  /\ UNCHANGED <<frames, print_buf, log, line, left, plic, mapped>>

(* vs_main jumps to VS mode; until its first message the guest has touched
   its code and data, in pages of which printk's may be one, and no device. *)
EnterGuest ==
  /\ frames = <<>> /\ step = "enter"
  /\ step' = "guest1"
  /\ mapped' \in SUBSET {"fmt", "buf"}
  /\ UNCHANGED <<frames, print_buf, log, out, in, plic>>

(* A timer interrupt of the init task, which never runs again: vs_thread
   starts, in the middle of the message if there is one.                   *)
Preempt ==
  /\ step \in {"last", "idle"}
  /\ frames = <<>> \/ Running({"M"})
  /\ step' = "vs" /\ frames' = <<>>
  /\ UNCHANGED <<print_buf, log, out, in, plic, mapped>>

-----------------------------------------------------------------------------
(* printk.                                                                 *)

Guest(f) == f.who \in {"G1", "G2"}

X_Store(i, c) == print_buf' = Append(print_buf, c)   \* Mutant: pos not reset
Store(i, c) ==             \* print_buf[i - 1] = c
  print_buf' = [k \in 1 .. IF i > Len(print_buf) THEN i ELSE Len(print_buf) |->
                  IF k = i THEN c ELSE print_buf[k]]

(* What stage 2 must map for the guest's next step in printk. *)
Needs(f) == CASE f.at = "format" -> {"fmt", "buf"}
              [] f.at = "send"   -> {"buf"}
              [] f.at = "wait"   -> {"lsr"}
              [] f.at = "write"  -> {"dat"}
              [] OTHER           -> {}

(* stage2_page_fault: its message, through the same buffer, then the page. *)
Stage2Fault ==
  /\ frames # <<>> /\ Guest(Top)
  /\ \E page \in Needs(Top) \ mapped : mapped' = mapped \cup {page}
  /\ Printk(frames, "fault")
  /\ UNCHANGED <<base, print_buf, log, out, in, plic>>

MayStep(f) == Guest(f) => Needs(f) \subseteq mapped

(* myprintf stores one character, and the terminator at the end. *)
Format ==
  /\ Running(Messages) /\ Top.at = "format" /\ MayStep(Top)
  /\ IF Top.i < MsgLen[Top.who]
     THEN /\ Store(Top.i + 1, Char(Top.who, Top.i + 1))
          /\ SetTop([Top EXCEPT !.i = @ + 1])
     ELSE /\ Store(Top.i + 1, TheNul)
          /\ SetTop([Top EXCEPT !.i = 0, !.at = "output"])
  /\ UNCHANGED <<base, log, out, in, plic, mapped>>

X_Record(m) ==             \* Mutant: only the last message is counted
  LET len == MsgLen[m]
  IN  /\ log_buf' = SubSeq(log_buf, 1, g_record) \o SubSeq(print_buf, 1, len)
      /\ g_record' = len
      /\ g_record_len' = len
(* While the console is down the message goes to the log: g_record becomes
   log_buf + len, which is the end of the log for the first two messages.  *)
Record(m) ==
  LET len == MsgLen[m]
  IN  /\ log_buf' = SubSeq(log_buf, 1, g_record) \o SubSeq(print_buf, 1, len)
      /\ g_record' = len
      /\ g_record_len' = g_record_len + len

EarlySteps == {"early1", "init1", "early2", "replay"}

(* The return of the outermost printk is the next statement of its caller;
   plic_handle_irq goes on with the completion.                            *)
Return ==
  /\ frames' = Front(frames)
  /\ IF Len(frames) = 1 THEN step' = Prints[step][2] ELSE UNCHANGED step

Output ==
  /\ Running(Messages) /\ Top.at = "output"
  /\ IF step \in EarlySteps
     THEN Record(Top.who) /\ Return
     ELSE SetTop([Top EXCEPT !.at = "send"]) /\ UNCHANGED <<base, log>>
  /\ UNCHANGED <<print_buf, out, in, plic, mapped>>

(* putchar: a newline is sent as \r\n. *)
IsNewline(c) == c[1] \in Messages /\ c[2] = MsgLen[c[1]]
PutChar(c) == IF IsNewline(c) THEN <<CR, c>> ELSE <<c>>

(* printk takes the next character out of the buffer, or returns. *)
Send ==
  /\ Running(Messages) /\ Top.at = "send" /\ MayStep(Top)
  /\ IF Top.i < MsgLen[Top.who]
     THEN /\ SetTop([Top EXCEPT !.i = @ + 1, !.at = "wait",
                                !.todo = PutChar(print_buf[Top.i + 1])])
          /\ UNCHANGED base
     ELSE Return
  /\ UNCHANGED <<print_buf, log, out, in, plic, mapped>>

(* init_printk_done replays the log. *)
Replay ==
  /\ step = "replay"
  /\ IF frames = <<>>
     THEN frames' = <<[Frame("replay") EXCEPT !.at = "send"]>> /\ UNCHANGED <<base, log>>
     ELSE /\ Running({"replay"}) /\ Top.at = "send"
          /\ IF Top.i < g_record_len
             THEN /\ SetTop([Top EXCEPT !.i = @ + 1, !.at = "wait",
                                        !.todo = PutChar(log_buf[Top.i + 1])])
                  /\ UNCHANGED <<base, log>>
             ELSE /\ frames' = <<>> /\ step' = "boot"
                  /\ g_record' = 0 /\ g_record_len' = 0 /\ UNCHANGED log_buf
  /\ UNCHANGED <<print_buf, out, in, plic, mapped>>

Sending == frames # <<>> /\ Top.at \in {"wait", "write"}

X_LsrEmpty == TRUE         \* Mutant: uart_send does not wait
LsrEmpty == tx = <<>>      \* FIFO and shift register are empty

(* uart_send waits for the transmitter ... *)
UartWait ==
  /\ Sending /\ Top.at = "wait" /\ MayStep(Top)
  /\ LsrEmpty
  /\ SetTop([Top EXCEPT !.at = "write"])
  /\ UNCHANGED <<base, print_buf, log, out, in, plic, mapped>>

(* ... and writes to it. *)
UartWrite ==
  /\ Sending /\ Top.at = "write" /\ MayStep(Top)
  /\ tx' = Append(tx, Head(Top.todo))
  /\ SetTop([Top EXCEPT !.todo = Tail(@),
                        !.at = IF Len(Top.todo) = 1 THEN "send" ELSE "wait"])
  /\ UNCHANGED <<base, print_buf, log, line, lost, in, plic, mapped>>

-----------------------------------------------------------------------------
(* The external interrupt.                                                 *)

(* Traps are taken with SIE set, and plic_handle_irq is entered. *)
TakeIrq ==
  /\ InterruptsOn /\ pending /\ seie
  /\ ~Running(Handlers \cup {"plic"})
  /\ frames' = Append(frames, [Frame("plic") EXCEPT !.at = "claim"])
  /\ seie' = FALSE
  /\ UNCHANGED <<base, print_buf, log, out, in, pending, claimed, mapped>>

(* The claim register gives the interrupt, or 0 and the handler returns. *)
Claim ==
  /\ Running({"plic"}) /\ Top.at = "claim"
  /\ IF pending
     THEN /\ pending' = FALSE /\ claimed' = TRUE /\ UNCHANGED seie
          /\ SetTop([Top EXCEPT !.at = "handle"])
     ELSE /\ seie' = TRUE /\ UNCHANGED <<pending, claimed>>
          /\ frames' = Front(frames)
  /\ UNCHANGED <<base, print_buf, log, out, in, mapped>>

(* handle_uart_irq reads one byte if there is one, and prints for a \r. *)
HandleUartIrq ==
  /\ Running({"plic"}) /\ Top.at = "handle"
  /\ LET fs == Append(Front(frames), [Top EXCEPT !.at = "complete"])
     IN  IF rx # <<>> /\ Head(rx) = "cr" THEN Printk(fs, "irq") ELSE frames' = fs
  /\ rx' = IF rx = <<>> THEN rx ELSE Tail(rx)
  /\ timeout' = (timeout /\ rx = <<>>)
  /\ UNCHANGED <<base, print_buf, log, out, left, plic, mapped>>

X_Complete ==              \* Mutant: the interrupt is not completed
  /\ Running({"plic"}) /\ Top.at = "complete"
  /\ SetTop([Top EXCEPT !.at = "claim"])
  /\ UNCHANGED <<base, print_buf, log, out, in, plic, mapped>>
Complete ==
  /\ Running({"plic"}) /\ Top.at = "complete"
  /\ claimed' = FALSE
  /\ SetTop([Top EXCEPT !.at = "claim"])
  /\ UNCHANGED <<base, print_buf, log, out, in, pending, seie, mapped>>

-----------------------------------------------------------------------------
(* The devices.                                                            *)

(* A character leaves the transmitter. *)
Transmit ==
  /\ tx # <<>>
  /\ tx' = Tail(tx)
  /\ line' = IF step \in EarlySteps \cup {"boot"} THEN Append(line, Head(tx)) ELSE line
  /\ UNCHANGED <<base, frames, print_buf, log, lost, in, plic, mapped>>

(* A byte arrives, and is dropped if the FIFO is full. *)
Arrive ==
  /\ left > 0 /\ step \notin {"early1", "init1"}
  /\ \E b \in {"cr", "other"} : rx' = IF Len(rx) < RxFifo THEN Append(rx, b) ELSE rx
  /\ left' = left - 1 /\ timeout' = FALSE
  /\ UNCHANGED <<base, frames, print_buf, log, out, plic, mapped>>

(* No byte came or was read for a while. *)
CharTimeout ==
  /\ rx # <<>> /\ ~timeout
  /\ timeout' = TRUE
  /\ UNCHANGED <<base, frames, print_buf, log, out, rx, left, plic, mapped>>

(* The gateway passes one request on until it is completed. *)
Gateway ==
  /\ Len(rx) >= Trigger \/ timeout
  /\ ~pending /\ ~claimed
  /\ pending' = TRUE
  /\ UNCHANGED <<base, frames, print_buf, log, out, in, claimed, seie, mapped>>

(* while (1) at the end of the guest. *)
Spin == step = "spin" /\ frames = <<>> /\ UNCHANGED vars

Hart ==
  \/ CallPrintk \/ UartInit \/ EnterGuest \/ Format \/ Output \/ Send \/ Replay
  \/ UartWait \/ UartWrite \/ Stage2Fault \/ Claim \/ HandleUartIrq \/ Complete

Next == Hart \/ Preempt \/ TakeIrq \/ Transmit \/ Arrive \/ CharTimeout \/ Gateway \/ Spin

(* The hart goes on and takes interrupts, the timer ticks (Timer), and the
   devices do their part; nobody has to type.                              *)
Fairness == /\ WF_vars(Hart) /\ WF_vars(Preempt) /\ WF_vars(TakeIrq)
            /\ WF_vars(Transmit) /\ WF_vars(CharTimeout) /\ WF_vars(Gateway)

Spec == Init /\ [][Next]_vars
FairSpec == Spec /\ Fairness

-----------------------------------------------------------------------------
(* A whole message on the line: its newline is sent as \r\n. *)
Wire(m) == SubSeq(Text(m), 1, MsgLen[m] - 1) \o <<CR, Char(m, MsgLen[m])>>

(* kernel.c:529: what was printed before the console was up is in the buffer
   and all of it is printed then, in order, before anything else but the one
   character the firmware may have left in the transmitter.                *)
EarlyLogWhole ==
  step \notin EarlySteps =>
    \E left_over \in {<<>>, <<<<"sbi", 1>>>>} :
      IsPrefix(left_over \o Wire("E1") \o Wire("E2"), line \o tx)

(* print_buf is shared and unlocked.  A character that printk sends is the
   one it stored, or, where a handler printed in the meantime, the handler's
   character or terminator at the same place: the messages of the handlers
   are whole, and nobody's characters are sent out of their place.         *)
MixedOnlyByHandlers ==
  \A k \in DOMAIN frames :
    LET f == frames[k]
        c == Last(f.todo)
    IN  f.who \in Messages /\ f.todo # <<>> =>
          /\ f.who \in Handlers => c = Char(f.who, f.i)
          /\ \/ c = Char(f.who, f.i)
             \/ \E h \in f.hits : c = Char(h, f.i)
             \/ c = TheNul /\ \E h \in f.hits : f.i = MsgLen[h] + 1

(* uart_send finds room: between its test and its write at most one handler
   can have put a last character into the transmitter.  So uart_init, which
   clears it, loses at most the last character of what was printed before,
   once of the firmware's and once of plic_init's.                         *)
TransmitterHasRoom == Len(tx) <= 2 /\ lost <= 2

(* Every byte is read, however it arrives while the hart prints, faults, or
   handles the byte before: one interrupt reads one byte, and what stays in
   the FIFO raises another.                                                *)
BytesAreRead == []<>(rx = <<>>)
=============================================================================
