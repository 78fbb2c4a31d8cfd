--------------------------- MODULE ConsoleProofs ----------------------------
(***************************************************************************)
(* Theorems about Console for messages of any length, any number of bytes  *)
(* on the line and any FIFO.                                               *)
(***************************************************************************)
EXTENDS Console, TLAPS, SequenceTheorems

-----------------------------------------------------------------------------
(* The inductive invariant.                                                 *)

Base == (Messages \ Handlers) \cup {"replay"}
Chars == (Messages \cup {"nul", "cr", "sbi"}) \X Nat

\* Where printk and where plic_handle_irq can be.
Printing == {"format", "output", "send", "wait", "write"}
Handling == {"claim", "handle", "complete"}

Activations ==
    [who : Base \cup Handlers \cup {"plic"}, at : Printing \cup Handling, i : Nat,
     todo : Seq(Chars), hits : SUBSET Handlers]

Steps == DOMAIN Prints \cup {"init1", "replay", "init2", "idle", "enter", "spin"}

Types ==
    /\ step \in Steps
    /\ frames \in Seq(Activations)
    /\ print_buf \in Seq(Chars)
    /\ log_buf \in Seq(Chars) /\ g_record \in Nat /\ g_record_len \in Nat
    /\ tx \in Seq(Chars) /\ line \in Seq(Chars) /\ lost \in Nat

\* Who can interrupt whom: no handler is interrupted.
Interrupts(g, f) ==
    \/ g.who = "plic" /\ f.who \in Base
    \/ g.who = "irq" /\ f.who = "plic"
    \/ g.who = "fault" /\ Guest(f)

\* The activation below all others.
Outermost(f, s) ==
    \/ f.who = "plic"
    \/ s \in DOMAIN Prints /\ f.who = Prints[s][1]
    \/ s = "replay" /\ f.who = "replay"

\* Where interrupts are taken.
Interruptible == {"last", "idle", "vs", "enter", "guest1", "guest2", "spin"}

\* The activations fs in step s: each knows the handlers that print above it.
StackOK(fs, s) ==
    /\ fs # <<>> => Outermost(fs[1], s)
    /\ \A k \in DOMAIN fs : k > 1 => Interrupts(fs[k], fs[k - 1])
    /\ \A k \in DOMAIN fs : fs[k].who = "plic" => s \in Interruptible
    /\ \A k, l \in DOMAIN fs : k < l /\ fs[l].who \in Handlers => fs[l].who \in fs[k].hits
    /\ s \notin Interruptible => \A k \in DOMAIN fs : fs[k].hits = {}

\* A character that activation f may find or send as its j-th.
Fits(f, c, j) ==
    \/ c = Char(f.who, j)
    \/ f.who \notin Handlers /\ \E h \in f.hits : c = Char(h, j)
    \/ f.who \notin Handlers /\ c = TheNul /\ \E h \in f.hits : j = MsgLen[h] + 1

\* How much of its message f has stored.
Stored(f) == IF f.at = "format" THEN f.i ELSE MsgLen[f.who]

FrameOK(f) ==
    /\ f.at \in Handling <=> f.who = "plic"
    /\ f.who = "replay" => f.at \in {"send", "wait", "write"}
    /\ f.at \in {"wait", "write"} <=> f.todo # <<>>
    /\ f.todo # <<>> => \E c \in Chars : /\ f.todo \in {<<c>>, <<CR, c>>}
                                         /\ f.who \in Messages => Fits(f, c, f.i)
    /\ f.who \in Messages => f.i <= MsgLen[f.who]
    /\ f.at = "output" => f.i = 0

\* What f has stored in buf still fits.
BufferOK(f, buf) ==
    f.who \in Messages =>
        /\ Stored(f) <= Len(buf)
        /\ \A j \in 1 .. Stored(f) : Fits(f, buf[j], j)

FramesOK(fs, buf) == \A k \in DOMAIN fs : FrameOK(fs[k]) /\ BufferOK(fs[k], buf)

\* Between the test and the write of an activation a handler's last character may
\* have gone into the transmitter; between those of a handler nothing.
RoomOK ==
    /\ Len(tx) <= IF step \in Interruptible THEN 2 ELSE 1
    /\ (\E k \in DOMAIN frames : frames[k].at = "write") => Len(tx) <= 1
    /\ \A k \in DOMAIN frames :
           frames[k].at = "write" /\ (frames[k].who \in Handlers \/ step \notin Interruptible) => tx = <<>>
    /\ lost <= CASE step \in {"early1", "init1"} -> 0
                 [] step \in {"early2", "replay", "boot", "init2"} -> 1
                 [] OTHER -> 2

\* What is on the line when j characters of the log have been sent.
Sent(j) ==
    IF j < MsgLen["E1"] THEN SubSeq(Text("E1"), 1, j)
    ELSE IF j < MsgLen["E1"] + MsgLen["E2"]
    THEN Wire("E1") \o SubSeq(Text("E2"), 1, j - MsgLen["E1"])
    ELSE Wire("E1") \o Wire("E2")

LeftOver == {<<>>, <<<<"sbi", 1>>>>}
Stream == line \o tx
Early == Wire("E1") \o Wire("E2")

\* The log while there is no console: it is written, and nothing is sent.
LogOK ==
    /\ step = "early1" => log_buf = <<>> /\ g_record = 0 /\ g_record_len = 0
    /\ step \in {"init1", "early2"} =>
           log_buf = Text("E1") /\ g_record = MsgLen["E1"] /\ g_record_len = MsgLen["E1"]
    /\ step = "replay" =>
           log_buf = Text("E1") \o Text("E2") /\ g_record_len = MsgLen["E1"] + MsgLen["E2"]
    /\ step \in {"early1", "early2"} => \A k \in DOMAIN frames : frames[k].at \in {"format", "output"}

Core ==
    /\ Types
    /\ StackOK(frames, step)
    /\ FramesOK(frames, print_buf)
    /\ RoomOK
    /\ LogOK

\* While the log is replayed the line has the part of it that was taken out, but for
\* what is still to be written; after that all of it, in front of everything.
EarlyOK ==
    /\ step \in {"early1", "init1", "early2"} => Stream \in LeftOver
    /\ step = "replay" /\ frames = <<>> => Stream \in LeftOver
    /\ step = "replay" /\ frames # <<>> =>
           /\ frames[1].i <= MsgLen["E1"] + MsgLen["E2"]
           /\ \E s \in LeftOver : Stream \o frames[1].todo = s \o Sent(frames[1].i)
    /\ step = "boot" =>
           \E s \in LeftOver :
               /\ IsPrefix(s \o Early, Stream)
               /\ frames # <<>> /\ frames[1].at = "send" /\ frames[1].i > 0 =>
                      Len(s \o Early) < Len(Stream)
    /\ step \notin EarlySteps \cup {"boot"} => \E s \in LeftOver : IsPrefix(s \o Early, line)

IInv == Core /\ EarlyOK

-----------------------------------------------------------------------------
(* The stack of activations.                                                *)

LEMMA Lengths == \A m \in Messages : MsgLen[m] \in Nat /\ MsgLen[m] > 0
BY ConsoleAssumption

\* What the last element of a sequence becomes, and the others keep.
LEMMA Replaced ==
    ASSUME NEW S, NEW s \in Seq(S), s # <<>>, NEW f \in S
    PROVE  /\ Append(Front(s), f) \in Seq(S)
           /\ Len(Append(Front(s), f)) = Len(s)
           /\ Append(Front(s), f)[Len(s)] = f
           /\ \A k \in DOMAIN s : k # Len(s) => Append(Front(s), f)[k] = s[k]
<1>1. Len(s) \in Nat /\ Len(s) > 0 /\ DOMAIN s = 1 .. Len(s)
  OBVIOUS
<1>2. Front(s) \in Seq(S) /\ Len(Front(s)) = Len(s) - 1
        /\ \A k \in 1 .. Len(s) - 1 : Front(s)[k] = s[k]
  BY <1>1 DEF Front
<1> DEFINE t == Front(s)
<1> HIDE DEF t
<1>3. /\ Append(t, f) \in Seq(S) /\ Len(Append(t, f)) = Len(t) + 1
      /\ \A k \in 1 .. Len(t) : Append(t, f)[k] = t[k]
      /\ Append(t, f)[Len(t) + 1] = f
  BY <1>2, AppendProperties DEF t
<1>4. Len(t) + 1 = Len(s) /\ \A k \in DOMAIN s : k # Len(s) => k \in 1 .. Len(t) /\ t[k] = s[k]
  BY <1>1, <1>2 DEF t
<1> QED
  BY <1>3, <1>4 DEF t

LEMMA Popped ==
    ASSUME NEW S, NEW s \in Seq(S), s # <<>>
    PROVE  /\ Front(s) \in Seq(S) /\ Len(Front(s)) = Len(s) - 1
           /\ \A k \in 1 .. Len(s) - 1 : Front(s)[k] = s[k]
<1>1. Len(s) \in Nat /\ Len(s) > 0 /\ DOMAIN s = 1 .. Len(s)
  OBVIOUS
<1> QED
  BY <1>1 DEF Front

LEMMA PrintsTable ==
    /\ DOMAIN Prints = {"early1", "early2", "boot", "last", "vs", "guest1", "guest2"}
    /\ \A s \in DOMAIN Prints : /\ Prints[s][1] \in Messages \ Handlers
                                /\ Prints[s][2] \in Steps
                                /\ Prints[s][1] \in {"G1", "G2"} => s \in {"guest1", "guest2"}
BY DEF Prints, Messages, Handlers, Steps

\* The last of the activations.
LEMMA TopFacts ==
    ASSUME NEW fs \in Seq(Activations), fs # <<>>, NEW s, StackOK(fs, s)
    PROVE  /\ Len(fs) \in Nat /\ Len(fs) > 0 /\ DOMAIN fs = 1 .. Len(fs)
           /\ Last(fs) = fs[Len(fs)] /\ Last(fs) \in Activations
           /\ Last(fs).who \in Base => Len(fs) = 1
           /\ Last(fs).who = "irq" => Len(fs) > 1 /\ fs[Len(fs) - 1].who = "plic"
           /\ Last(fs).who = "fault" => Len(fs) > 1 /\ Guest(fs[Len(fs) - 1])
           /\ \A k \in 1 .. Len(fs) - 1 : fs[k].who \notin Handlers
           /\ s \notin Interruptible => Len(fs) = 1 /\ Last(fs).who \in Base
           /\ Len(fs) = 1 => Outermost(Last(fs), s)
<1>1. Len(fs) \in Nat /\ Len(fs) > 0 /\ DOMAIN fs = 1 .. Len(fs)
  OBVIOUS
<1>2. Last(fs) = fs[Len(fs)] /\ Last(fs) \in Activations
  BY <1>1 DEF Last
<1>3. ASSUME NEW k \in 1 .. Len(fs) - 1 PROVE Interrupts(fs[k + 1], fs[k])
  <2>1. k + 1 \in DOMAIN fs /\ k + 1 > 1 /\ (k + 1) - 1 = k
    BY <1>1
  <2>2. Interrupts(fs[k + 1], fs[(k + 1) - 1])
    BY <2>1 DEF StackOK
  <2> QED
    BY <2>1, <2>2
<1>4. /\ Outermost(fs[1], s)
      /\ \A k \in 1 .. Len(fs) - 1 : Interrupts(fs[k + 1], fs[k])
  BY <1>1, <1>3 DEF StackOK
<1>5. \A k \in 1 .. Len(fs) : fs[k].who \in Base \cup Handlers \cup {"plic"}
  <2>1. \A k \in 1 .. Len(fs) : fs[k] \in Activations
    BY <1>1
  <2> QED
    BY <2>1 DEF Activations
<1>6. fs[1].who \notin Handlers
  BY <1>4, PrintsTable DEF Outermost, Handlers
<1>7. /\ Len(fs) > 1 => Interrupts(Last(fs), fs[Len(fs) - 1])
      /\ Len(fs) = 1 => Outermost(Last(fs), s)
  BY <1>1, <1>2, <1>4
<1>8. /\ Last(fs).who \in Base => Len(fs) = 1
      /\ Last(fs).who = "irq" => Len(fs) > 1 /\ fs[Len(fs) - 1].who = "plic"
      /\ Last(fs).who = "fault" => Len(fs) > 1 /\ Guest(fs[Len(fs) - 1])
  BY <1>1, <1>2, <1>4, <1>6, <1>7 DEF Interrupts, Base, Messages, Handlers
<1>9. \A k \in 1 .. Len(fs) - 1 : fs[k].who \notin Handlers
  BY <1>1, <1>4 DEF Interrupts, Base, Messages, Handlers, Guest
<1>10. ASSUME s \notin Interruptible PROVE Len(fs) = 1 /\ Last(fs).who \in Base
  <2>1. \A k \in 1 .. Len(fs) : fs[k].who # "plic"
    BY <1>1, <1>10 DEF StackOK
  <2>2. Outermost(fs[1], s) /\ fs[1].who # "plic"
    BY <1>1, <1>4, <2>1
  <2>3. fs[1].who \in Base /\ ~Guest(fs[1])
    BY <1>10, <2>2, PrintsTable DEF Outermost, Base, Interruptible, Guest, Prints, Messages, Handlers
  <2>4. Len(fs) = 1
    <3> SUFFICES ASSUME Len(fs) > 1 PROVE FALSE
      BY <1>1
    <3>1. Interrupts(fs[2], fs[1]) /\ fs[2].who # "plic"
      BY <1>1, <1>4, <2>1
    <3> QED
      BY <2>3, <3>1 DEF Interrupts, Base, Messages, Handlers
  <2> QED
    BY <1>2, <2>3, <2>4
<1> QED
  BY <1>1, <1>2, <1>7, <1>8, <1>9, <1>10

\* The last activation goes on; buf is what the buffer is then.
LEMMA GoesOn ==
    ASSUME NEW fs \in Seq(Activations), fs # <<>>, NEW s, NEW buf, NEW old,
           StackOK(fs, s), FramesOK(fs, old),
           \A k \in 1 .. Len(fs) - 1 : BufferOK(fs[k], buf),
           NEW f \in Activations, f.who = Last(fs).who, f.hits = Last(fs).hits,
           FrameOK(f), BufferOK(f, buf)
    PROVE  LET gs == Append(Front(fs), f)
           IN  /\ gs \in Seq(Activations) /\ gs # <<>> /\ Len(gs) = Len(fs) /\ Last(gs) = f
               /\ gs[Len(fs)] = f /\ DOMAIN gs = DOMAIN fs
               /\ \A k \in DOMAIN fs : k # Len(fs) => gs[k] = fs[k]
               /\ StackOK(gs, s) /\ FramesOK(gs, buf)
<1> DEFINE gs == Append(Front(fs), f)
<1>1. /\ Len(fs) \in Nat /\ Len(fs) > 0 /\ DOMAIN fs = 1 .. Len(fs) /\ Last(fs) = fs[Len(fs)]
  BY TopFacts
<1>2. /\ gs \in Seq(Activations) /\ Len(gs) = Len(fs) /\ gs[Len(fs)] = f
      /\ \A k \in DOMAIN fs : k # Len(fs) => gs[k] = fs[k]
  BY Replaced
<1> HIDE DEF gs
<1>3. DOMAIN gs = DOMAIN fs /\ gs # <<>> /\ Last(gs) = f
  BY <1>1, <1>2 DEF Last
<1>4. \A k \in DOMAIN fs : gs[k].who = fs[k].who /\ gs[k].hits = fs[k].hits
  BY <1>1, <1>2
<1>5. StackOK(gs, s)
  <2>1. Outermost(gs[1], s)
    BY <1>1, <1>4 DEF StackOK, Outermost
  <2>2. ASSUME NEW k \in DOMAIN fs, k > 1 PROVE Interrupts(gs[k], gs[k - 1])
    <3>1. k - 1 \in DOMAIN fs
      BY <1>1, <2>2
    <3> QED
      BY <1>4, <2>2, <3>1 DEF StackOK, Interrupts, Guest
  <2> QED
    BY <1>3, <1>4, <2>1, <2>2 DEF StackOK
<1>6. FramesOK(gs, buf)
  <2> SUFFICES ASSUME NEW k \in DOMAIN fs PROVE FrameOK(gs[k]) /\ BufferOK(gs[k], buf)
    BY <1>3 DEF FramesOK
  <2>1. CASE k = Len(fs)
    BY <1>2, <2>1
  <2>2. CASE k # Len(fs)
    BY <1>1, <1>2, <2>2 DEF FramesOK
  <2> QED
    BY <2>1, <2>2
<1> QED
  BY <1>2, <1>3, <1>5, <1>6 DEF gs

\* The last activation is over.
LEMMA Returns ==
    ASSUME NEW fs \in Seq(Activations), fs # <<>>, NEW s, NEW buf, StackOK(fs, s), FramesOK(fs, buf)
    PROVE  LET gs == Front(fs)
           IN  /\ gs \in Seq(Activations) /\ Len(gs) = Len(fs) - 1 /\ DOMAIN gs \subseteq DOMAIN fs
               /\ \A k \in DOMAIN gs : gs[k] = fs[k]
               /\ StackOK(gs, s) /\ FramesOK(gs, buf)
<1> DEFINE gs == Front(fs)
<1>1. Len(fs) \in Nat /\ Len(fs) > 0 /\ DOMAIN fs = 1 .. Len(fs)
  BY TopFacts
<1>2. /\ gs \in Seq(Activations) /\ Len(gs) = Len(fs) - 1
      /\ \A k \in 1 .. Len(fs) - 1 : gs[k] = fs[k]
  BY Popped
<1> HIDE DEF gs
<1>3. DOMAIN gs = 1 .. Len(fs) - 1 /\ DOMAIN gs \subseteq DOMAIN fs
  BY <1>1, <1>2
<1>4. StackOK(gs, s)
  <2>1. gs # <<>> => Outermost(gs[1], s)
    BY <1>1, <1>2 DEF StackOK
  <2>2. ASSUME NEW k \in DOMAIN gs, k > 1 PROVE Interrupts(gs[k], gs[k - 1])
    <3>1. k - 1 \in DOMAIN gs
      BY <1>1, <1>3, <2>2
    <3> QED
      BY <1>2, <1>3, <2>2, <3>1 DEF StackOK
  <2> QED
    BY <1>2, <1>3, <2>1, <2>2 DEF StackOK
<1>5. FramesOK(gs, buf)
  BY <1>2, <1>3 DEF FramesOK
<1> QED
  BY <1>2, <1>3, <1>4, <1>5 DEF gs

\* One more activation.
LEMMA Enters ==
    ASSUME NEW fs \in Seq(Activations), NEW s, NEW buf, StackOK(fs, s), FramesOK(fs, buf),
           NEW f \in Activations, FrameOK(f), BufferOK(f, buf), f.hits = {},
           IF fs = <<>> THEN Outermost(f, s) ELSE Interrupts(f, Last(fs)),
           f.who = "plic" => s \in Interruptible,
           f.who \in Handlers => \A k \in DOMAIN fs : f.who \in fs[k].hits
    PROVE  LET gs == Append(fs, f)
           IN  /\ gs \in Seq(Activations) /\ Len(gs) = Len(fs) + 1 /\ gs[Len(fs) + 1] = f
               /\ \A k \in DOMAIN fs : gs[k] = fs[k]
               /\ DOMAIN gs = DOMAIN fs \cup {Len(fs) + 1}
               /\ StackOK(gs, s) /\ FramesOK(gs, buf)
<1> DEFINE gs == Append(fs, f)
           n == Len(fs) + 1
<1>1. Len(fs) \in Nat /\ DOMAIN fs = 1 .. Len(fs)
  OBVIOUS
<1>2. /\ gs \in Seq(Activations) /\ Len(gs) = n /\ gs[n] = f
      /\ \A k \in DOMAIN fs : gs[k] = fs[k]
  BY <1>1, AppendProperties
<1> HIDE DEF gs
<1>3. DOMAIN gs = 1 .. n /\ DOMAIN gs = DOMAIN fs \cup {n} /\ n \notin DOMAIN fs
  BY <1>1, <1>2
<1>4. StackOK(gs, s)
  <2>1. Outermost(gs[1], s)
    BY <1>1, <1>2 DEF StackOK
  <2>2. ASSUME NEW k \in DOMAIN gs, k > 1 PROVE Interrupts(gs[k], gs[k - 1])
    <3>1. k - 1 \in DOMAIN fs /\ gs[k - 1] = fs[k - 1]
      BY <1>1, <1>2, <1>3, <2>2
    <3>2. CASE k = n
      <4>1. fs # <<>> /\ gs[k - 1] = Last(fs)
        BY <1>1, <3>1, <3>2 DEF Last
      <4> QED
        BY <1>2, <3>2, <4>1
    <3>3. CASE k \in DOMAIN fs
      BY <1>2, <2>2, <3>1, <3>3 DEF StackOK
    <3> QED
      BY <1>3, <3>2, <3>3
  <2>3. ASSUME NEW k \in DOMAIN gs, NEW l \in DOMAIN gs, k < l, gs[l].who \in Handlers
        PROVE  gs[l].who \in gs[k].hits
    <3>1. k \in DOMAIN fs
      BY <1>1, <1>3, <2>3
    <3>2. CASE l = n
      BY <1>2, <2>3, <3>1, <3>2
    <3>3. CASE l \in DOMAIN fs
      BY <1>2, <2>3, <3>1, <3>3 DEF StackOK
    <3> QED
      BY <1>3, <3>2, <3>3
  <2>4. \A k \in DOMAIN gs : gs[k].who = "plic" => s \in Interruptible
    BY <1>2, <1>3 DEF StackOK
  <2>5. s \notin Interruptible => \A k \in DOMAIN gs : gs[k].hits = {}
    BY <1>2, <1>3 DEF StackOK
  <2> QED
    BY <2>1, <2>2, <2>3, <2>4, <2>5 DEF StackOK
<1>5. FramesOK(gs, buf)
  BY <1>2, <1>3 DEF FramesOK
<1> QED
  BY <1>2, <1>3, <1>4, <1>5 DEF gs

\* A handler calls printk: all the others know of it.
LEMMA HandlerPrints ==
    ASSUME NEW fs \in Seq(Activations), NEW s, NEW buf \in Seq(Chars),
           StackOK(fs, s), FramesOK(fs, buf),
           fs # <<>>, NEW m \in Handlers, Interrupts([who |-> m], Last(fs)), s \in Interruptible
    PROVE  LET gs == Append(Hit(fs, m), Frame(m))
           IN  /\ gs \in Seq(Activations) /\ Len(gs) = Len(fs) + 1 /\ gs[Len(fs) + 1] = Frame(m)
               /\ \A k \in DOMAIN fs : gs[k].at = fs[k].at /\ gs[k].who = fs[k].who
               /\ DOMAIN gs = DOMAIN fs \cup {Len(fs) + 1}
               /\ StackOK(gs, s) /\ FramesOK(gs, buf)
<1> DEFINE hs == Hit(fs, m)
<1>1. /\ Len(fs) \in Nat /\ Len(fs) > 0 /\ DOMAIN fs = 1 .. Len(fs)
      /\ \A k \in DOMAIN fs : fs[k] \in Activations
  OBVIOUS
<1>2. /\ hs \in Seq(Activations) /\ Len(hs) = Len(fs) /\ DOMAIN hs = DOMAIN fs
      /\ \A k \in DOMAIN fs : hs[k] = [fs[k] EXCEPT !.hits = @ \cup {m}]
  <2>1. \A k \in DOMAIN fs : [fs[k] EXCEPT !.hits = @ \cup {m}] \in Activations
    BY <1>1 DEF Activations
  <2> QED
    BY <1>1, <2>1 DEF Hit
<1> HIDE DEF hs
<1>3. \A k \in DOMAIN fs : /\ hs[k].who = fs[k].who /\ hs[k].at = fs[k].at /\ hs[k].i = fs[k].i
                           /\ hs[k].todo = fs[k].todo /\ hs[k].hits = fs[k].hits \cup {m}
  BY <1>1, <1>2 DEF Activations
<1>4. StackOK(hs, s)
  <2>1. Outermost(hs[1], s) /\ hs # <<>>
    BY <1>1, <1>2, <1>3 DEF StackOK, Outermost
  <2>2. ASSUME NEW k \in DOMAIN fs, k > 1 PROVE Interrupts(hs[k], hs[k - 1])
    <3>1. k - 1 \in DOMAIN fs
      BY <1>1, <2>2
    <3> QED
      BY <1>3, <2>2, <3>1 DEF StackOK, Interrupts, Guest
  <2> QED
    BY <1>2, <1>3, <2>1, <2>2 DEF StackOK
<1>5. FramesOK(hs, buf)
  <2> SUFFICES ASSUME NEW k \in DOMAIN fs PROVE FrameOK(hs[k]) /\ BufferOK(hs[k], buf)
    BY <1>2 DEF FramesOK
  <2>1. FrameOK(fs[k]) /\ BufferOK(fs[k], buf)
    BY DEF FramesOK
  <2>2. \A c, j : Fits(fs[k], c, j) => Fits(hs[k], c, j)
    BY <1>3 DEF Fits
  <2>3. Stored(hs[k]) = Stored(fs[k])
    BY <1>3 DEF Stored
  <2> QED
    BY <1>3, <2>1, <2>2, <2>3 DEF FrameOK, BufferOK
<1>6. /\ Frame(m) \in Activations /\ FrameOK(Frame(m)) /\ BufferOK(Frame(m), buf)
      /\ Frame(m).hits = {} /\ Frame(m).who = m
  BY Lengths, SMTT(30) DEF Frame, Activations, FrameOK, BufferOK, Stored, Printing, Handling, Handlers, Messages
<1>7. Interrupts(Frame(m), Last(hs)) /\ hs # <<>>
  BY <1>1, <1>2, <1>3, <1>6 DEF Interrupts, Last, Guest
<1>8. \A k \in DOMAIN hs : Frame(m).who \in hs[k].hits
  BY <1>2, <1>3, <1>6
<1>9. LET gs == Append(hs, Frame(m))
      IN  /\ gs \in Seq(Activations) /\ Len(gs) = Len(hs) + 1 /\ gs[Len(hs) + 1] = Frame(m)
          /\ \A k \in DOMAIN hs : gs[k] = hs[k]
          /\ DOMAIN gs = DOMAIN hs \cup {Len(hs) + 1}
          /\ StackOK(gs, s) /\ FramesOK(gs, buf)
  BY <1>2, <1>4, <1>5, <1>6, <1>7, <1>8, Enters
<1> QED
  BY <1>2, <1>3, <1>9 DEF hs

-----------------------------------------------------------------------------
(* The line.                                                                *)

LEMMA PrefixPointwise ==
    ASSUME NEW S, NEW p \in Seq(S), NEW s \in Seq(S)
    PROVE  IsPrefix(p, s) <=> Len(p) <= Len(s) /\ \A k \in 1 .. Len(p) : p[k] = s[k]
<1>1. Len(p) \in Nat /\ Len(s) \in Nat
  OBVIOUS
<1>2. SubSeq(p, 1, Len(p)) = p
  BY SubSeqFull
<1>3. CASE Len(p) <= Len(s)
  <2>1. /\ SubSeq(s, 1, Len(p)) \in Seq(S) /\ Len(SubSeq(s, 1, Len(p))) = Len(p)
        /\ \A k \in 1 .. Len(p) : SubSeq(s, 1, Len(p))[k] = s[k]
    BY <1>1, <1>3
  <2> DEFINE cut == SubSeq(s, 1, Len(p))
  <2> HIDE DEF cut
  <2>2. IsPrefix(p, s) <=> p = cut
    BY <1>2, <1>3 DEF IsPrefix, cut
  <2>3. (\A k \in 1 .. Len(p) : p[k] = cut[k]) => p = cut
    BY <2>1, SeqEqual DEF cut
  <2> QED
    BY <1>3, <2>1, <2>2, <2>3 DEF cut
<1>4. CASE ~(Len(p) <= Len(s))
  BY <1>4 DEF IsPrefix
<1> QED
  BY <1>3, <1>4

\* A prefix stays one when something follows, and when only what follows it goes.
LEMMA PrefixGrows ==
    ASSUME NEW S, NEW p \in Seq(S), NEW s \in Seq(S), NEW t \in Seq(S), IsPrefix(p, s)
    PROVE  IsPrefix(p, s \o t)
<1>1. /\ Len(p) \in Nat /\ Len(s) \in Nat /\ Len(t) \in Nat
      /\ s \o t \in Seq(S) /\ Len(s \o t) = Len(s) + Len(t)
      /\ \A k \in 1 .. Len(s) : (s \o t)[k] = s[k]
  OBVIOUS
<1>2. Len(p) <= Len(s) /\ \A k \in 1 .. Len(p) : p[k] = s[k]
  BY PrefixPointwise
<1>3. Len(p) <= Len(s \o t) /\ \A k \in 1 .. Len(p) : p[k] = (s \o t)[k]
  BY <1>1, <1>2
<1> QED
  BY <1>1, <1>3, PrefixPointwise

LEMMA PrefixOfFront ==
    ASSUME NEW S, NEW p \in Seq(S), NEW s \in Seq(S), NEW t \in Seq(S), IsPrefix(p, s \o t),
           Len(p) <= Len(s)
    PROVE  IsPrefix(p, s)
<1>1. /\ Len(p) \in Nat /\ Len(s) \in Nat /\ Len(t) \in Nat
      /\ s \o t \in Seq(S)
      /\ \A k \in 1 .. Len(s) : (s \o t)[k] = s[k]
  OBVIOUS
<1>2. \A k \in 1 .. Len(p) : p[k] = (s \o t)[k]
  <2> DEFINE u == s \o t
  <2>1. u \in Seq(S) /\ IsPrefix(p, u)
    BY <1>1
  <2> HIDE DEF u
  <2>2. \A k \in 1 .. Len(p) : p[k] = u[k]
    BY <2>1, PrefixPointwise
  <2> QED
    BY <2>2 DEF u
<1>3. \A k \in 1 .. Len(p) : p[k] = s[k]
  BY <1>1, <1>2
<1> QED
  BY <1>3, PrefixPointwise

LEMMA OneLonger ==
    ASSUME NEW S, NEW t \in Seq(S), NEW j \in Nat, j < Len(t)
    PROVE  SubSeq(t, 1, j) \o <<t[j + 1]>> = SubSeq(t, 1, j + 1)
<1>1. Len(t) \in Nat /\ t[j + 1] \in S
  OBVIOUS
<1> DEFINE a == SubSeq(t, 1, j)
           b == SubSeq(t, 1, j + 1)
           e == <<t[j + 1]>>
<1>2. /\ a \in Seq(S) /\ Len(a) = j /\ \A k \in 1 .. j : a[k] = t[k]
      /\ b \in Seq(S) /\ Len(b) = j + 1 /\ \A k \in 1 .. j + 1 : b[k] = t[k]
  BY <1>1
<1>3. e \in Seq(S) /\ Len(e) = 1 /\ e[1] = t[j + 1]
  BY <1>1
<1> HIDE DEF a, b, e
<1>4. /\ a \o e \in Seq(S) /\ Len(a \o e) = Len(a) + Len(e)
      /\ \A k \in 1 .. Len(a) + Len(e) : (a \o e)[k] = IF k <= Len(a) THEN a[k] ELSE e[k - Len(a)]
  BY <1>2, <1>3, Zenon, ConcatProperties
<1>5. \A k \in 1 .. j + 1 : (a \o e)[k] = b[k]
  <2> SUFFICES ASSUME NEW k \in 1 .. j + 1 PROVE (a \o e)[k] = b[k]
    OBVIOUS
  <2>1. (a \o e)[k] = IF k <= j THEN a[k] ELSE e[k - j]
    BY <1>2, <1>3, <1>4
  <2>2. CASE k <= j
    BY <1>2, <2>1, <2>2
  <2>3. CASE k = j + 1
    BY <1>2, <1>3, <2>1, <2>3
  <2>4. k <= j \/ k = j + 1
    OBVIOUS
  <2> QED
    BY <2>2, <2>3, <2>4
<1>6. a \o e = b
  <2> DEFINE c == a \o e
  <2>1. c \in Seq(S) /\ Len(c) = Len(b) /\ \A k \in 1 .. Len(c) : c[k] = b[k]
    BY <1>2, <1>3, <1>4, <1>5
  <2> HIDE DEF c
  <2>2. c = b
    BY <1>2, <2>1, Zenon, SeqEqual
  <2> QED
    BY <2>2 DEF c
<1> QED
  BY <1>6 DEF a, b, e

LEMMA TextFacts ==
    ASSUME NEW m \in Messages
    PROVE  /\ Text(m) \in Seq(Chars) /\ Len(Text(m)) = MsgLen[m]
           /\ \A k \in 1 .. MsgLen[m] : Text(m)[k] = Char(m, k)
           /\ \A k \in Nat : Char(m, k) \in Chars
<1>1. \A k \in Nat : Char(m, k) \in Chars
  BY DEF Char, Chars
<1>2. MsgLen[m] \in Nat
  BY Lengths
<1>3. \A k \in 1 .. MsgLen[m] : Char(m, k) \in Chars
  BY <1>1, <1>2
<1> QED
  BY <1>1, <1>2, <1>3 DEF Text

LEMMA Puts ==
    ASSUME NEW m \in Messages, NEW k \in Nat
    PROVE  PutChar(Char(m, k)) = IF k = MsgLen[m] THEN <<CR, Char(m, k)>> ELSE <<Char(m, k)>>
BY DEF PutChar, IsNewline, Char

LEMMA WireType ==
    ASSUME NEW m \in Messages
    PROVE  Wire(m) \in Seq(Chars) /\ <<CR, Char(m, MsgLen[m])>> \in Seq(Chars)
<1>1. MsgLen[m] \in Nat /\ MsgLen[m] > 0 /\ CR \in Chars /\ Char(m, MsgLen[m]) \in Chars
  BY Lengths, TextFacts DEF CR, Chars
<1>2. SubSeq(Text(m), 1, MsgLen[m] - 1) \in Seq(Chars)
  BY <1>1, TextFacts
<1>3. <<CR, Char(m, MsgLen[m])>> \in Seq(Chars)
  BY <1>1
<1> QED
  BY <1>2, <1>3, ConcatProperties DEF Wire

\* One more character of the log, with the \r before a newline.
LEMMA SentNext ==
    ASSUME NEW j \in Nat, j < MsgLen["E1"] + MsgLen["E2"]
    PROVE  /\ Sent(j) \in Seq(Chars) /\ Sent(j + 1) \in Seq(Chars)
           /\ (Text("E1") \o Text("E2"))[j + 1] \in Chars
           /\ PutChar((Text("E1") \o Text("E2"))[j + 1]) \in Seq(Chars)
           /\ Sent(j) \o PutChar((Text("E1") \o Text("E2"))[j + 1]) = Sent(j + 1)
<1> DEFINE L1 == MsgLen["E1"]
           L2 == MsgLen["E2"]
           T1 == Text("E1")
           T2 == Text("E2")
           w == Wire("E1")
<1>1. /\ L1 \in Nat /\ L1 > 0 /\ L2 \in Nat /\ L2 > 0 /\ "E1" \in Messages /\ "E2" \in Messages
  BY Lengths DEF Messages
<1>2. /\ T1 \in Seq(Chars) /\ Len(T1) = L1 /\ \A k \in 1 .. L1 : T1[k] = Char("E1", k)
      /\ T2 \in Seq(Chars) /\ Len(T2) = L2 /\ \A k \in 1 .. L2 : T2[k] = Char("E2", k)
      /\ \A k \in Nat : Char("E1", k) \in Chars /\ Char("E2", k) \in Chars
  BY <1>1, TextFacts
<1>3. /\ w \in Seq(Chars) /\ Wire("E2") \in Seq(Chars)
      /\ w = SubSeq(T1, 1, L1 - 1) \o <<CR, Char("E1", L1)>>
      /\ Wire("E2") = SubSeq(T2, 1, L2 - 1) \o <<CR, Char("E2", L2)>>
      /\ <<CR, Char("E1", L1)>> \in Seq(Chars) /\ <<CR, Char("E2", L2)>> \in Seq(Chars)
  BY <1>1, WireType DEF Wire
<1> DEFINE c == (T1 \o T2)[j + 1]
           z == Wire("E2")
<1>4. c = IF j < L1 THEN Char("E1", j + 1) ELSE Char("E2", (j + 1) - L1)
  <2> HIDE DEF L1, L2, T1, T2
  <2>1. (T1 \o T2)[j + 1] = IF j + 1 <= L1 THEN T1[j + 1] ELSE T2[(j + 1) - L1]
    <3>1. j + 1 \in 1 .. Len(T1) + Len(T2)
      BY <1>1, <1>2 DEF L1, L2
    <3> QED
      BY <1>1, <1>2, <3>1, SMTT(30)
  <2>2. CASE j < L1
    BY <1>1, <1>2, <2>1, <2>2
  <2>3. CASE ~(j < L1)
    BY <1>1, <1>2, <2>1, <2>3 DEF L1, L2
  <2> QED
    BY <2>2, <2>3
<1>5. \A k \in Nat : /\ PutChar(Char("E1", k)) = IF k = L1 THEN <<CR, Char("E1", k)>> ELSE <<Char("E1", k)>>
                     /\ PutChar(Char("E2", k)) = IF k = L2 THEN <<CR, Char("E2", k)>> ELSE <<Char("E2", k)>>
  BY <1>1, Puts
<1>0. \A k : Sent(k) = IF k < L1 THEN SubSeq(T1, 1, k)
                      ELSE IF k < L1 + L2 THEN w \o SubSeq(T2, 1, k - L1) ELSE w \o z
  BY Zenon DEF Sent
<1>11. \A a, b, d \in Seq(Chars) : (a \o b) \o d = a \o (b \o d)
  BY ConcatAssociative
<1>12. \A a, b \in Seq(Chars) : a \o b \in Seq(Chars)
  OBVIOUS
<1> HIDE DEF c
<1>6. CASE j < L1 - 1
  <2>1. Sent(j) = SubSeq(T1, 1, j) /\ Sent(j + 1) = SubSeq(T1, 1, j + 1)
    BY <1>1, <1>6 DEF Sent
  <2>2. c = T1[j + 1] /\ c = Char("E1", j + 1) /\ PutChar(c) = <<c>>
    BY <1>1, <1>2, <1>4, <1>5, <1>6
  <2>3. SubSeq(T1, 1, j) \o <<T1[j + 1]>> = SubSeq(T1, 1, j + 1)
    BY <1>1, <1>2, <1>6, OneLonger
  <2>4. SubSeq(T1, 1, j) \in Seq(Chars) /\ SubSeq(T1, 1, j + 1) \in Seq(Chars)
    BY <1>1, <1>2, <1>6
  <2>5. c \in Chars /\ <<c>> \in Seq(Chars)
    BY <1>2, <2>2
  <2> QED
    BY <2>1, <2>2, <2>3, <2>4, <2>5 DEF c
<1>7. CASE j = L1 - 1
  <2>1. Sent(j) = SubSeq(T1, 1, L1 - 1) /\ Sent(j + 1) = w \o SubSeq(T2, 1, 0)
    BY <1>1, <1>7 DEF Sent
  <2>2. SubSeq(T2, 1, 0) = <<>>
    BY <1>2
  <2>3. w \o <<>> = w
    BY <1>3
  <2>4. c = Char("E1", L1) /\ PutChar(c) = <<CR, Char("E1", L1)>>
    BY <1>1, <1>2, <1>4, <1>5, <1>7
  <2>5. SubSeq(T1, 1, L1 - 1) \in Seq(Chars)
    BY <1>1, <1>2
  <2>6. c \in Chars
    BY <1>1, <1>2, <2>4
  <2> HIDE DEF L1, L2, T1, T2, w, c
  <2>7. Sent(j + 1) = w
    BY <2>1, <2>2, <2>3
  <2>8. Sent(j) \o PutChar(c) = w
    BY <2>1, <2>4, <1>3
  <2> QED
    BY <1>3, <2>1, <2>4, <2>5, <2>6, <2>7, <2>8 DEF c, T1, T2, w
<1>8. CASE j > L1 - 1 /\ j < L1 + L2 - 1
  <2> DEFINE i == j - L1
             a == SubSeq(T2, 1, i)
             e == <<c>>
  <2>1. i \in Nat /\ i + 1 < L2 /\ (j + 1) - L1 = i + 1
    BY <1>1, <1>8
  <2> HIDE DEF i
  <2>2. ~(j < L1) /\ j < L1 + L2 /\ ~(j + 1 < L1) /\ j + 1 < L1 + L2
    BY <1>1, <1>8
  <2>3. Sent(j) = w \o a /\ Sent(j + 1) = w \o SubSeq(T2, 1, (j + 1) - L1)
    <3>1. j - L1 = i
      BY DEF i
    <3>2. Sent(j) = w \o SubSeq(T2, 1, j - L1)
      BY <1>0, <2>2, Zenon
    <3>3. Sent(j + 1) = w \o SubSeq(T2, 1, (j + 1) - L1)
      BY <1>0, <2>2, Zenon
    <3> QED
      BY <3>1, <3>2, <3>3, Zenon
  <2>4. c = Char("E2", i + 1)
    BY <1>4, <2>1, <2>2
  <2>5. PutChar(c) = e
    BY <1>5, <2>1, <2>4
  <2>6. c = T2[i + 1] /\ c \in Chars
    BY <1>1, <1>2, <2>1, <2>4
  <2>7. a \o <<T2[i + 1]>> = SubSeq(T2, 1, i + 1)
    BY <1>1, <1>2, <2>1, OneLonger
  <2>8. a \in Seq(Chars) /\ SubSeq(T2, 1, i + 1) \in Seq(Chars)
    BY <1>1, <1>2, <2>1
  <2>9. e \in Seq(Chars)
    BY <2>6
  <2>10. a \o e = SubSeq(T2, 1, (j + 1) - L1)
    BY <2>1, <2>6, <2>7, Zenon
  <2> HIDE DEF L1, L2, T1, T2, w, a, e, z
  <2>11. (w \o a) \o e = w \o (a \o e)
    <3>1. w \in Seq(Chars) /\ a \in Seq(Chars) /\ e \in Seq(Chars)
      BY <1>3, <2>8, <2>9
    <3> QED
      BY <1>11, <3>1, Zenon
  <2>12. Sent(j) \o PutChar(c) = Sent(j + 1)
    BY <2>3, <2>5, <2>10, <2>11
  <2>13. w \o a \in Seq(Chars) /\ w \o SubSeq(T2, 1, i + 1) \in Seq(Chars)
    BY <1>3, <2>8, <1>12, Zenon
  <2> QED
    BY <2>1, <2>3, <2>5, <2>6, <2>9, <2>12, <2>13 DEF c, T1, T2
<1>9. CASE j = L1 + L2 - 1
  <2> DEFINE a == SubSeq(T2, 1, L2 - 1)
             e == <<CR, Char("E2", L2)>>
  <2>1. ~(j < L1) /\ j < L1 + L2 /\ ~(j + 1 < L1) /\ ~(j + 1 < L1 + L2) /\ j - L1 = L2 - 1
          /\ (j + 1) - L1 = L2
    BY <1>1, <1>9
  <2>2. Sent(j) = w \o a /\ Sent(j + 1) = w \o z
    BY <1>0, <2>1, Zenon
  <2>3. c = Char("E2", L2)
    BY <1>4, <2>1
  <2>4. PutChar(c) = e
    BY <1>1, <1>5, <2>3
  <2>5. a \in Seq(Chars)
    BY <1>1, <1>2
  <2>6. c \in Chars
    BY <1>1, <1>2, <2>3
  <2>7. z = a \o e
    BY <1>3
  <2>8. w \in Seq(Chars) /\ a \in Seq(Chars) /\ e \in Seq(Chars) /\ z \in Seq(Chars)
    BY <1>3, <2>5
  <2> HIDE DEF L1, L2, T1, T2, w, a, e, z
  <2>9. (w \o a) \o e = w \o z
    BY <2>7, <2>8, <1>11, ZenonT(30)
  <2>10. Sent(j) \o PutChar(c) = Sent(j + 1)
    BY <2>2, <2>4, <2>9
  <2>11. w \o a \in Seq(Chars) /\ w \o z \in Seq(Chars)
    BY <2>8, <1>12, Zenon
  <2> QED
    BY <2>2, <2>4, <2>6, <2>8, <2>10, <2>11 DEF c, T1, T2
<1>10. j < L1 - 1 \/ j = L1 - 1 \/ (j > L1 - 1 /\ j < L1 + L2 - 1) \/ j = L1 + L2 - 1
  BY <1>1
<1> QED
  BY <1>6, <1>7, <1>8, <1>9, <1>10

-----------------------------------------------------------------------------
(* The steps keep Core.                                                     *)

LEMMA CoreInit == Init => Core
<1> SUFFICES ASSUME Init PROVE Core
  OBVIOUS
<1>1. Types
  <2>1. <<"sbi", 1>> \in Chars
    BY DEF Chars
  <2>2. <<<<"sbi", 1>>>> \in Seq(Chars) /\ <<>> \in Seq(Chars)
    BY <2>1
  <2>3. tx = <<>> \/ tx = <<<<"sbi", 1>>>>
    BY DEF Init
  <2>4. tx \in Seq(Chars)
    BY <2>2, <2>3
  <2> QED
    BY <2>4, PrintsTable DEF Init, Types, Steps
<1>2. StackOK(frames, step) /\ FramesOK(frames, print_buf)
  BY DEF Init, StackOK, FramesOK
<1>3. RoomOK
  BY DEF Init, RoomOK, Interruptible
<1>4. LogOK
  BY DEF Init, LogOK
<1> QED
  BY <1>1, <1>2, <1>3, <1>4 DEF Core

LEMMA InterruptsAre == InterruptsOn <=> step \in Interruptible
BY DEF InterruptsOn, Interruptible

\* A guest's frame is there only while the guest runs.
LEMMA GuestRuns ==
    ASSUME NEW fs \in Seq(Activations), fs # <<>>, NEW s, StackOK(fs, s)
    PROVE  /\ Guest(Last(fs)) => s \in Interruptible
           /\ Last(fs).who = "plic" => s \in Interruptible
           /\ s \notin Interruptible => Outermost(Last(fs), s)
<1>1. /\ Len(fs) \in Nat /\ Len(fs) > 0 /\ DOMAIN fs = 1 .. Len(fs) /\ Last(fs) = fs[Len(fs)]
      /\ s \notin Interruptible => Len(fs) = 1
      /\ Len(fs) = 1 => Outermost(Last(fs), s)
  BY TopFacts
<1>2. s \notin Interruptible => Outermost(Last(fs), s)
  BY <1>1
<1>3. Last(fs).who = "plic" => s \in Interruptible
  BY <1>1 DEF StackOK
<1>4. Guest(Last(fs)) => s \in Interruptible
  BY <1>2, PrintsTable DEF Outermost, Guest, Interruptible
<1> QED
  BY <1>2, <1>3, <1>4

\* printk called with nothing below it.
LEMMA CoreCallPrintk == Core /\ CallPrintk => Core'
<1> SUFFICES ASSUME Core, CallPrintk PROVE Core'
  OBVIOUS
<1> DEFINE m == Prints[step][1]
           f == Frame(m)
<1>1. frames = <<>> /\ step \in DOMAIN Prints /\ m \in Messages /\ m \in Base
  BY PrintsTable DEF CallPrintk, Base
<1>2. frames' = Append(frames, f)
  <2>1. Hit(frames, m) = <<>>
    BY <1>1 DEF Hit
  <2> QED
    BY <1>1, <2>1 DEF CallPrintk, Printk
<1>3. /\ f \in Activations /\ FrameOK(f) /\ BufferOK(f, print_buf) /\ f.hits = {}
      /\ f.who = m /\ f.at = "format" /\ f.i = 0 /\ f.todo = <<>>
  BY <1>1, Lengths DEF Frame, Activations, FrameOK, BufferOK, Stored, Printing, Handling, Base, Handlers, Messages
<1>4. Outermost(f, step)
  BY <1>1, <1>3 DEF Outermost
<1>5. /\ frames \in Seq(Activations) /\ StackOK(frames, step) /\ FramesOK(frames, print_buf)
      /\ \A k \in DOMAIN frames : f.who \in frames[k].hits
  BY <1>1 DEF Core, Types
<1>6. m # "plic" /\ m \notin Handlers
  BY <1>1 DEF Base, Messages, Handlers
<1> HIDE DEF m, f
<1>7. /\ frames' \in Seq(Activations) /\ frames'[Len(frames) + 1] = f
      /\ DOMAIN frames' = DOMAIN frames \cup {Len(frames) + 1}
      /\ StackOK(frames', step) /\ FramesOK(frames', print_buf)
  <2>1. IF frames = <<>> THEN Outermost(f, step) ELSE Interrupts(f, Last(frames))
    BY <1>1, <1>4
  <2>2. f.who # "plic" /\ f.who \notin Handlers
    BY <1>3, <1>6
  <2> QED
    BY <1>2, <1>3, <1>5, <2>1, <2>2, Enters
<1>8. UNCHANGED <<step, print_buf, log_buf, g_record, g_record_len, tx, line, lost>>
  BY DEF CallPrintk, base, log, out
<1>9. Types' /\ StackOK(frames', step') /\ FramesOK(frames', print_buf')
  BY <1>2, <1>7, <1>8 DEF Core, Types
<1>10. RoomOK'
  BY <1>2, <1>3, <1>7, <1>8 DEF Core, RoomOK
<1>11. LogOK'
  BY <1>2, <1>3, <1>7, <1>8 DEF Core, LogOK
<1> QED
  BY <1>9, <1>10, <1>11 DEF Core

LEMMA CoreUartInit == Core /\ UartInit => Core'
<1> SUFFICES ASSUME Core, UartInit PROVE Core'
  OBVIOUS
<1>1. /\ frames = <<>> /\ frames' = <<>> /\ step \in {"init1", "init2"}
      /\ step' = IF step = "init1" THEN "early2" ELSE "last"
      /\ UNCHANGED <<print_buf, log_buf, g_record, g_record_len, line>>
  BY DEF UartInit, log
<1>2. PICK kept \in {k \in 0 .. 1 : k <= Len(tx)} :
          tx' = SubSeq(tx, 1, kept) /\ lost' = lost + Len(tx) - kept
  BY DEF UartInit
<1>3. tx \in Seq(Chars) /\ lost \in Nat /\ Len(tx) <= 1 /\ lost <= IF step = "init1" THEN 0 ELSE 1
  BY <1>1 DEF Core, Types, RoomOK, Interruptible
<1>4. tx' \in Seq(Chars) /\ Len(tx') <= 1 /\ lost' \in Nat /\ lost' <= IF step = "init1" THEN 1 ELSE 2
  BY <1>2, <1>3
<1>5. Types' /\ StackOK(frames', step') /\ FramesOK(frames', print_buf')
  BY <1>1, <1>4, PrintsTable DEF Core, Types, StackOK, FramesOK, Steps
<1>6. RoomOK'
  BY <1>1, <1>4 DEF RoomOK, Interruptible
<1>7. LogOK'
  BY <1>1 DEF Core, LogOK
<1> QED
  BY <1>5, <1>6, <1>7 DEF Core

\* The guest starts, or the init task is left for good.
LEMMA CoreSwitch == Core /\ (EnterGuest \/ Preempt) => Core'
<1> SUFFICES ASSUME Core, EnterGuest \/ Preempt PROVE Core'
  OBVIOUS
<1>1. /\ frames' = <<>> /\ step \in {"enter", "last", "idle"} /\ step' \in {"guest1", "vs"}
      /\ UNCHANGED <<print_buf, log_buf, g_record, g_record_len, tx, line, lost>>
  BY DEF EnterGuest, Preempt, log, out
<1>2. Types' /\ StackOK(frames', step') /\ FramesOK(frames', print_buf')
  BY <1>1, PrintsTable DEF Core, Types, StackOK, FramesOK, Steps
<1>3. RoomOK'
  BY <1>1 DEF Core, RoomOK, Interruptible
<1>4. LogOK'
  BY <1>1 DEF LogOK
<1> QED
  BY <1>2, <1>3, <1>4 DEF Core

LEMMA CoreStage2Fault == Core /\ Stage2Fault => Core'
<1> SUFFICES ASSUME Core, Stage2Fault PROVE Core'
  OBVIOUS
<1>1. /\ frames # <<>> /\ Guest(Last(frames)) /\ frames' = Append(Hit(frames, "fault"), Frame("fault"))
      /\ UNCHANGED <<step, print_buf, log_buf, g_record, g_record_len, tx, line, lost>>
  BY DEF Stage2Fault, Top, Printk, base, log, out
<1>2. /\ frames \in Seq(Activations) /\ print_buf \in Seq(Chars) /\ StackOK(frames, step)
      /\ FramesOK(frames, print_buf)
  BY DEF Core, Types
<1>3. step \in Interruptible
  BY <1>1, <1>2, GuestRuns
<1>4. Interrupts([who |-> "fault"], Last(frames)) /\ "fault" \in Handlers
  BY <1>1 DEF Interrupts, Handlers
<1>5. /\ frames' \in Seq(Activations) /\ frames'[Len(frames) + 1] = Frame("fault")
      /\ \A k \in DOMAIN frames : frames'[k].at = frames[k].at /\ frames'[k].who = frames[k].who
      /\ DOMAIN frames' = DOMAIN frames \cup {Len(frames) + 1}
      /\ StackOK(frames', step) /\ FramesOK(frames', print_buf)
  BY <1>1, <1>2, <1>3, <1>4, HandlerPrints
<1>6. Frame("fault").at = "format"
  BY DEF Frame
<1>7. Types' /\ StackOK(frames', step') /\ FramesOK(frames', print_buf')
  BY <1>1, <1>5 DEF Core, Types
<1>8. RoomOK'
  BY <1>1, <1>5, <1>6 DEF Core, RoomOK
<1>9. LogOK'
  BY <1>1, <1>3 DEF LogOK, Interruptible
<1> QED
  BY <1>7, <1>8, <1>9 DEF Core

LEMMA CoreTakeIrq == Core /\ TakeIrq => Core'
<1> SUFFICES ASSUME Core, TakeIrq PROVE Core'
  OBVIOUS
<1> DEFINE f == [Frame("plic") EXCEPT !.at = "claim"]
<1>1. /\ step \in Interruptible /\ (frames # <<>> => Last(frames).who \notin Handlers \cup {"plic"})
      /\ frames' = Append(frames, f)
      /\ UNCHANGED <<step, print_buf, log_buf, g_record, g_record_len, tx, line, lost>>
  BY InterruptsAre DEF TakeIrq, Running, Top, base, log, out
<1>2. /\ frames \in Seq(Activations) /\ StackOK(frames, step) /\ FramesOK(frames, print_buf)
  BY DEF Core, Types
<1>3. /\ f \in Activations /\ f.hits = {} /\ f.who = "plic" /\ f.at = "claim" /\ f.todo = <<>>
  <2>1. f = [who |-> "plic", at |-> "claim", i |-> 0, todo |-> <<>>, hits |-> {}]
    BY SMTT(30) DEF Frame
  <2>2. <<>> \in Seq(Chars) /\ {} \in SUBSET Handlers
    OBVIOUS
  <2> HIDE DEF f
  <2>3. f \in Activations
    BY <2>1, <2>2, Zenon DEF Activations, Handling
  <2> QED
    BY <2>1, <2>3
<1> HIDE DEF f
<1>4. FrameOK(f) /\ BufferOK(f, print_buf)
  BY <1>3 DEF FrameOK, BufferOK, Handling, Handlers, Messages
<1>5. IF frames = <<>> THEN Outermost(f, step) ELSE Interrupts(f, Last(frames))
  <2>1. CASE frames = <<>>
    BY <1>3, <2>1 DEF Outermost
  <2>2. CASE frames # <<>>
    <3>1. Last(frames) \in Activations
      BY <1>2, <2>2, TopFacts
    <3>2. Last(frames).who \in Base
      BY <1>1, <2>2, <3>1 DEF Activations
    <3> QED
      BY <1>3, <2>2, <3>2 DEF Interrupts
  <2> QED
    BY <2>1, <2>2
<1>6. f.who \notin Handlers
  BY <1>3 DEF Handlers
<1>7. /\ frames' \in Seq(Activations) /\ frames'[Len(frames) + 1] = f
      /\ \A k \in DOMAIN frames : frames'[k] = frames[k]
      /\ DOMAIN frames' = DOMAIN frames \cup {Len(frames) + 1}
      /\ StackOK(frames', step) /\ FramesOK(frames', print_buf)
  BY <1>1, <1>2, <1>3, <1>4, <1>5, <1>6, Enters
<1>8. Types' /\ StackOK(frames', step') /\ FramesOK(frames', print_buf')
  BY <1>1, <1>7 DEF Core, Types
<1>9. RoomOK'
  BY <1>1, <1>3, <1>7 DEF Core, RoomOK
<1>10. LogOK'
  BY <1>1 DEF LogOK, Interruptible
<1> QED
  BY <1>8, <1>9, <1>10 DEF Core

\* What is known of the activation that runs.
LEMMA CoreTop ==
    ASSUME Core, frames # <<>>
    PROVE  /\ frames \in Seq(Activations) /\ Len(frames) \in Nat /\ Len(frames) > 0
           /\ DOMAIN frames = 1 .. Len(frames) /\ Top = frames[Len(frames)] /\ Top = Last(frames)
           /\ Top \in Activations /\ FrameOK(Top) /\ BufferOK(Top, print_buf)
           /\ StackOK(frames, step) /\ FramesOK(frames, print_buf) /\ print_buf \in Seq(Chars)
           /\ \A k \in 1 .. Len(frames) - 1 : frames[k].who \notin Handlers /\ BufferOK(frames[k], print_buf)
           /\ step \notin Interruptible => Len(frames) = 1 /\ Top.who \in Base /\ Outermost(Top, step)
           /\ Top.who \in Base => Len(frames) = 1
<1>1. frames \in Seq(Activations) /\ StackOK(frames, step) /\ FramesOK(frames, print_buf) /\ print_buf \in Seq(Chars)
  BY DEF Core, Types
<1>2. /\ Len(frames) \in Nat /\ Len(frames) > 0 /\ DOMAIN frames = 1 .. Len(frames)
      /\ Top = frames[Len(frames)] /\ Top = Last(frames) /\ Top \in Activations
      /\ step \notin Interruptible => Len(frames) = 1 /\ Top.who \in Base
      /\ Top.who \in Base => Len(frames) = 1
      /\ \A k \in 1 .. Len(frames) - 1 : frames[k].who \notin Handlers
  BY <1>1, TopFacts DEF Top
<1>3. step \notin Interruptible => Outermost(Top, step)
  BY <1>1, GuestRuns DEF Top
<1>4. FrameOK(Top) /\ BufferOK(Top, print_buf)
  <2>1. Len(frames) \in DOMAIN frames
    BY <1>2
  <2> QED
    BY <1>1, <1>2, <2>1 DEF FramesOK
<1>5. \A k \in 1 .. Len(frames) - 1 : BufferOK(frames[k], print_buf)
  BY <1>1, <1>2 DEF FramesOK
<1> QED
  BY <1>1, <1>2, <1>3, <1>4, <1>5

\* The buffer after a character is stored.
LEMMA Stores ==
    ASSUME NEW buf \in Seq(Chars), NEW i \in Nat, i <= Len(buf), NEW c \in Chars
    PROVE  LET new == [k \in 1 .. IF i + 1 > Len(buf) THEN i + 1 ELSE Len(buf) |->
                         IF k = i + 1 THEN c ELSE buf[k]]
           IN  /\ new \in Seq(Chars) /\ Len(new) >= Len(buf) /\ Len(new) >= i + 1 /\ Len(new) \in Nat
               /\ new[i + 1] = c
               /\ \A k \in 1 .. Len(buf) : k # i + 1 => new[k] = buf[k]
<1> DEFINE n == IF i + 1 > Len(buf) THEN i + 1 ELSE Len(buf)
           new == [k \in 1 .. n |-> IF k = i + 1 THEN c ELSE buf[k]]
<1>1. Len(buf) \in Nat /\ n \in Nat /\ n >= Len(buf) /\ n >= i + 1 /\ (n = i + 1 \/ n = Len(buf))
  OBVIOUS
<1> HIDE DEF n
<1>2. \A k \in 1 .. n : (IF k = i + 1 THEN c ELSE buf[k]) \in Chars
  BY <1>1
<1>3. new \in Seq(Chars) /\ Len(new) = n
  BY <1>1, <1>2
<1>4. new[i + 1] = c /\ \A k \in 1 .. Len(buf) : k # i + 1 => new[k] = buf[k]
  BY <1>1
<1> QED
  BY <1>1, <1>3, <1>4 DEF n

\* myprintf stores a character of its message, or of a handler's over another's.
LEMMA CoreFormat == Core /\ Format => Core'
<1> SUFFICES ASSUME Core, Format PROVE Core'
  OBVIOUS
<1> DEFINE t == Top
           n == Len(frames)
           w == MsgLen[t.who]
           c == IF t.i < w THEN Char(t.who, t.i + 1) ELSE TheNul
           f == IF t.i < w THEN [t EXCEPT !.i = @ + 1] ELSE [t EXCEPT !.i = 0, !.at = "output"]
           buf == print_buf'
           new == [k \in 1 .. IF t.i + 1 > Len(print_buf) THEN t.i + 1 ELSE Len(print_buf) |->
                     IF k = t.i + 1 THEN c ELSE print_buf[k]]
<1>1. /\ frames # <<>> /\ t.who \in Messages /\ t.at = "format"
      /\ buf = new
      /\ frames' = Append(Front(frames), f)
      /\ UNCHANGED <<step, log_buf, g_record, g_record_len, tx, line, lost>>
  BY DEF Format, Running, Store, SetTop, base, log, out
<1>2. /\ frames \in Seq(Activations) /\ n \in Nat /\ n > 0
      /\ DOMAIN frames = 1 .. n /\ t = frames[n] /\ t = Last(frames)
      /\ t \in Activations /\ FrameOK(t) /\ BufferOK(t, print_buf)
      /\ StackOK(frames, step) /\ FramesOK(frames, print_buf) /\ print_buf \in Seq(Chars)
      /\ \A k \in 1 .. n - 1 : frames[k].who \notin Handlers /\ BufferOK(frames[k], print_buf)
      /\ t.who \in Base => n = 1
  BY <1>1, CoreTop
<1>3. /\ t.i \in Nat /\ w \in Nat /\ w > 0 /\ t.i <= w /\ t.i <= Len(print_buf) /\ Stored(t) = t.i
      /\ t.todo = <<>> /\ t.hits \in SUBSET Handlers
  BY <1>1, <1>2, Lengths DEF FrameOK, BufferOK, Stored, Activations
<1>4. c \in Chars
  <2>1. t.i + 1 \in Nat
    BY <1>3
  <2>2. Char(t.who, t.i + 1) \in Chars
    BY <1>1, <2>1, TextFacts
  <2>3. TheNul \in Chars
    BY DEF TheNul, Chars
  <2> QED
    BY <2>2, <2>3
<1> HIDE DEF t, n, w
<1>5. /\ f \in Activations /\ f.who = t.who /\ f.hits = t.hits /\ f.todo = t.todo
      /\ f.at = IF t.i < w THEN "format" ELSE "output"
      /\ f.i = IF t.i < w THEN t.i + 1 ELSE 0
  <2>1. CASE t.i < w
    <3>1. f = [t EXCEPT !.i = @ + 1] /\ t.i + 1 \in Nat
      BY <1>3, <2>1
    <3> QED
      BY <1>1, <1>2, <2>1, <3>1 DEF Activations
  <2>2. CASE ~(t.i < w)
    <3>1. f = [t EXCEPT !.i = 0, !.at = "output"]
      BY <2>2
    <3> QED
      BY <1>1, <1>2, <2>2, <3>1 DEF Activations, Printing
  <2> QED
    BY <2>1, <2>2
<1> HIDE DEF c, f
<1>6. /\ buf \in Seq(Chars) /\ Len(buf) >= Len(print_buf) /\ Len(buf) >= t.i + 1 /\ Len(buf) \in Nat
      /\ buf[t.i + 1] = c
      /\ \A k \in 1 .. Len(print_buf) : k # t.i + 1 => buf[k] = print_buf[k]
  <2>1. /\ new \in Seq(Chars) /\ Len(new) >= Len(print_buf) /\ Len(new) >= t.i + 1 /\ Len(new) \in Nat
        /\ new[t.i + 1] = c
        /\ \A k \in 1 .. Len(print_buf) : k # t.i + 1 => new[k] = print_buf[k]
    BY <1>2, <1>3, <1>4, Stores, ZenonT(30)
  <2> HIDE DEF new
  <2> QED
    BY <1>1, <2>1
<1> HIDE DEF buf, new
<1>7. FrameOK(f)
  BY <1>1, <1>2, <1>3, <1>5 DEF FrameOK, w, Handling
<1>8. \A x, j : Fits(t, x, j) <=> Fits(f, x, j)
  BY <1>5 DEF Fits
<1>9. BufferOK(f, buf)
  <2>1. \A j \in 1 .. t.i : Fits(f, buf[j], j)
    <3> SUFFICES ASSUME NEW j \in 1 .. t.i PROVE Fits(f, buf[j], j)
      OBVIOUS
    <3>1. Fits(t, print_buf[j], j)
      BY <1>1, <1>2, <1>3 DEF BufferOK
    <3>2. buf[j] = print_buf[j]
      BY <1>2, <1>3, <1>6
    <3> QED
      BY <1>8, <3>1, <3>2
  <2>2. t.i < w => Fits(f, buf[t.i + 1], t.i + 1)
    BY <1>5, <1>6 DEF Fits, c
  <2>3. Stored(f) = IF t.i < w THEN t.i + 1 ELSE t.i
    BY <1>3, <1>5 DEF Stored, w
  <2>4. Stored(f) <= Len(buf)
    BY <1>3, <1>6, <2>3
  <2>5. \A j \in 1 .. Stored(f) : Fits(f, buf[j], j)
    <3> SUFFICES ASSUME NEW j \in 1 .. Stored(f) PROVE Fits(f, buf[j], j)
      OBVIOUS
    <3>1. j \in 1 .. t.i \/ (t.i < w /\ j = t.i + 1)
      BY <1>3, <2>3
    <3> QED
      BY <2>1, <2>2, <3>1
  <2> QED
    BY <2>4, <2>5 DEF BufferOK
<1>10. ASSUME NEW k \in 1 .. n - 1 PROVE BufferOK(frames[k], buf)
  <2> DEFINE g == frames[k]
  <2>1. k \in DOMAIN frames /\ n \in DOMAIN frames /\ k < n /\ n # 1 /\ g.who \notin Handlers /\ BufferOK(g, print_buf)
    BY <1>2
  <2>2. t.who \in Handlers
    BY <1>1, <1>2, <2>1 DEF Base
  <2>3. t.who \in g.hits
    BY <1>2, <2>1, <2>2 DEF StackOK
  <2>4. Fits(g, c, t.i + 1)
    BY <1>3, <2>1, <2>3 DEF Fits, c, w
  <2>5. g \in Activations
    BY <1>2, <2>1
  <2>6. g.who \in Messages => Stored(g) \in Nat
    BY <2>5, Lengths DEF Stored, Activations
  <2> HIDE DEF g
  <2>7. ASSUME g.who \in Messages PROVE Stored(g) <= Len(buf)
    BY <1>2, <1>6, <2>1, <2>6, <2>7 DEF BufferOK
  <2>8. ASSUME g.who \in Messages, NEW j \in 1 .. Stored(g) PROVE Fits(g, buf[j], j)
    <3>1. j \in 1 .. Len(print_buf) /\ Fits(g, print_buf[j], j)
      BY <1>2, <2>1, <2>6, <2>8 DEF BufferOK
    <3>2. CASE j = t.i + 1
      BY <1>6, <2>4, <3>2
    <3>3. CASE j # t.i + 1
      BY <1>6, <3>1, <3>3
    <3> QED
      BY <3>2, <3>3
  <2>9. BufferOK(g, buf)
    BY <2>7, <2>8 DEF BufferOK
  <2> QED
    BY <2>9 DEF g
<1>11. /\ frames' \in Seq(Activations) /\ frames'[n] = f /\ DOMAIN frames' = DOMAIN frames
       /\ \A k \in DOMAIN frames : k # n => frames'[k] = frames[k]
       /\ StackOK(frames', step) /\ FramesOK(frames', buf)
  <2>1. f.who = Last(frames).who /\ f.hits = Last(frames).hits
    BY <1>2, <1>5
  <2>2. \A k \in 1 .. Len(frames) - 1 : BufferOK(frames[k], buf)
    BY <1>10 DEF n
  <2> DEFINE gs == Append(Front(frames), f)
  <2>3. /\ frames \in Seq(Activations) /\ frames # <<>> /\ StackOK(frames, step)
        /\ FramesOK(frames, print_buf) /\ f \in Activations
    BY <1>1, <1>2, <1>5
  <2>4. /\ gs \in Seq(Activations) /\ gs[Len(frames)] = f /\ DOMAIN gs = DOMAIN frames
        /\ \A k \in DOMAIN frames : k # Len(frames) => gs[k] = frames[k]
        /\ StackOK(gs, step) /\ FramesOK(gs, buf)
    BY <1>7, <1>9, <2>1, <2>2, <2>3, GoesOn, ZenonT(30)
  <2>5. frames' = gs /\ step' = step
    BY <1>1
  <2> HIDE DEF gs
  <2> QED
    BY <2>4, <2>5 DEF n
<1>12. f.at \in {"format", "output"}
  BY <1>5
<1>13. Types' /\ StackOK(frames', step') /\ FramesOK(frames', print_buf')
  BY <1>1, <1>6, <1>11 DEF Core, Types, buf
<1>14. RoomOK'
  BY <1>1, <1>2, <1>11, <1>12 DEF Core, RoomOK
<1>15. LogOK'
  BY <1>1, <1>2, <1>11, <1>12 DEF Core, LogOK
<1> QED
  BY <1>13, <1>14, <1>15 DEF Core

\* The running activation goes on, and the buffer stays.
LEMMA CoreGoesOn ==
    ASSUME Core, frames # <<>>, NEW f \in Activations, f.who = Top.who, f.hits = Top.hits,
           FrameOK(f), BufferOK(f, print_buf), frames' = Append(Front(frames), f),
           step' = step, print_buf' = print_buf
    PROVE  /\ frames' \in Seq(Activations) /\ frames' # <<>> /\ Last(frames') = f
           /\ frames'[Len(frames)] = f /\ DOMAIN frames' = DOMAIN frames
           /\ \A k \in DOMAIN frames : k # Len(frames) => frames'[k] = frames[k]
           /\ StackOK(frames', step') /\ FramesOK(frames', print_buf')
<1> DEFINE gs == Append(Front(frames), f)
<1>1. /\ frames \in Seq(Activations) /\ StackOK(frames, step) /\ FramesOK(frames, print_buf)
      /\ f.who = Last(frames).who /\ f.hits = Last(frames).hits
      /\ \A k \in 1 .. Len(frames) - 1 : BufferOK(frames[k], print_buf)
  BY CoreTop
<1>2. /\ gs \in Seq(Activations) /\ gs # <<>> /\ Last(gs) = f /\ gs[Len(frames)] = f
      /\ DOMAIN gs = DOMAIN frames
      /\ \A k \in DOMAIN frames : k # Len(frames) => gs[k] = frames[k]
      /\ StackOK(gs, step) /\ FramesOK(gs, print_buf)
  BY <1>1, GoesOn, ZenonT(30)
<1>3. frames' = gs
  OBVIOUS
<1> HIDE DEF gs
<1> QED
  BY <1>2, <1>3

\* printk returns.
LEMMA CoreReturns ==
    ASSUME Core, frames # <<>>, Top.who \in Messages, Return, print_buf' = print_buf
    PROVE  /\ frames' \in Seq(Activations) /\ DOMAIN frames' \subseteq DOMAIN frames
           /\ \A k \in DOMAIN frames' : frames'[k] = frames[k]
           /\ StackOK(frames', step') /\ FramesOK(frames', print_buf') /\ step' \in Steps
           /\ \/ frames' # <<>> /\ step' = step
              \/ /\ frames' = <<>> /\ frames[1] = Top
                 /\ step \in DOMAIN Prints /\ Top.who = Prints[step][1] /\ step' = Prints[step][2]
<1>1. /\ frames \in Seq(Activations) /\ StackOK(frames, step) /\ FramesOK(frames, print_buf)
      /\ Len(frames) \in Nat /\ Len(frames) > 0 /\ Top = Last(frames) /\ Top = frames[Len(frames)]
      /\ step \in Steps
  BY CoreTop DEF Core, Types
<1> DEFINE gs == Front(frames)
<1>2. /\ gs \in Seq(Activations) /\ Len(gs) = Len(frames) - 1 /\ DOMAIN gs \subseteq DOMAIN frames
      /\ \A k \in DOMAIN gs : gs[k] = frames[k]
      /\ StackOK(gs, step) /\ FramesOK(gs, print_buf)
  BY <1>1, Returns
<1>3. frames' = gs
  BY DEF Return
<1> HIDE DEF gs
<1>4. CASE Len(frames) = 1
  <2>1. gs = <<>> /\ step' = Prints[step][2] /\ frames[1] = Top
    BY <1>1, <1>2, <1>4 DEF Return
  <2>2. Outermost(Top, step)
    BY <1>1, <1>4, TopFacts
  <2>3. step \in DOMAIN Prints /\ Top.who = Prints[step][1]
    BY <2>2 DEF Outermost, Messages, Handlers
  <2>4. StackOK(<<>>, step') /\ step' \in Steps
    BY <2>1, <2>3, PrintsTable DEF StackOK
  <2> QED
    BY <1>2, <1>3, <2>1, <2>3, <2>4
<1>5. CASE Len(frames) # 1
  <2>1. gs # <<>> /\ step' = step
    BY <1>1, <1>2, <1>5 DEF Return
  <2> QED
    BY <1>1, <1>2, <1>3, <2>1
<1> QED
  BY <1>4, <1>5

\* The text that printk has put into the buffer while interrupts are off.
LEMMA Undisturbed ==
    ASSUME Core, frames # <<>>, Top.who \in Messages, Top.at = "output", step \notin Interruptible
    PROVE  SubSeq(print_buf, 1, MsgLen[Top.who]) = Text(Top.who)
<1> DEFINE m == Top.who
           a == SubSeq(print_buf, 1, MsgLen[m])
<1>1. /\ BufferOK(Top, print_buf) /\ print_buf \in Seq(Chars) /\ Top.hits = {}
  BY CoreTop DEF StackOK
<1>2. MsgLen[m] \in Nat /\ MsgLen[m] <= Len(print_buf) /\ \A j \in 1 .. MsgLen[m] : Fits(Top, print_buf[j], j)
  BY <1>1, Lengths DEF BufferOK, Stored
<1>3. \A j \in 1 .. MsgLen[m] : print_buf[j] = Char(m, j)
  BY <1>1, <1>2 DEF Fits
<1>4. /\ Text(m) \in Seq(Chars) /\ Len(Text(m)) = MsgLen[m]
      /\ \A k \in 1 .. MsgLen[m] : Text(m)[k] = Char(m, k)
  BY TextFacts
<1> HIDE DEF m
<1>5. a \in Seq(Chars) /\ Len(a) = MsgLen[m] /\ \A k \in 1 .. MsgLen[m] : a[k] = print_buf[k]
  BY <1>1, <1>2
<1>6. \A k \in 1 .. Len(a) : a[k] = Text(m)[k]
  BY <1>3, <1>4, <1>5
<1> HIDE DEF a
<1>7. a = Text(m)
  BY <1>4, <1>5, <1>6, SeqEqual
<1> QED
  BY <1>7 DEF a, m

LEMMA CoreOutput == Core /\ Output => Core'
<1> SUFFICES ASSUME Core, Output PROVE Core'
  OBVIOUS
<1>1. /\ frames # <<>> /\ Top.who \in Messages /\ Top.at = "output"
      /\ UNCHANGED <<print_buf, tx, line, lost>>
  BY DEF Output, Running, out
<1>2. CASE step \in EarlySteps
  <2>1. Record(Top.who) /\ Return
    BY <1>2 DEF Output
  <2>2. step \notin Interruptible /\ step \notin {"init1", "replay"}
    <3>1. step \notin Interruptible
      BY <1>2 DEF EarlySteps, Interruptible
    <3>2. Outermost(Top, step)
      BY <1>1, <3>1, CoreTop
    <3> QED
      BY <1>1, <3>1, <3>2, PrintsTable DEF Outermost, Messages, Handlers
  <2>3. step \in {"early1", "early2"}
    BY <1>2, <2>2 DEF EarlySteps
  <2>4. /\ frames' \in Seq(Activations)
        /\ StackOK(frames', step') /\ FramesOK(frames', print_buf') /\ step' \in Steps
        /\ \/ frames' # <<>> /\ step' = step
           \/ /\ frames' = <<>>
              /\ step \in DOMAIN Prints /\ Top.who = Prints[step][1] /\ step' = Prints[step][2]
    BY <1>1, <2>1, CoreReturns
  <2>5. Len(frames) = 1 /\ frames \in Seq(Activations)
    BY <1>1, <2>2, CoreTop
  <2>6. frames' = <<>>
    <3> DEFINE gs == Front(frames)
    <3>1. gs \in Seq(Activations) /\ Len(gs) = 0
      BY <1>1, <2>5, Popped
    <3>2. frames' = gs
      BY <2>1 DEF Return
    <3> HIDE DEF gs
    <3> QED
      BY <3>1, <3>2
  <2>7. /\ Top.who = Prints[step][1] /\ step' = Prints[step][2]
    BY <2>4, <2>6
  <2> DEFINE m == Top.who
  <2>8. SubSeq(print_buf, 1, MsgLen[m]) = Text(m) /\ Text(m) \in Seq(Chars) /\ MsgLen[m] \in Nat
    BY <1>1, <2>2, Undisturbed, TextFacts, Lengths
  <2>9. /\ log_buf' = SubSeq(log_buf, 1, g_record) \o Text(m)
        /\ g_record' = MsgLen[m] /\ g_record_len' = g_record_len + MsgLen[m]
    BY <2>1, <2>8 DEF Record
  <2>10. CASE step = "early1"
    <3>1. m = "E1" /\ step' = "init1"
      BY <2>7, <2>10 DEF Prints
    <3>2. log_buf = <<>> /\ g_record = 0 /\ g_record_len = 0
      BY <2>10 DEF Core, LogOK
    <3>3. SubSeq(log_buf, 1, g_record) = <<>>
      BY <3>2
    <3>4. log_buf' = Text("E1") /\ g_record' = MsgLen["E1"] /\ g_record_len' = MsgLen["E1"]
      BY <2>8, <2>9, <3>1, <3>2, <3>3
    <3>5. Types'
      BY <1>1, <2>4, <2>8, <3>1, <3>4 DEF Core, Types
    <3>6. RoomOK'
      BY <1>1, <2>6, <2>10, <3>1 DEF Core, RoomOK, Interruptible
    <3>7. LogOK'
      BY <3>1, <3>4 DEF LogOK
    <3> QED
      BY <2>4, <3>5, <3>6, <3>7 DEF Core
  <2>11. CASE step = "early2"
    <3>1. m = "E2" /\ step' = "replay"
      BY <2>7, <2>11 DEF Prints
    <3>2. log_buf = Text("E1") /\ g_record = MsgLen["E1"] /\ g_record_len = MsgLen["E1"]
      BY <2>11 DEF Core, LogOK
    <3>3. "E1" \in Messages
      BY DEF Messages
    <3>4. Text("E1") \in Seq(Chars) /\ Len(Text("E1")) = MsgLen["E1"] /\ MsgLen["E1"] \in Nat
      BY <3>3, TextFacts, Lengths
    <3>5. SubSeq(Text("E1"), 1, Len(Text("E1"))) = Text("E1")
      BY <3>4, SubSeqFull
    <3>6. /\ log_buf' = Text("E1") \o Text("E2")
          /\ g_record' = MsgLen["E2"] /\ g_record_len' = MsgLen["E1"] + MsgLen["E2"]
      BY <2>9, <3>1, <3>2, <3>4, <3>5
    <3>7. Text("E1") \o Text("E2") \in Seq(Chars)
      BY <2>8, <3>1, <3>4
    <3>8. Types'
      BY <1>1, <2>4, <2>8, <3>1, <3>4, <3>6, <3>7, SMTT(30) DEF Core, Types
    <3>9. RoomOK'
      BY <1>1, <2>6, <2>11, <3>1 DEF Core, RoomOK, Interruptible
    <3>10. LogOK'
      BY <3>1, <3>6 DEF LogOK
    <3> QED
      BY <2>4, <3>8, <3>9, <3>10 DEF Core
  <2> QED
    BY <2>3, <2>10, <2>11
<1>3. CASE step \notin EarlySteps
  <2> DEFINE f == [Top EXCEPT !.at = "send"]
  <2>1. /\ frames' = Append(Front(frames), f)
        /\ UNCHANGED <<step, log_buf, g_record, g_record_len>>
    BY <1>3 DEF Output, SetTop, base, log
  <2>2. Top \in Activations /\ FrameOK(Top) /\ BufferOK(Top, print_buf)
    BY <1>1, CoreTop
  <2>3. /\ f \in Activations /\ f.who = Top.who /\ f.hits = Top.hits /\ f.at = "send" /\ f.i = Top.i
        /\ f.todo = Top.todo
    BY <2>2 DEF Activations, Printing
  <2> HIDE DEF f
  <2>4. FrameOK(f)
    BY <1>1, <2>2, <2>3 DEF FrameOK, Handling, Messages, Handlers
  <2>5. BufferOK(f, print_buf)
    BY <1>1, <2>2, <2>3 DEF BufferOK, Stored, Fits
  <2>6. /\ frames' \in Seq(Activations) /\ frames'[Len(frames)] = f /\ DOMAIN frames' = DOMAIN frames
        /\ \A k \in DOMAIN frames : k # Len(frames) => frames'[k] = frames[k]
        /\ StackOK(frames', step') /\ FramesOK(frames', print_buf')
    BY <1>1, <2>1, <2>3, <2>4, <2>5, CoreGoesOn
  <2>7. Types'
    BY <1>1, <2>1, <2>6 DEF Core, Types
  <2>8. RoomOK'
    BY <1>1, <2>1, <2>3, <2>6 DEF Core, RoomOK
  <2>9. LogOK'
    BY <1>3, <2>1 DEF LogOK, EarlySteps
  <2> QED
    BY <2>6, <2>7, <2>8, <2>9 DEF Core
<1> QED
  BY <1>2, <1>3

\* A character is taken out of the buffer to be sent.
LEMMA Taken ==
    ASSUME NEW c \in Chars
    PROVE  /\ PutChar(c) \in {<<c>>, <<CR, c>>} /\ PutChar(c) \in Seq(Chars) /\ PutChar(c) # <<>>
<1>1. CR \in Chars
  BY DEF CR, Chars
<1>2. <<c>> \in Seq(Chars) /\ <<CR, c>> \in Seq(Chars) /\ <<c>> # <<>> /\ <<CR, c>> # <<>>
  BY <1>1
<1>3. PutChar(c) \in {<<c>>, <<CR, c>>}
  BY DEF PutChar
<1> QED
  BY <1>2, <1>3

LEMMA CoreSend == Core /\ Send => Core'
<1> SUFFICES ASSUME Core, Send PROVE Core'
  OBVIOUS
<1>1. /\ frames # <<>> /\ Top.who \in Messages /\ Top.at = "send"
      /\ UNCHANGED <<print_buf, log_buf, g_record, g_record_len, tx, line, lost>>
  BY DEF Send, Running, out, log
<1>2. /\ Top \in Activations /\ FrameOK(Top) /\ BufferOK(Top, print_buf) /\ print_buf \in Seq(Chars)
      /\ DOMAIN frames = 1 .. Len(frames) /\ Top = frames[Len(frames)] /\ Len(frames) \in Nat /\ Len(frames) > 0
  BY <1>1, CoreTop
<1>3. step \notin {"early1", "early2"}
  <2>1. Len(frames) \in DOMAIN frames
    BY <1>2
  <2> QED
    BY <1>1, <1>2, <2>1 DEF Core, LogOK
<1> DEFINE w == MsgLen[Top.who]
<1>4. CASE Top.i < w
  <2> DEFINE c == print_buf[Top.i + 1]
             f == [Top EXCEPT !.i = @ + 1, !.at = "wait", !.todo = PutChar(c)]
  <2>1. frames' = Append(Front(frames), f) /\ step' = step
    BY <1>4 DEF Send, SetTop, base
  <2>2. Top.i \in Nat /\ w \in Nat /\ Top.i + 1 \in 1 .. w /\ Stored(Top) = w
    BY <1>1, <1>2, <1>4, Lengths DEF Activations, Stored
  <2>3. c \in Chars /\ Fits(Top, c, Top.i + 1)
    BY <1>1, <1>2, <2>2 DEF BufferOK
  <2>4. PutChar(c) \in {<<c>>, <<CR, c>>} /\ PutChar(c) \in Seq(Chars) /\ PutChar(c) # <<>>
    BY <2>3, Taken
  <2> HIDE DEF c
  <2>5. /\ f \in Activations /\ f.who = Top.who /\ f.hits = Top.hits /\ f.at = "wait"
        /\ f.i = Top.i + 1 /\ f.todo = PutChar(c)
    <3>1. Top.i + 1 \in Nat /\ "wait" \in Printing
      BY <2>2 DEF Printing
    <3> QED
      BY <1>2, <2>4, <3>1 DEF Activations
  <2> HIDE DEF f
  <2>6. Fits(f, c, f.i)
    BY <2>3, <2>5 DEF Fits
  <2>7. FrameOK(f)
    <3>1. f.i <= MsgLen[f.who]
      BY <1>2, <2>2, <2>5
    <3>2. f.todo # <<>> /\ \E x \in Chars : f.todo \in {<<x>>, <<CR, x>>} /\ (f.who \in Messages => Fits(f, x, f.i))
      BY <2>3, <2>4, <2>5, <2>6
    <3>3. f.at = "wait" /\ f.who \in Messages /\ f.who # "plic" /\ f.who # "replay"
      BY <1>1, <2>5 DEF Messages, Handlers
    <3> QED
      BY <3>1, <3>2, <3>3 DEF FrameOK, Handling
  <2>8. BufferOK(f, print_buf)
    BY <1>1, <1>2, <2>5 DEF BufferOK, Stored, Fits
  <2>9. /\ frames' \in Seq(Activations) /\ frames'[Len(frames)] = f /\ DOMAIN frames' = DOMAIN frames
        /\ \A k \in DOMAIN frames : k # Len(frames) => frames'[k] = frames[k]
        /\ StackOK(frames', step') /\ FramesOK(frames', print_buf')
    BY <1>1, <2>1, <2>5, <2>7, <2>8, CoreGoesOn
  <2>10. Types'
    BY <1>1, <2>1, <2>9 DEF Core, Types
  <2>11. RoomOK'
    BY <1>1, <2>1, <2>5, <2>9 DEF Core, RoomOK
  <2>12. LogOK'
    BY <1>1, <1>3, <2>1 DEF Core, LogOK
  <2> QED
    BY <2>9, <2>10, <2>11, <2>12 DEF Core
<1>5. CASE ~(Top.i < w)
  <2>1. Return
    BY <1>5 DEF Send
  <2>2. /\ frames' \in Seq(Activations) /\ DOMAIN frames' \subseteq DOMAIN frames
        /\ \A k \in DOMAIN frames' : frames'[k] = frames[k]
        /\ StackOK(frames', step') /\ FramesOK(frames', print_buf') /\ step' \in Steps
        /\ \/ frames' # <<>> /\ step' = step
           \/ frames' = <<>> /\ step \in DOMAIN Prints /\ step' = Prints[step][2]
    BY <1>1, <2>1, CoreReturns
  <2>3. Types'
    BY <1>1, <2>2 DEF Core, Types
  <2>4. CASE step' = step
    <3>1. RoomOK'
      BY <1>1, <2>2, <2>4 DEF Core, RoomOK
    <3>2. LogOK'
      BY <1>1, <1>3, <2>4 DEF Core, LogOK
    <3> QED
      BY <2>2, <2>3, <3>1, <3>2 DEF Core
  <2>5. CASE frames' = <<>> /\ step \in DOMAIN Prints /\ step' = Prints[step][2]
    <3>1. /\ step \in {"boot", "last", "vs", "guest1", "guest2"}
          /\ step' = CASE step = "boot" -> "init2" [] step = "last" -> "idle" [] step = "vs" -> "enter"
                       [] step = "guest1" -> "guest2" [] OTHER -> "spin"
      BY <1>3, <2>5 DEF Prints
    <3>2. RoomOK'
      BY <1>1, <2>5, <3>1 DEF Core, RoomOK, Interruptible
    <3>3. LogOK'
      BY <3>1 DEF LogOK
    <3> QED
      BY <2>2, <2>3, <3>2, <3>3 DEF Core
  <2> QED
    BY <2>2, <2>4, <2>5
<1> QED
  BY <1>4, <1>5

\* The log goes out, or is over.
LEMMA CoreReplay == Core /\ Replay => Core'
<1> SUFFICES ASSUME Core, Replay PROVE Core'
  OBVIOUS
<1>1. /\ step = "replay" /\ step \notin Interruptible
      /\ UNCHANGED <<print_buf, tx, line, lost>>
  BY DEF Replay, out, Interruptible
<1>2. /\ frames \in Seq(Activations) /\ StackOK(frames, step) /\ FramesOK(frames, print_buf)
      /\ log_buf = Text("E1") \o Text("E2") /\ g_record_len = MsgLen["E1"] + MsgLen["E2"]
      /\ log_buf \in Seq(Chars)
  BY <1>1 DEF Core, Types, LogOK
<1>3. CASE frames = <<>>
  <2> DEFINE f == [Frame("replay") EXCEPT !.at = "send"]
  <2>1. /\ frames' = <<f>>
        /\ UNCHANGED <<step, log_buf, g_record, g_record_len>>
    BY <1>3 DEF Replay, base, log
  <2>2. f = [who |-> "replay", at |-> "send", i |-> 0, todo |-> <<>>, hits |-> {}]
    BY DEF Frame
  <2>3. <<>> \in Seq(Chars) /\ {} \in SUBSET Handlers /\ 0 \in Nat
    OBVIOUS
  <2> HIDE DEF f
  <2>4. f \in Activations
    BY <2>2, <2>3, Zenon DEF Activations, Printing, Base
  <2>5. "replay" \notin Messages \cup Handlers
    BY DEF Messages, Handlers
  <2>6. FrameOK(f) /\ BufferOK(f, print_buf) /\ f.hits = {} /\ f.who = "replay"
    BY <2>2, <2>5 DEF FrameOK, BufferOK, Handling
  <2>7. Outermost(f, step)
    BY <1>1, <2>6 DEF Outermost
  <2>8. IF frames = <<>> THEN Outermost(f, step) ELSE Interrupts(f, Last(frames))
    BY <1>3, <2>7
  <2>9. frames' = Append(frames, f)
    BY <1>3, <2>1
  <2>10. /\ frames' \in Seq(Activations) /\ frames'[Len(frames) + 1] = f
         /\ \A k \in DOMAIN frames : frames'[k] = frames[k]
         /\ DOMAIN frames' = DOMAIN frames \cup {Len(frames) + 1}
         /\ StackOK(frames', step) /\ FramesOK(frames', print_buf)
    <3>1. f.who # "plic" /\ f.who \notin Handlers /\ f.hits = {} /\ FrameOK(f) /\ BufferOK(f, print_buf)
      BY <2>5, <2>6
    <3> QED
      BY <1>2, <2>4, <2>8, <2>9, <3>1, Enters
  <2>11. f.at = "send"
    BY <2>2
  <2>12. Types' /\ StackOK(frames', step') /\ FramesOK(frames', print_buf')
    BY <1>1, <2>1, <2>10 DEF Core, Types
  <2>13. RoomOK'
    BY <1>1, <2>1, <2>10, <2>11 DEF Core, RoomOK
  <2>14. LogOK'
    BY <1>1, <2>1 DEF Core, LogOK
  <2> QED
    BY <2>12, <2>13, <2>14 DEF Core
<1>4. CASE frames # <<>> /\ Top.i < g_record_len
  <2> DEFINE c == log_buf[Top.i + 1]
             f == [Top EXCEPT !.i = @ + 1, !.at = "wait", !.todo = PutChar(c)]
  <2>1. /\ frames' = Append(Front(frames), f) /\ Top.who = "replay" /\ Top.at = "send"
        /\ UNCHANGED <<step, log_buf, g_record, g_record_len>>
    BY <1>4 DEF Replay, Running, SetTop, base, log
  <2>2. Top \in Activations /\ FrameOK(Top) /\ BufferOK(Top, print_buf)
    BY <1>4, CoreTop
  <2>3. Top.i \in Nat /\ c \in Chars
    <3>1. Top.i \in Nat
      BY <2>2 DEF Activations
    <3> QED
      BY <1>2, <1>4, <3>1, SentNext
  <2>4. PutChar(c) \in {<<c>>, <<CR, c>>} /\ PutChar(c) \in Seq(Chars) /\ PutChar(c) # <<>>
    BY <2>3, Taken
  <2> HIDE DEF c
  <2>5. /\ f \in Activations /\ f.who = Top.who /\ f.hits = Top.hits /\ f.at = "wait"
        /\ f.i = Top.i + 1 /\ f.todo = PutChar(c)
    <3>1. Top.i + 1 \in Nat /\ "wait" \in Printing
      BY <2>3 DEF Printing
    <3> QED
      BY <2>2, <2>4, <3>1 DEF Activations
  <2> HIDE DEF f
  <2>6. FrameOK(f) /\ BufferOK(f, print_buf)
    <3>1. f.who = "replay" /\ f.who \notin Messages /\ f.at = "wait" /\ f.todo # <<>>
      BY <2>1, <2>4, <2>5 DEF Messages, Handlers
    <3>2. \E x \in Chars : f.todo \in {<<x>>, <<CR, x>>}
      BY <2>3, <2>4, <2>5
    <3> QED
      BY <3>1, <3>2 DEF FrameOK, BufferOK, Handling
  <2>7. /\ frames' \in Seq(Activations) /\ frames'[Len(frames)] = f /\ DOMAIN frames' = DOMAIN frames
        /\ \A k \in DOMAIN frames : k # Len(frames) => frames'[k] = frames[k]
        /\ StackOK(frames', step') /\ FramesOK(frames', print_buf')
    BY <1>1, <1>4, <2>1, <2>5, <2>6, CoreGoesOn
  <2>8. Types'
    BY <1>1, <2>1, <2>7 DEF Core, Types
  <2>9. RoomOK'
    BY <1>1, <2>1, <2>5, <2>7 DEF Core, RoomOK
  <2>10. LogOK'
    BY <1>1, <2>1 DEF Core, LogOK
  <2> QED
    BY <2>7, <2>8, <2>9, <2>10 DEF Core
<1>5. CASE frames # <<>> /\ ~(Top.i < g_record_len)
  <2>1. /\ frames' = <<>> /\ step' = "boot" /\ g_record' = 0 /\ g_record_len' = 0 /\ log_buf' = log_buf
    BY <1>5 DEF Replay
  <2>2. Types' /\ StackOK(frames', step') /\ FramesOK(frames', print_buf')
    BY <1>1, <2>1, PrintsTable DEF Core, Types, StackOK, FramesOK, Steps
  <2>3. RoomOK'
    BY <1>1, <2>1 DEF Core, RoomOK, Interruptible
  <2>4. LogOK'
    BY <2>1 DEF LogOK
  <2> QED
    BY <2>2, <2>3, <2>4 DEF Core
<1> QED
  BY <1>3, <1>4, <1>5

\* What is still to be written of a character, and what is left of it after one.
LEMMA Writes ==
    ASSUME NEW c \in Chars, NEW t \in {<<c>>, <<CR, c>>}
    PROVE  /\ Head(t) \in Chars /\ Tail(t) \in Seq(Chars)
           /\ Len(t) = 1 => Tail(t) = <<>>
           /\ Len(t) # 1 => Tail(t) = <<c>>
<1>1. CR \in Chars
  BY DEF CR, Chars
<1>2. <<c>> \in Seq(Chars) /\ <<CR, c>> \in Seq(Chars)
  BY <1>1
<1>3. /\ Len(<<c>>) = 1 /\ Len(<<CR, c>>) = 2 /\ Tail(<<c>>) = <<>> /\ Tail(<<CR, c>>) = <<c>>
      /\ Head(<<c>>) = c /\ Head(<<CR, c>>) = CR
  OBVIOUS
<1>4. CASE t = <<c>>
  BY <1>2, <1>3, <1>4
<1>5. CASE t = <<CR, c>>
  BY <1>1, <1>2, <1>3, <1>5
<1> QED
  BY <1>4, <1>5

LEMMA CoreUartWait == Core /\ UartWait => Core'
<1> SUFFICES ASSUME Core, UartWait PROVE Core'
  OBVIOUS
<1> DEFINE f == [Top EXCEPT !.at = "write"]
<1>1. /\ frames # <<>> /\ Top.at = "wait" /\ tx = <<>> /\ frames' = Append(Front(frames), f)
      /\ UNCHANGED <<step, print_buf, log_buf, g_record, g_record_len, tx, line, lost>>
  BY DEF UartWait, Sending, LsrEmpty, SetTop, base, log, out
<1>2. /\ Top \in Activations /\ FrameOK(Top) /\ BufferOK(Top, print_buf)
      /\ DOMAIN frames = 1 .. Len(frames) /\ Top = frames[Len(frames)] /\ Len(frames) \in Nat /\ Len(frames) > 0
  BY <1>1, CoreTop
<1>3. step \notin {"early1", "early2"}
  <2>1. Len(frames) \in DOMAIN frames
    BY <1>2
  <2> QED
    BY <1>1, <1>2, <2>1 DEF Core, LogOK
<1>4. /\ f \in Activations /\ f.who = Top.who /\ f.hits = Top.hits /\ f.at = "write" /\ f.i = Top.i
      /\ f.todo = Top.todo
  BY <1>2 DEF Activations, Printing
<1> HIDE DEF f
<1>5. FrameOK(f)
  BY <1>1, <1>2, <1>4 DEF FrameOK, Handling, Fits
<1>6. BufferOK(f, print_buf)
  BY <1>1, <1>2, <1>4 DEF BufferOK, Stored, Fits
<1>7. /\ frames' \in Seq(Activations) /\ frames'[Len(frames)] = f /\ DOMAIN frames' = DOMAIN frames
      /\ \A k \in DOMAIN frames : k # Len(frames) => frames'[k] = frames[k]
      /\ StackOK(frames', step') /\ FramesOK(frames', print_buf')
  BY <1>1, <1>4, <1>5, <1>6, CoreGoesOn
<1>8. Types'
  BY <1>1, <1>7 DEF Core, Types
<1>9. RoomOK'
  <2>1. tx' = <<>> /\ Len(tx') = 0
    BY <1>1
  <2> QED
    BY <1>1, <2>1 DEF Core, RoomOK
<1>10. LogOK'
  BY <1>1, <1>3 DEF Core, LogOK
<1> QED
  BY <1>7, <1>8, <1>9, <1>10 DEF Core

\* A character goes into the transmitter: of a handler, or with interrupts off, it is
\* the only one there.
LEMMA CoreUartWrite == Core /\ UartWrite => Core'
<1> SUFFICES ASSUME Core, UartWrite PROVE Core'
  OBVIOUS
<1> DEFINE n == Len(frames)
           f == [Top EXCEPT !.todo = Tail(@), !.at = IF Len(Top.todo) = 1 THEN "send" ELSE "wait"]
<1>1. /\ frames # <<>> /\ Top.at = "write" /\ tx' = Append(tx, Head(Top.todo))
      /\ frames' = Append(Front(frames), f)
      /\ UNCHANGED <<step, print_buf, log_buf, g_record, g_record_len, line, lost>>
  BY DEF UartWrite, Sending, SetTop, base, log
<1>2. /\ Top \in Activations /\ FrameOK(Top) /\ BufferOK(Top, print_buf)
      /\ n \in Nat /\ n > 0 /\ DOMAIN frames = 1 .. n /\ Top = frames[n]
      /\ \A k \in 1 .. n - 1 : frames[k].who \notin Handlers
      /\ step \notin Interruptible => n = 1
      /\ Top.who \in Base => n = 1
  BY <1>1, CoreTop
<1>3. n \in DOMAIN frames /\ tx \in Seq(Chars) /\ Len(tx) \in Nat
  BY <1>2 DEF Core, Types
<1>4. step \notin {"early1", "early2"}
  BY <1>1, <1>2, <1>3 DEF Core, LogOK
<1>5. PICK c \in Chars : /\ Top.todo \in {<<c>>, <<CR, c>>}
                         /\ Top.who \in Messages => Fits(Top, c, Top.i)
  BY <1>1, <1>2 DEF FrameOK
<1>6. /\ Head(Top.todo) \in Chars /\ Tail(Top.todo) \in Seq(Chars)
      /\ Len(Top.todo) = 1 => Tail(Top.todo) = <<>>
      /\ Len(Top.todo) # 1 => Tail(Top.todo) = <<c>>
  BY <1>5, Writes
<1>7. /\ f \in Activations /\ f.who = Top.who /\ f.hits = Top.hits /\ f.i = Top.i
      /\ f.at = (IF Len(Top.todo) = 1 THEN "send" ELSE "wait") /\ f.todo = Tail(Top.todo)
  BY <1>2, <1>6 DEF Activations, Printing
<1> HIDE DEF f, n
<1>8. FrameOK(f)
  <2>1. CASE Len(Top.todo) = 1
    BY <1>1, <1>2, <1>6, <1>7, <2>1 DEF FrameOK, Handling
  <2>2. CASE Len(Top.todo) # 1
    <3>1. f.todo = <<c>> /\ f.at = "wait" /\ f.todo # <<>>
      BY <1>6, <1>7, <2>2
    <3>2. f.who \in Messages => Fits(f, c, f.i)
      BY <1>5, <1>7 DEF Fits
    <3> QED
      BY <1>1, <1>2, <1>7, <3>1, <3>2 DEF FrameOK, Handling
  <2> QED
    BY <2>1, <2>2
<1>9. BufferOK(f, print_buf)
  BY <1>1, <1>2, <1>7 DEF BufferOK, Stored, Fits
<1>10. /\ frames' \in Seq(Activations) /\ frames'[n] = f /\ DOMAIN frames' = DOMAIN frames
       /\ \A k \in DOMAIN frames : k # n => frames'[k] = frames[k]
       /\ StackOK(frames', step') /\ FramesOK(frames', print_buf')
  BY <1>1, <1>7, <1>8, <1>9, CoreGoesOn DEF n
<1>11. tx' \in Seq(Chars) /\ Len(tx') = Len(tx) + 1
  BY <1>1, <1>3, <1>6
<1>12. Types'
  BY <1>1, <1>10, <1>11 DEF Core, Types
<1>13. RoomOK'
  <2>1. /\ Len(tx) <= 1 /\ (Top.who \in Handlers \/ step \notin Interruptible => Len(tx) = 0)
        /\ lost <= CASE step \in {"early1", "init1"} -> 0
                     [] step \in {"early2", "replay", "boot", "init2"} -> 1
                     [] OTHER -> 2
    BY <1>1, <1>2, <1>3 DEF Core, RoomOK
  <2>2. ASSUME NEW k \in DOMAIN frames', frames'[k].at = "write"
        PROVE  Len(tx') <= 1 /\ frames'[k].who \notin Handlers /\ step \in Interruptible
    <3>1. k \in 1 .. n - 1 /\ frames'[k] = frames[k] /\ n # 1
      BY <1>2, <1>7, <1>10, <2>2
    <3>2. Top.who \notin Base /\ step \in Interruptible /\ frames'[k].who \notin Handlers
      BY <1>2, <3>1
    <3>3. Top.who # "plic"
      BY <1>1, <1>2 DEF FrameOK, Handling
    <3>4. Top.who \in Handlers
      BY <1>2, <3>2, <3>3 DEF Activations
    <3> QED
      BY <1>11, <2>1, <3>2, <3>4
  <2>3. Len(tx') <= IF step' \in Interruptible THEN 2 ELSE 1
    BY <1>1, <1>3, <1>11, <2>1
  <2>4. /\ (\E k \in DOMAIN frames' : frames'[k].at = "write") => Len(tx') <= 1
        /\ \A k \in DOMAIN frames' :
             frames'[k].at = "write" /\ (frames'[k].who \in Handlers \/ step' \notin Interruptible) => tx' = <<>>
    BY <1>1, <2>2
  <2> QED
    BY <1>1, <2>1, <2>3, <2>4 DEF RoomOK
<1>14. LogOK'
  BY <1>1, <1>4 DEF Core, LogOK
<1> QED
  BY <1>10, <1>12, <1>13, <1>14 DEF Core

\* plic_handle_irq goes on.
LEMMA PlicGoesOn ==
    ASSUME Core, frames # <<>>, Top.who = "plic", NEW a \in Handling
    PROVE  LET f == [Top EXCEPT !.at = a]
           IN  /\ step \in Interruptible /\ f \in Activations /\ f.who = "plic" /\ f.hits = Top.hits
               /\ f.at = a /\ a \notin {"wait", "write", "output", "format", "send"}
               /\ FrameOK(f) /\ \A buf : BufferOK(f, buf)
<1> DEFINE f == [Top EXCEPT !.at = a]
<1>1. Top \in Activations /\ FrameOK(Top) /\ step \in Interruptible
  BY CoreTop, GuestRuns DEF Top
<1>2. /\ f \in Activations /\ f.who = "plic" /\ f.hits = Top.hits /\ f.at = a /\ f.i = Top.i
      /\ f.todo = Top.todo
  BY <1>1 DEF Activations
<1> HIDE DEF f
<1>3. a \notin {"wait", "write", "output", "format", "send"} /\ Top.at \in Handling
  BY <1>1 DEF Handling, FrameOK
<1>4. Top.todo = <<>>
  BY <1>1, <1>3 DEF FrameOK, Handling
<1>5. "plic" \notin Messages
  BY DEF Messages, Handlers
<1>6. FrameOK(f) /\ \A buf : BufferOK(f, buf)
  BY <1>2, <1>3, <1>4, <1>5 DEF FrameOK, BufferOK
<1> QED
  BY <1>1, <1>2, <1>3, <1>6 DEF f

\* The claim register gives the interrupt, or it is completed.
LEMMA CorePlic == Core /\ (Claim \/ Complete) => Core'
<1> SUFFICES ASSUME Core, Claim \/ Complete PROVE Core'
  OBVIOUS
<1>1. /\ frames # <<>> /\ Top.who = "plic"
      /\ UNCHANGED <<step, print_buf, log_buf, g_record, g_record_len, tx, line, lost>>
  BY DEF Claim, Complete, Running, base, log, out
<1>2. /\ step \in Interruptible /\ DOMAIN frames = 1 .. Len(frames) /\ Len(frames) \in Nat /\ Len(frames) > 0
      /\ frames \in Seq(Activations) /\ StackOK(frames, step) /\ FramesOK(frames, print_buf)
  BY <1>1, CoreTop, GuestRuns DEF Top
<1>3. LogOK'
  BY <1>1, <1>2 DEF LogOK, Interruptible
<1>4. CASE frames' = Front(frames)
  <2> DEFINE gs == Front(frames)
  <2>1. /\ gs \in Seq(Activations) /\ DOMAIN gs \subseteq DOMAIN frames
        /\ \A k \in DOMAIN gs : gs[k] = frames[k]
        /\ StackOK(gs, step) /\ FramesOK(gs, print_buf)
    BY <1>1, <1>2, Returns
  <2>2. frames' = gs
    BY <1>4
  <2> HIDE DEF gs
  <2>3. Types' /\ StackOK(frames', step') /\ FramesOK(frames', print_buf')
    BY <1>1, <2>1, <2>2 DEF Core, Types
  <2>4. RoomOK'
    BY <1>1, <2>1, <2>2 DEF Core, RoomOK
  <2> QED
    BY <1>3, <2>3, <2>4 DEF Core
<1>5. ASSUME NEW a \in Handling, frames' = Append(Front(frames), [Top EXCEPT !.at = a]) PROVE Core'
  <2> DEFINE f == [Top EXCEPT !.at = a]
  <2>1. /\ f \in Activations /\ f.who = Top.who /\ f.hits = Top.hits /\ f.at # "write"
        /\ FrameOK(f) /\ BufferOK(f, print_buf)
    BY <1>1, PlicGoesOn
  <2>2. frames' = Append(Front(frames), f)
    BY <1>5
  <2> HIDE DEF f
  <2>3. /\ frames' \in Seq(Activations) /\ frames'[Len(frames)] = f /\ DOMAIN frames' = DOMAIN frames
        /\ \A k \in DOMAIN frames : k # Len(frames) => frames'[k] = frames[k]
        /\ StackOK(frames', step') /\ FramesOK(frames', print_buf')
    BY <1>1, <2>1, <2>2, CoreGoesOn
  <2>4. Types'
    BY <1>1, <2>3 DEF Core, Types
  <2>5. RoomOK'
    BY <1>1, <2>1, <2>3 DEF Core, RoomOK
  <2> QED
    BY <1>3, <2>3, <2>4, <2>5 DEF Core
<1>6. \/ frames' = Front(frames)
      \/ \E a \in Handling : frames' = Append(Front(frames), [Top EXCEPT !.at = a])
  BY DEF Claim, Complete, SetTop, Handling
<1> QED
  BY <1>4, <1>5, <1>6

LEMMA CoreHandleUartIrq == Core /\ HandleUartIrq => Core'
<1> SUFFICES ASSUME Core, HandleUartIrq PROVE Core'
  OBVIOUS
<1> DEFINE n == Len(frames)
           f == [Top EXCEPT !.at = "complete"]
           fs == Append(Front(frames), f)
<1>1. /\ frames # <<>> /\ Top.who = "plic"
      /\ UNCHANGED <<step, print_buf, log_buf, g_record, g_record_len, tx, line, lost>>
      /\ frames' = fs \/ frames' = Append(Hit(fs, "irq"), Frame("irq"))
  BY DEF HandleUartIrq, Running, Printk, base, log, out
<1>2. /\ DOMAIN frames = 1 .. n /\ n \in Nat /\ n > 0 /\ print_buf \in Seq(Chars)
      /\ frames \in Seq(Activations) /\ StackOK(frames, step) /\ FramesOK(frames, print_buf)
      /\ \A k \in 1 .. n - 1 : BufferOK(frames[k], print_buf)
      /\ Top = Last(frames)
  BY <1>1, CoreTop
<1>3. /\ step \in Interruptible /\ f \in Activations /\ f.who = "plic" /\ f.hits = Top.hits /\ f.at = "complete"
      /\ FrameOK(f) /\ BufferOK(f, print_buf)
  BY <1>1, PlicGoesOn DEF Handling
<1> HIDE DEF f
<1>4. /\ fs \in Seq(Activations) /\ fs # <<>> /\ Len(fs) = n /\ Last(fs) = f
      /\ fs[n] = f /\ DOMAIN fs = DOMAIN frames
      /\ \A k \in DOMAIN frames : k # n => fs[k] = frames[k]
      /\ StackOK(fs, step) /\ FramesOK(fs, print_buf)
  <2>1. f.who = Last(frames).who /\ f.hits = Last(frames).hits
    BY <1>1, <1>2, <1>3
  <2> QED
    BY <1>1, <1>2, <1>3, <2>1, GoesOn
<1> HIDE DEF fs, n
<1>5. LogOK'
  BY <1>1, <1>3 DEF LogOK, Interruptible
<1>6. CASE frames' = fs
  <2>1. Types' /\ StackOK(frames', step') /\ FramesOK(frames', print_buf')
    BY <1>1, <1>4, <1>6 DEF Core, Types
  <2>2. RoomOK'
    BY <1>1, <1>3, <1>4, <1>6 DEF Core, RoomOK
  <2> QED
    BY <1>5, <2>1, <2>2 DEF Core
<1>7. CASE frames' = Append(Hit(fs, "irq"), Frame("irq"))
  <2>1. Interrupts([who |-> "irq"], Last(fs)) /\ "irq" \in Handlers
    BY <1>3, <1>4 DEF Interrupts, Handlers
  <2>2. /\ frames' \in Seq(Activations) /\ frames'[Len(fs) + 1] = Frame("irq")
        /\ \A k \in DOMAIN fs : frames'[k].at = fs[k].at /\ frames'[k].who = fs[k].who
        /\ DOMAIN frames' = DOMAIN fs \cup {Len(fs) + 1}
        /\ StackOK(frames', step) /\ FramesOK(frames', print_buf)
    BY <1>2, <1>3, <1>4, <1>7, <2>1, HandlerPrints
  <2>3. Frame("irq").at = "format"
    BY DEF Frame
  <2>4. Types' /\ StackOK(frames', step') /\ FramesOK(frames', print_buf')
    BY <1>1, <2>2 DEF Core, Types
  <2>5. RoomOK'
    BY <1>1, <1>3, <1>4, <2>2, <2>3 DEF Core, RoomOK
  <2> QED
    BY <1>5, <2>4, <2>5 DEF Core
<1> QED
  BY <1>1, <1>6, <1>7

\* The devices change only the ends of the line.
LEMMA CoreDevices == Core /\ (Transmit \/ Arrive \/ CharTimeout \/ Gateway \/ Spin \/ UNCHANGED vars) => Core'
<1> SUFFICES ASSUME Core, Transmit \/ Arrive \/ CharTimeout \/ Gateway \/ Spin \/ UNCHANGED vars PROVE Core'
  OBVIOUS
<1>1. UNCHANGED <<step, frames, print_buf, log_buf, g_record, g_record_len, lost>>
  BY DEF Transmit, Arrive, CharTimeout, Gateway, Spin, vars, base, log, out
<1>2. tx \in Seq(Chars) /\ line \in Seq(Chars)
  BY DEF Core, Types
<1>3. /\ tx' \in Seq(Chars) /\ line' \in Seq(Chars) /\ Len(tx') <= Len(tx)
      /\ tx = <<>> => tx' = <<>>
  <2>1. CASE UNCHANGED <<tx, line>>
    BY <1>2, <2>1
  <2>2. CASE tx # <<>> /\ tx' = Tail(tx) /\ (line' = line \/ line' = Append(line, Head(tx)))
    <3>1. Head(tx) \in Chars /\ Tail(tx) \in Seq(Chars) /\ Len(Tail(tx)) = Len(tx) - 1 /\ Len(tx) \in Nat
      BY <1>2, <2>2
    <3>2. Append(line, Head(tx)) \in Seq(Chars)
      BY <1>2, <3>1
    <3>3. line' \in Seq(Chars)
      BY <1>2, <2>2, <3>2
    <3>4. tx' \in Seq(Chars) /\ Len(tx') <= Len(tx)
      BY <2>2, <3>1
    <3> QED
      BY <2>2, <3>3, <3>4
  <2>3. \/ UNCHANGED <<tx, line>>
        \/ tx # <<>> /\ tx' = Tail(tx) /\ (line' = line \/ line' = Append(line, Head(tx)))
    BY DEF Transmit, Arrive, CharTimeout, Gateway, Spin, vars, out
  <2> QED
    BY <2>1, <2>2, <2>3
<1>4. Len(tx) \in Nat /\ Len(tx') \in Nat
  BY <1>2, <1>3
<1>5. Types' /\ StackOK(frames', step') /\ FramesOK(frames', print_buf')
  BY <1>1, <1>3 DEF Core, Types
<1>6. RoomOK'
  BY <1>1, <1>3, <1>4 DEF Core, RoomOK
<1>7. LogOK'
  BY <1>1 DEF Core, LogOK
<1> QED
  BY <1>5, <1>6, <1>7 DEF Core

LEMMA CoreNext == Core /\ [Next]_vars => Core'
BY CoreCallPrintk, CoreUartInit, CoreSwitch, CoreStage2Fault, CoreTakeIrq, CoreFormat, CoreOutput,
   CoreSend, CoreReplay, CoreUartWait, CoreUartWrite, CorePlic, CoreHandleUartIrq, CoreDevices
   DEF Next, Hart

\* uart_send finds room, and uart_init loses no more than a character each time.
THEOREM RoomIsFound == Spec => []TransmitterHasRoom
<1>1. Init => Core
  BY CoreInit
<1>2. Core /\ [Next]_vars => Core'
  BY CoreNext
<1>3. Core => TransmitterHasRoom
  <2> SUFFICES ASSUME Core PROVE TransmitterHasRoom
    OBVIOUS
  <2>1. Len(tx) \in Nat /\ lost \in Nat
    BY DEF Core, Types
  <2> QED
    BY <2>1 DEF Core, RoomOK, TransmitterHasRoom
<1> QED
  BY <1>1, <1>2, <1>3, PTL DEF Spec

\* What is sent out of the shared buffer is the sender's character or a handler's.
THEOREM OnlyHandlersMix == Spec => []MixedOnlyByHandlers
<1>1. Init => Core
  BY CoreInit
<1>2. Core /\ [Next]_vars => Core'
  BY CoreNext
<1>3. Core => MixedOnlyByHandlers
  <2> SUFFICES ASSUME Core, NEW k \in DOMAIN frames, frames[k].who \in Messages, frames[k].todo # <<>>
               PROVE  LET f == frames[k]
                          c == Last(f.todo)
                      IN  /\ f.who \in Handlers => c = Char(f.who, f.i)
                          /\ \/ c = Char(f.who, f.i)
                             \/ \E h \in f.hits : c = Char(h, f.i)
                             \/ c = TheNul /\ \E h \in f.hits : f.i = MsgLen[h] + 1
    BY DEF MixedOnlyByHandlers
  <2> DEFINE f == frames[k]
  <2>1. FrameOK(f)
    BY DEF Core, FramesOK
  <2>2. PICK c \in Chars : f.todo \in {<<c>>, <<CR, c>>} /\ Fits(f, c, f.i)
    BY <2>1 DEF FrameOK
  <2>3. Last(f.todo) = c
    <3>1. Last(<<c>>) = c /\ Last(<<CR, c>>) = c
      BY DEF Last
    <3> QED
      BY <2>2, <3>1
  <2> QED
    BY <2>2, <2>3 DEF Fits
<1> QED
  BY <1>1, <1>2, <1>3, PTL DEF Spec

-----------------------------------------------------------------------------
(* The steps keep EarlyOK.                                                  *)

LEMMA EarlyTypes ==
    /\ Early \in Seq(Chars) /\ Wire("E1") \in Seq(Chars) /\ Wire("E2") \in Seq(Chars)
    /\ \A s \in LeftOver : s \in Seq(Chars) /\ s \o Early \in Seq(Chars)
    /\ LeftOver \subseteq Seq(Chars)
    /\ MsgLen["E1"] \in Nat /\ MsgLen["E2"] \in Nat /\ MsgLen["E1"] > 0 /\ MsgLen["E2"] > 0
<1>1. "E1" \in Messages /\ "E2" \in Messages
  BY DEF Messages
<1>2. Wire("E1") \in Seq(Chars) /\ Wire("E2") \in Seq(Chars)
  BY <1>1, WireType
<1>3. Early \in Seq(Chars)
  BY <1>2, ConcatProperties DEF Early
<1>4. <<"sbi", 1>> \in Chars
  BY DEF Chars
<1>5. <<<<"sbi", 1>>>> \in Seq(Chars) /\ <<>> \in Seq(Chars)
  BY <1>4
<1>6. \A s \in LeftOver : s \in Seq(Chars)
  BY <1>5 DEF LeftOver
<1>7. \A s \in LeftOver : s \o Early \in Seq(Chars)
  BY <1>3, <1>6, ConcatProperties
<1> QED
  BY <1>1, <1>2, <1>3, <1>6, <1>7, Lengths

\* Nothing of it is sent before the replay, and nothing of it is touched after the
\* first message.
LEMMA EarlyStays ==
    ASSUME EarlyOK, UNCHANGED <<step, tx, line>>,
           step = "replay" => /\ frames' # <<>> <=> frames # <<>>
                              /\ frames # <<>> => frames'[1].i = frames[1].i /\ frames'[1].todo = frames[1].todo,
           step = "boot" => \/ frames' = <<>>
                            \/ frames'[1].at # "send"
                            \/ frames'[1].i = 0
    PROVE  EarlyOK'
<1>1. Stream' = Stream
  BY DEF Stream
<1>2. step = "boot" =>
         \E s \in LeftOver :
             /\ IsPrefix(s \o Early, Stream')
             /\ frames' # <<>> /\ frames'[1].at = "send" /\ frames'[1].i > 0 =>
                    Len(s \o Early) < Len(Stream')
  BY <1>1 DEF EarlyOK
<1>3. step = "replay" /\ frames' # <<>> =>
           /\ frames'[1].i <= MsgLen["E1"] + MsgLen["E2"]
           /\ \E s \in LeftOver : Stream' \o frames'[1].todo = s \o Sent(frames'[1].i)
  BY <1>1 DEF EarlyOK
<1>4. /\ step \in {"early1", "init1", "early2"} => Stream' \in LeftOver
      /\ step = "replay" /\ frames' = <<>> => Stream' \in LeftOver
  BY <1>1 DEF EarlyOK
<1>5. step \notin EarlySteps \cup {"boot"} => \E s \in LeftOver : IsPrefix(s \o Early, line')
  BY DEF EarlyOK
<1> QED
  BY <1>2, <1>3, <1>4, <1>5 DEF EarlyOK

\* After the first message the line only grows.
LEMMA EarlyLater ==
    ASSUME EarlyOK, line' = line, {step, step'} \cap (EarlySteps \cup {"boot"}) = {}
    PROVE  EarlyOK'
BY DEF EarlyOK, EarlySteps

LEMMA EarlyInit == Init => EarlyOK
<1> SUFFICES ASSUME Init PROVE EarlyOK
  OBVIOUS
<1>1. tx \in LeftOver /\ line = <<>> /\ step = "early1"
  BY DEF Init, LeftOver
<1>2. <<>> \o tx = tx
  BY <1>1, EarlyTypes
<1> QED
  BY <1>1, <1>2 DEF EarlyOK, Stream, EarlySteps

LEMMA Interruptibles == Interruptible \cap (EarlySteps \cup {"boot"}) = {}
BY DEF Interruptible, EarlySteps

LEMMA EarlySwitch ==
    Core /\ EarlyOK /\ (CallPrintk \/ UartInit \/ EnterGuest \/ Preempt \/ Stage2Fault \/ TakeIrq
                        \/ Claim \/ Complete \/ HandleUartIrq) => EarlyOK'
<1> SUFFICES ASSUME Core, EarlyOK,
                    CallPrintk \/ UartInit \/ EnterGuest \/ Preempt \/ Stage2Fault \/ TakeIrq
                      \/ Claim \/ Complete \/ HandleUartIrq
             PROVE  EarlyOK'
  OBVIOUS
<1>1. CASE CallPrintk
  <2>1. /\ frames = <<>> /\ step \in DOMAIN Prints /\ frames' = Append(Hit(frames, Prints[step][1]), Frame(Prints[step][1]))
        /\ UNCHANGED <<step, tx, line>>
    BY <1>1 DEF CallPrintk, Printk, base, out
  <2>2. step # "replay"
    BY <2>1, PrintsTable
  <2>3. frames'[1].at = "format"
    <3> DEFINE f == Frame(Prints[step][1])
    <3>1. Hit(frames, Prints[step][1]) = <<>>
      BY <2>1 DEF Hit
    <3>2. frames' = Append(<<>>, f) /\ f.at = "format"
      BY <2>1, <3>1 DEF Frame
    <3> HIDE DEF f
    <3>3. Append(<<>>, f)[1] = f
      OBVIOUS
    <3> QED
      BY <3>2, <3>3
  <2> QED
    BY <2>1, <2>2, <2>3, EarlyStays
<1>2. CASE UartInit
  <2>1. /\ step \in {"init1", "init2"} /\ step' = IF step = "init1" THEN "early2" ELSE "last"
        /\ line' = line
    BY <1>2 DEF UartInit
  <2>2. CASE step = "init2"
    <3>1. {step, step'} \cap (EarlySteps \cup {"boot"}) = {}
      BY <2>1, <2>2 DEF EarlySteps
    <3> QED
      BY <2>1, <3>1, EarlyLater
  <2>3. CASE step = "init1"
    <3>1. line \o tx \in LeftOver /\ tx \in Seq(Chars) /\ line \in Seq(Chars)
      BY <2>3 DEF EarlyOK, Stream, Core, Types
    <3>2. PICK kept \in {k \in 0 .. 1 : k <= Len(tx)} : tx' = SubSeq(tx, 1, kept)
      BY <1>2 DEF UartInit
    <3>3. line' \o tx' \in LeftOver
      <4>1. Len(line \o tx) = Len(line) + Len(tx) /\ Len(line) \in Nat /\ Len(tx) \in Nat
        BY <3>1, ConcatProperties
      <4>2. Len(line) + Len(tx) <= 1
        <5>1. Len(<<>>) = 0 /\ Len(<<<<"sbi", 1>>>>) = 1
          OBVIOUS
        <5>2. line \o tx = <<>> \/ line \o tx = <<<<"sbi", 1>>>>
          BY <3>1 DEF LeftOver
        <5> DEFINE u == line \o tx
        <5>3. u = <<>> \/ u = <<<<"sbi", 1>>>>
          BY <5>2
        <5> HIDE DEF u
        <5>4. Len(u) <= 1
          BY <5>1, <5>3, SMTT(30)
        <5> QED
          BY <4>1, <5>4 DEF u
      <4>3. CASE kept = Len(tx)
        <5>1. tx' = tx
          BY <3>1, <3>2, <4>3, SubSeqFull
        <5> QED
          BY <2>1, <3>1, <5>1
      <4>4. CASE kept # Len(tx)
        <5>1. kept = 0 /\ Len(line) = 0
          BY <3>2, <4>1, <4>2, <4>4
        <5>2. SubSeq(tx, 1, 0) = <<>> /\ line = <<>> /\ <<>> \o <<>> = <<>>
          BY <3>1, <5>1
        <5> QED
          BY <2>1, <3>2, <5>1, <5>2 DEF LeftOver
      <4> QED
        BY <4>3, <4>4
    <3> QED
      BY <2>1, <2>3, <3>3 DEF EarlyOK, Stream, EarlySteps
  <2> QED
    BY <2>1, <2>2, <2>3
<1>3. CASE EnterGuest \/ Preempt
  <2>1. line' = line /\ step \in {"enter", "last", "idle"} /\ step' \in {"guest1", "vs"}
    BY <1>3 DEF EnterGuest, Preempt, out
  <2>2. {step, step'} \cap (EarlySteps \cup {"boot"}) = {}
    BY <2>1 DEF EarlySteps
  <2> QED
    BY <2>1, <2>2, EarlyLater
<1>4. CASE Stage2Fault \/ TakeIrq \/ Claim \/ Complete \/ HandleUartIrq
  <2>1. step \in Interruptible
    <3>1. CASE TakeIrq
      BY <3>1, InterruptsAre DEF TakeIrq
    <3>2. CASE Stage2Fault
      BY <3>2, CoreTop, GuestRuns DEF Stage2Fault, Top
    <3>3. CASE Claim \/ Complete \/ HandleUartIrq
      BY <3>3, CoreTop, GuestRuns DEF Claim, Complete, HandleUartIrq, Running, Top
    <3> QED
      BY <1>4, <3>1, <3>2, <3>3
  <2>2. line' = line /\ step' = step
    BY <1>4 DEF Stage2Fault, TakeIrq, Claim, Complete, HandleUartIrq, base, out
  <2> QED
    BY <2>1, <2>2, Interruptibles, EarlyLater
<1> QED
  BY <1>1, <1>2, <1>3, <1>4

\* With interrupts off there is one activation.
LEMMA Alone ==
    ASSUME Core, frames # <<>>, step \notin Interruptible
    PROVE  /\ frames[1] = Top /\ Top.who \in Base /\ Outermost(Top, step) /\ Front(frames) = <<>>
           /\ DOMAIN frames = {1} /\ Len(frames) = 1
           /\ \A f : frames' = Append(Front(frames), f) => frames' # <<>> /\ frames'[1] = f
<1>1. /\ frames \in Seq(Activations) /\ Len(frames) = 1 /\ Top = frames[Len(frames)] /\ Top.who \in Base
      /\ Outermost(Top, step) /\ DOMAIN frames = 1 .. Len(frames)
  BY CoreTop
<1> DEFINE gs == Front(frames)
<1>2. gs \in Seq(Activations) /\ Len(gs) = 0
  BY <1>1, Popped
<1> HIDE DEF gs
<1>3. gs = <<>>
  BY <1>2
<1>4. \A f : Append(<<>>, f) # <<>> /\ Append(<<>>, f)[1] = f
  OBVIOUS
<1> QED
  BY <1>1, <1>3, <1>4 DEF gs

\* Whose the one activation is.
LEMMA AloneIn ==
    ASSUME Core, frames # <<>>, step \notin Interruptible
    PROVE  /\ step \in {"early1", "early2", "boot", "replay"}
           /\ Top.who \in Messages <=> step # "replay"
           /\ Top.at \notin {"format", "output"} => step \in {"boot", "replay"}
<1>1. /\ frames[1] = Top /\ Top.who \in Base /\ Outermost(Top, step) /\ DOMAIN frames = {1}
  BY Alone
<1>2. step \in {"early1", "early2", "boot", "replay"}
  BY <1>1, PrintsTable DEF Outermost, Base, Interruptible, Messages, Handlers
<1>3. Top.who \in Messages <=> step # "replay"
  BY <1>1, PrintsTable DEF Outermost, Base, Messages, Handlers
<1>4. Top.at \notin {"format", "output"} => step \in {"boot", "replay"}
  BY <1>1, <1>2 DEF Core, LogOK
<1> QED
  BY <1>2, <1>3, <1>4

LEMMA EarlyFormat == Core /\ EarlyOK /\ Format => EarlyOK'
<1> SUFFICES ASSUME Core, EarlyOK, Format PROVE EarlyOK'
  OBVIOUS
<1>1. UNCHANGED <<step, tx, line>> /\ frames # <<>> /\ Top.who \in Messages /\ Top.at = "format"
  BY DEF Format, Running, base, out
<1>2. CASE step \in Interruptible
  BY <1>1, <1>2, Interruptibles, EarlyLater
<1>3. CASE step \notin Interruptible
  <2>1. step # "replay"
    BY <1>1, <1>3, AloneIn
  <2>2. frames'[1].at # "send"
    <3> DEFINE f == IF Top.i < MsgLen[Top.who] THEN [Top EXCEPT !.i = @ + 1]
                    ELSE [Top EXCEPT !.i = 0, !.at = "output"]
    <3>1. frames' = Append(Front(frames), f)
      BY DEF Format, SetTop
    <3>2. Top \in Activations
      BY <1>1, CoreTop
    <3>3. f.at \in {"format", "output"}
      BY <1>1, <3>2 DEF Activations
    <3> HIDE DEF f
    <3>4. frames'[1] = f
      BY <1>1, <1>3, <3>1, Alone
    <3> QED
      BY <3>3, <3>4
  <2> QED
    BY <1>1, <2>1, <2>2, EarlyStays
<1> QED
  BY <1>2, <1>3

LEMMA EarlyOutput == Core /\ EarlyOK /\ Output => EarlyOK'
<1> SUFFICES ASSUME Core, EarlyOK, Output PROVE EarlyOK'
  OBVIOUS
<1>1. UNCHANGED <<tx, line>> /\ frames # <<>> /\ Top.who \in Messages /\ Top.at = "output"
  BY DEF Output, Running, out
<1>2. CASE step \in EarlySteps
  <2>1. step \notin Interruptible
    BY <1>2 DEF EarlySteps, Interruptible
  <2>2. Len(frames) = 1 /\ Front(frames) = <<>> /\ step \in {"early1", "early2"}
    BY <1>1, <1>2, <2>1, Alone, AloneIn DEF EarlySteps
  <2>3. frames' = <<>> /\ step' = Prints[step][2]
    BY <1>2, <2>2 DEF Output, Return
  <2>4. step' \in {"init1", "replay"}
    BY <2>2, <2>3 DEF Prints
  <2>5. Stream' \in LeftOver
    BY <1>1, <2>2 DEF EarlyOK, Stream
  <2> QED
    BY <2>3, <2>4, <2>5 DEF EarlyOK, EarlySteps
<1>3. CASE step \notin EarlySteps
  <2> DEFINE f == [Top EXCEPT !.at = "send"]
  <2>1. frames' = Append(Front(frames), f) /\ step' = step
    BY <1>3 DEF Output, SetTop, base
  <2>2. Top \in Activations /\ FrameOK(Top)
    BY <1>1, CoreTop
  <2>3. f.i = 0
    BY <1>1, <2>2 DEF FrameOK, Activations
  <2> HIDE DEF f
  <2>4. CASE step \in Interruptible
    BY <1>1, <2>1, <2>4, Interruptibles, EarlyLater
  <2>5. CASE step \notin Interruptible
    <3>1. frames'[1].i = 0
      BY <1>1, <2>1, <2>3, <2>5, Alone
    <3>2. step # "replay"
      BY <1>3 DEF EarlySteps
    <3> QED
      BY <1>1, <2>1, <3>1, <3>2, EarlyStays
  <2> QED
    BY <2>4, <2>5
<1> QED
  BY <1>2, <1>3

LEMMA EarlySend == Core /\ EarlyOK /\ Send => EarlyOK'
<1> SUFFICES ASSUME Core, EarlyOK, Send PROVE EarlyOK'
  OBVIOUS
<1>1. /\ UNCHANGED <<tx, line, print_buf>> /\ frames # <<>> /\ Top.who \in Messages /\ Top.at = "send"
      /\ line \in Seq(Chars) /\ tx \in Seq(Chars)
  BY DEF Send, Running, out, Core, Types
<1>2. Top \in Activations /\ MsgLen[Top.who] \in Nat /\ MsgLen[Top.who] > 0
  BY <1>1, CoreTop, Lengths
<1>3. CASE Top.i < MsgLen[Top.who]
  <2> DEFINE f == [Top EXCEPT !.i = @ + 1, !.at = "wait", !.todo = PutChar(print_buf[Top.i + 1])]
  <2>1. frames' = Append(Front(frames), f) /\ step' = step
    BY <1>3 DEF Send, SetTop, base
  <2>2. f.at = "wait"
    BY <1>2 DEF Activations
  <2> HIDE DEF f
  <2>3. CASE step \in Interruptible
    BY <1>1, <2>1, <2>3, Interruptibles, EarlyLater
  <2>4. CASE step \notin Interruptible
    <3>1. frames'[1].at = "wait"
      BY <1>1, <2>1, <2>2, <2>4, Alone
    <3>2. step # "replay"
      BY <1>1, <2>4, AloneIn
    <3> QED
      BY <1>1, <2>1, <3>1, <3>2, EarlyStays
  <2> QED
    BY <2>3, <2>4
<1>4. CASE ~(Top.i < MsgLen[Top.who])
  <2>1. Return
    BY <1>4 DEF Send
  <2>2. \/ frames' # <<>> /\ step' = step
        \/ frames' = <<>> /\ step \in DOMAIN Prints /\ step' = Prints[step][2]
    BY <1>1, <2>1, CoreReturns
  <2>3. CASE step \in Interruptible
    <3>1. step' \in Interruptible
      BY <2>2, <2>3, PrintsTable DEF Prints, Interruptible
    <3> QED
      BY <1>1, <2>3, <3>1, Interruptibles, EarlyLater
  <2>4. CASE step \notin Interruptible
    <3>1. step = "boot" /\ frames[1] = Top /\ Len(frames) = 1
      BY <1>1, <2>4, Alone, AloneIn
    <3>2. step' = "init2"
      BY <2>1, <3>1 DEF Return, Prints
    <3>3. Top.i > 0
      BY <1>2, <1>4 DEF Activations
    <3>4. PICK s \in LeftOver : IsPrefix(s \o Early, Stream) /\ Len(s \o Early) < Len(Stream)
      BY <1>1, <3>1, <3>3 DEF EarlyOK
    <3>5. Len(tx) <= 1 /\ Len(tx) \in Nat /\ Len(line) \in Nat /\ Len(line \o tx) = Len(line) + Len(tx)
      BY <1>1, <2>4 DEF Core, RoomOK
    <3>6. s \o Early \in Seq(Chars) /\ Len(s \o Early) \in Nat
      BY EarlyTypes
    <3> DEFINE p == s \o Early
    <3>7. IsPrefix(p, line \o tx) /\ Len(p) <= Len(line) /\ p \in Seq(Chars)
      BY <3>4, <3>5, <3>6 DEF Stream
    <3> HIDE DEF p
    <3>8. IsPrefix(p, line)
      BY <1>1, <3>7, PrefixOfFront
    <3>9. IsPrefix(s \o Early, line')
      BY <1>1, <3>8 DEF p
    <3> QED
      BY <3>2, <3>9 DEF EarlyOK, EarlySteps
  <2> QED
    BY <2>3, <2>4
<1> QED
  BY <1>3, <1>4

LEMMA EarlyUartWait == Core /\ EarlyOK /\ UartWait => EarlyOK'
<1> SUFFICES ASSUME Core, EarlyOK, UartWait PROVE EarlyOK'
  OBVIOUS
<1> DEFINE f == [Top EXCEPT !.at = "write"]
<1>1. /\ frames # <<>> /\ frames' = Append(Front(frames), f) /\ UNCHANGED <<step, tx, line>>
  BY DEF UartWait, Sending, SetTop, base, out
<1>2. Top \in Activations
  BY <1>1, CoreTop
<1>3. f.at = "write" /\ f.i = Top.i /\ f.todo = Top.todo
  BY <1>2 DEF Activations
<1> HIDE DEF f
<1>4. CASE step \in Interruptible
  BY <1>1, <1>4, Interruptibles, EarlyLater
<1>5. CASE step \notin Interruptible
  <2>1. frames' # <<>> /\ frames'[1] = f /\ frames[1] = Top
    BY <1>1, <1>5, Alone
  <2> QED
    BY <1>1, <1>3, <2>1, EarlyStays
<1> QED
  BY <1>4, <1>5

LEMMA CharsAssociate == \A a, b, d \in Seq(Chars) : (a \o b) \o d = a \o (b \o d)
BY ConcatAssociative

\* The first of the characters t goes into the transmitter x, behind the line l.
LEMMA Moved ==
    ASSUME NEW l \in Seq(Chars), NEW x \in Seq(Chars), NEW c \in Chars, NEW t \in {<<c>>, <<CR, c>>}
    PROVE  /\ (l \o Append(x, Head(t))) \o Tail(t) = (l \o x) \o t
           /\ l \o Append(x, Head(t)) = (l \o x) \o <<Head(t)>>
           /\ <<Head(t)>> \in Seq(Chars)
<1> DEFINE h == Head(t)
           r == Tail(t)
           e == <<h>>
<1>1. h \in Chars /\ r \in Seq(Chars)
  BY Writes
<1>2. e \o r = t
  <2>1. CASE t = <<c>>
    <3>1. h = c /\ r = <<>> /\ <<c>> \o <<>> = <<c>>
      BY <2>1
    <3> QED
      BY <2>1, <3>1
  <2>2. CASE t = <<CR, c>>
    <3>1. h = CR /\ r = <<c>> /\ <<CR, c>> = <<CR>> \o <<c>>
      BY <2>2
    <3> QED
      BY <2>2, <3>1
  <2> QED
    BY <2>1, <2>2
<1> HIDE DEF h, r
<1>3. e \in Seq(Chars)
  BY <1>1
<1>4. Append(x, h) = x \o e
  BY <1>1, AppendIsConcat
<1> HIDE DEF e
<1>6. l \o x \in Seq(Chars)
  BY ConcatProperties
<1>7. l \o (x \o e) = (l \o x) \o e
  BY <1>3, CharsAssociate, Zenon
<1>8. ((l \o x) \o e) \o r = (l \o x) \o (e \o r)
  BY <1>1, <1>3, <1>6, CharsAssociate, Zenon
<1>9. <<Head(t)>> = e /\ h = Head(t) /\ r = Tail(t)
  BY DEF e, h, r
<1> QED
  BY <1>2, <1>3, <1>4, <1>7, <1>8, <1>9, Zenon

LEMMA EarlyUartWrite == Core /\ EarlyOK /\ UartWrite => EarlyOK'
<1> SUFFICES ASSUME Core, EarlyOK, UartWrite PROVE EarlyOK'
  OBVIOUS
<1> DEFINE f == [Top EXCEPT !.todo = Tail(@), !.at = IF Len(Top.todo) = 1 THEN "send" ELSE "wait"]
<1>1. /\ frames # <<>> /\ Top.at = "write" /\ tx' = Append(tx, Head(Top.todo))
      /\ frames' = Append(Front(frames), f) /\ UNCHANGED <<step, line>>
  BY DEF UartWrite, Sending, SetTop, base
<1>2. Top \in Activations /\ FrameOK(Top) /\ line \in Seq(Chars) /\ tx \in Seq(Chars)
  BY <1>1, CoreTop DEF Core, Types
<1>3. PICK c \in Chars : Top.todo \in {<<c>>, <<CR, c>>}
  BY <1>1, <1>2 DEF FrameOK
<1>4. /\ (line \o tx') \o Tail(Top.todo) = Stream \o Top.todo
      /\ line \o tx' = Stream \o <<Head(Top.todo)>>
      /\ <<Head(Top.todo)>> \in Seq(Chars)
  BY <1>1, <1>2, <1>3, Moved, ZenonT(30) DEF Stream
<1>5. f.i = Top.i /\ f.todo = Tail(Top.todo)
  BY <1>2 DEF Activations
<1> HIDE DEF f
<1>6. Stream \in Seq(Chars) /\ Stream' = line \o tx'
  BY <1>1, <1>2, ConcatProperties DEF Stream
<1>7. CASE step \in Interruptible
  BY <1>1, <1>7, Interruptibles, EarlyLater
<1>8. CASE step \notin Interruptible
  <2>1. frames' # <<>> /\ frames'[1] = f /\ frames[1] = Top /\ step \in {"boot", "replay"}
    BY <1>1, <1>8, Alone, AloneIn
  <2>2. CASE step = "replay"
    <3>1. /\ Top.i <= MsgLen["E1"] + MsgLen["E2"]
          /\ \E s \in LeftOver : Stream \o Top.todo = s \o Sent(Top.i)
      BY <1>1, <2>1, <2>2 DEF EarlyOK
    <3>2. Stream' \o f.todo = Stream \o Top.todo
      BY <1>4, <1>5, <1>6
    <3>3. \E s \in LeftOver : Stream' \o frames'[1].todo = s \o Sent(frames'[1].i)
      BY <1>5, <2>1, <3>1, <3>2
    <3>4. step' = "replay" /\ frames'[1].i <= MsgLen["E1"] + MsgLen["E2"]
      BY <1>1, <1>5, <2>1, <2>2, <3>1
    <3> QED
      BY <2>1, <3>3, <3>4 DEF EarlyOK, EarlySteps
  <2>3. CASE step = "boot"
    <3>1. PICK s \in LeftOver : IsPrefix(s \o Early, Stream)
      BY <2>3 DEF EarlyOK
    <3> DEFINE p == s \o Early
               u == Stream
               e == <<Head(Top.todo)>>
    <3>2. p \in Seq(Chars) /\ u \in Seq(Chars) /\ e \in Seq(Chars) /\ IsPrefix(p, u) /\ Len(e) = 1
      BY <1>4, <1>6, <3>1, EarlyTypes
    <3> HIDE DEF p, u, e
    <3>3. IsPrefix(p, u \o e)
      BY <3>2, PrefixGrows
    <3>4. Len(p) <= Len(u) /\ Len(p) \in Nat /\ Len(u) \in Nat /\ Len(u \o e) = Len(u) + 1
      <4>1. Len(p) <= Len(u)
        BY <3>2, PrefixPointwise
      <4>2. Len(u \o e) = Len(u) + Len(e)
        BY <3>2, ConcatProperties
      <4> QED
        BY <3>2, <4>1, <4>2
    <3>5. Len(p) < Len(u \o e)
      BY <3>4
    <3>6. Stream' = u \o e
      BY <1>4, <1>6 DEF u, e
    <3>7. IsPrefix(s \o Early, Stream') /\ Len(s \o Early) < Len(Stream')
      BY <3>3, <3>5, <3>6 DEF p
    <3>8. step' = "boot"
      BY <1>1, <2>3
    <3> QED
      BY <3>7, <3>8 DEF EarlyOK, EarlySteps
  <2> QED
    BY <2>1, <2>2, <2>3
<1> QED
  BY <1>7, <1>8

LEMMA SentEnds ==
    /\ Sent(0) = <<>>
    /\ Sent(MsgLen["E1"] + MsgLen["E2"]) = Early
<1>1. MsgLen["E1"] \in Nat /\ MsgLen["E2"] \in Nat /\ MsgLen["E1"] > 0 /\ MsgLen["E2"] > 0
  BY EarlyTypes
<1>2. Text("E1") \in Seq(Chars)
  BY TextFacts DEF Messages
<1>3. SubSeq(Text("E1"), 1, 0) = <<>>
  BY <1>2
<1>4. Sent(0) = <<>>
  BY <1>1, <1>3 DEF Sent
<1>5. Sent(MsgLen["E1"] + MsgLen["E2"]) = Early
  BY <1>1 DEF Sent, Early
<1> QED
  BY <1>4, <1>5

LEMMA EarlyReplay == Core /\ EarlyOK /\ Replay => EarlyOK'
<1> SUFFICES ASSUME Core, EarlyOK, Replay PROVE EarlyOK'
  OBVIOUS
<1> DEFINE n == MsgLen["E1"] + MsgLen["E2"]
<1>1. /\ step = "replay" /\ step \notin Interruptible /\ UNCHANGED <<tx, line>>
      /\ log_buf = Text("E1") \o Text("E2") /\ g_record_len = n
      /\ line \in Seq(Chars) /\ tx \in Seq(Chars)
  BY DEF Replay, out, Interruptible, Core, LogOK, Types
<1>2. Stream' = Stream /\ Stream \in Seq(Chars)
  BY <1>1, ConcatProperties DEF Stream
<1>3. CASE frames = <<>>
  <2>1. frames' = <<[Frame("replay") EXCEPT !.at = "send"]>> /\ step' = "replay"
    BY <1>1, <1>3 DEF Replay, base
  <2>2. frames' # <<>> /\ frames'[1].i = 0 /\ frames'[1].todo = <<>>
    BY <2>1 DEF Frame
  <2>3. Stream \in LeftOver /\ Stream \o <<>> = Stream
    BY <1>1, <1>2, <1>3 DEF EarlyOK
  <2>4. Stream' \o frames'[1].todo = Stream \o Sent(frames'[1].i)
    BY <1>2, <2>2, SentEnds
  <2>5. frames'[1].i <= n
    BY <2>2, EarlyTypes
  <2> QED
    BY <2>1, <2>2, <2>3, <2>4, <2>5 DEF EarlyOK, EarlySteps
<1>4. CASE frames # <<>>
  <2>1. frames[1] = Top /\ Top \in Activations /\ FrameOK(Top) /\ Top.at = "send"
    BY <1>1, <1>4, CoreTop, Alone DEF Replay
  <2>2. Top.todo = <<>> /\ Top.i \in Nat
    BY <2>1 DEF FrameOK, Activations
  <2>3. Top.i <= n /\ \E s \in LeftOver : Stream \o Top.todo = s \o Sent(Top.i)
    BY <1>1, <1>4, <2>1 DEF EarlyOK
  <2>4. Stream \o <<>> = Stream
    BY <1>2
  <2>5. PICK s \in LeftOver : Stream = s \o Sent(Top.i)
    BY <2>2, <2>3, <2>4
  <2>6. CASE Top.i < n
    <3> DEFINE c == log_buf[Top.i + 1]
               f == [Top EXCEPT !.i = @ + 1, !.at = "wait", !.todo = PutChar(c)]
    <3>1. frames' = Append(Front(frames), f) /\ step' = "replay"
      BY <1>1, <1>4, <2>6 DEF Replay, SetTop, base
    <3>2. frames' # <<>> /\ frames'[1] = f
      BY <1>1, <1>4, <3>1, Alone
    <3>3. /\ Sent(Top.i) \in Seq(Chars) /\ PutChar(c) \in Seq(Chars)
          /\ Sent(Top.i) \o PutChar(c) = Sent(Top.i + 1)
      BY <1>1, <2>2, <2>6, SentNext
    <3> HIDE DEF c
    <3>4. f.i = Top.i + 1 /\ f.todo = PutChar(c)
      BY <2>1 DEF Activations
    <3> HIDE DEF f
    <3>5. s \in Seq(Chars)
      BY EarlyTypes
    <3>6. (s \o Sent(Top.i)) \o PutChar(c) = s \o (Sent(Top.i) \o PutChar(c))
      BY <3>3, <3>5, CharsAssociate, Zenon
    <3>7. Stream' \o f.todo = s \o Sent(f.i)
      BY <1>2, <2>5, <3>3, <3>4, <3>6
    <3>8. f.i <= n
      BY <2>2, <2>6, <3>4, EarlyTypes
    <3> QED
      BY <3>1, <3>2, <3>7, <3>8 DEF EarlyOK, EarlySteps
  <2>7. CASE ~(Top.i < n)
    <3>1. frames' = <<>> /\ step' = "boot"
      BY <1>1, <1>4, <2>7 DEF Replay
    <3>2. Top.i = n
      <4>1. n \in Nat /\ Top.i <= n
        BY <2>3, EarlyTypes
      <4> HIDE DEF n
      <4> QED
        BY <2>2, <2>7, <4>1
    <3>3. Stream' = s \o Early
      BY <1>2, <2>5, <3>2, SentEnds
    <3>4. s \o Early \in Seq(Chars)
      BY EarlyTypes
    <3>5. IsPrefix(s \o Early, Stream')
      <4> DEFINE p == s \o Early
      <4>1. p \in Seq(Chars) /\ Len(p) <= Len(p)
        BY <3>4
      <4> HIDE DEF p
      <4>2. IsPrefix(p, p)
        BY <4>1, PrefixPointwise
      <4> QED
        BY <3>3, <4>2 DEF p
    <3> QED
      BY <3>1, <3>5 DEF EarlyOK, EarlySteps
  <2> QED
    BY <2>6, <2>7
<1> QED
  BY <1>3, <1>4

LEMMA EarlyDevices ==
    Core /\ EarlyOK /\ (Transmit \/ Arrive \/ CharTimeout \/ Gateway \/ Spin \/ UNCHANGED vars) => EarlyOK'
<1> SUFFICES ASSUME Core, EarlyOK,
                    Transmit \/ Arrive \/ CharTimeout \/ Gateway \/ Spin \/ UNCHANGED vars
             PROVE  EarlyOK'
  OBVIOUS
<1>1. UNCHANGED <<step, frames>> /\ line \in Seq(Chars) /\ tx \in Seq(Chars)
  BY DEF Transmit, Arrive, CharTimeout, Gateway, Spin, vars, base, Core, Types
<1>2. CASE UNCHANGED <<line, tx>>
  BY <1>1, <1>2 DEF EarlyOK, Stream
<1>3. CASE Transmit /\ step \in EarlySteps \cup {"boot"}
  <2>1. tx # <<>> /\ tx' = Tail(tx) /\ line' = Append(line, Head(tx))
    BY <1>3 DEF Transmit
  <2>2. Stream' = Stream
    <3> DEFINE h == Head(tx)
               r == Tail(tx)
               e == <<h>>
    <3>1. h \in Chars /\ r \in Seq(Chars) /\ e \in Seq(Chars)
      BY <1>1, <2>1
    <3>2. e \o r = tx
      <4> DEFINE u == e \o r
      <4>1. /\ Len(e) = 1 /\ e[1] = tx[1] /\ Len(r) = Len(tx) - 1 /\ Len(tx) \in Nat /\ Len(tx) > 0
            /\ \A k \in 1 .. Len(tx) - 1 : r[k] = tx[k + 1]
        BY <1>1, <2>1
      <4> HIDE DEF e, r
      <4>2. /\ u \in Seq(Chars) /\ Len(u) = Len(e) + Len(r)
            /\ \A k \in 1 .. Len(e) + Len(r) : u[k] = IF k <= Len(e) THEN e[k] ELSE r[k - Len(e)]
        BY <3>1, ConcatProperties
      <4> HIDE DEF u
      <4>3. Len(u) = Len(tx)
        BY <4>1, <4>2
      <4>4. ASSUME NEW k \in 1 .. Len(u) PROVE u[k] = tx[k]
        <5>1. CASE k = 1
          BY <4>1, <4>2, <5>1
        <5>2. CASE k # 1
          <6>1. k - 1 \in 1 .. Len(tx) - 1 /\ (k - 1) + 1 = k
            BY <4>1, <4>3, <5>2
          <6>2. u[k] = r[k - 1] /\ r[k - 1] = tx[(k - 1) + 1]
            BY <4>1, <4>2, <4>3, <5>2, <6>1
          <6> QED
            BY <6>1, <6>2
        <5> QED
          BY <5>1, <5>2
      <4>5. u = tx
        BY <1>1, <4>2, <4>3, <4>4, SeqEqual
      <4> QED
        BY <4>5 DEF u
    <3>3. Append(line, h) = line \o e
      BY <1>1, <3>1, AppendIsConcat
    <3> HIDE DEF e, r
    <3>4. (line \o e) \o r = line \o (e \o r)
      BY <1>1, <3>1, CharsAssociate, Zenon
    <3> QED
      BY <2>1, <3>2, <3>3, <3>4 DEF Stream, r
  <2> QED
    BY <1>1, <1>3, <2>2 DEF EarlyOK
<1>4. CASE Transmit /\ step \notin EarlySteps \cup {"boot"}
  <2>1. line' = line
    BY <1>4 DEF Transmit
  <2> QED
    BY <1>1, <1>4, <2>1 DEF EarlyOK, EarlySteps
<1> QED
  BY <1>2, <1>3, <1>4 DEF Arrive, CharTimeout, Gateway, Spin, vars, out

LEMMA EarlyNext == Core /\ EarlyOK /\ [Next]_vars => EarlyOK'
BY EarlySwitch, EarlyFormat, EarlyOutput, EarlySend, EarlyReplay, EarlyUartWait, EarlyUartWrite,
   EarlyDevices DEF Next, Hart

\* kernel.c:529: the log is on the line, whole and in order, before anything else.
THEOREM LogComesFirst == Spec => []EarlyLogWhole
<1>1. Init => IInv
  BY CoreInit, EarlyInit DEF IInv
<1>2. IInv /\ [Next]_vars => IInv'
  BY CoreNext, EarlyNext DEF IInv
<1>3. IInv => EarlyLogWhole
  <2> SUFFICES ASSUME IInv, step \notin EarlySteps
               PROVE  \E left_over \in LeftOver :
                        IsPrefix(left_over \o Wire("E1") \o Wire("E2"), line \o tx)
    BY DEF EarlyLogWhole, LeftOver
  <2>1. line \in Seq(Chars) /\ tx \in Seq(Chars)
    BY DEF IInv, Core, Types
  <2>2. PICK s \in LeftOver : IsPrefix(s \o Early, line \o tx)
    <3>1. CASE step = "boot"
      BY <3>1 DEF IInv, EarlyOK, Stream
    <3>2. CASE step # "boot"
      <4>1. PICK s \in LeftOver : IsPrefix(s \o Early, line)
        BY <3>2 DEF IInv, EarlyOK
      <4> DEFINE p == s \o Early
      <4>2. p \in Seq(Chars) /\ IsPrefix(p, line)
        BY <4>1, EarlyTypes
      <4> HIDE DEF p
      <4>3. IsPrefix(p, line \o tx)
        BY <2>1, <4>2, PrefixGrows
      <4> QED
        BY <4>3 DEF p
    <3> QED
      BY <3>1, <3>2
  <2>3. s \o Early = s \o Wire("E1") \o Wire("E2")
    <3>1. s \in Seq(Chars) /\ Wire("E1") \in Seq(Chars) /\ Wire("E2") \in Seq(Chars)
      BY EarlyTypes
    <3> QED
      BY <3>1, CharsAssociate, Zenon DEF Early
  <2> QED
    BY <2>2, <2>3
<1> QED
  BY <1>1, <1>2, <1>3, PTL DEF Spec

=============================================================================
