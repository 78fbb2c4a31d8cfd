----------------------------- MODULE StackTrace -----------------------------
(***************************************************************************)
(* walk_stackframe: the back trace of an Oops.  Addresses count words of 8 *)
(* bytes, the kernel's text below its stacks.  A function that is called   *)
(* at sp stores the return address and the caller's frame pointer in the   *)
(* two words below sp and makes sp its frame pointer; struct stackframe is *)
(* these two words.                                                        *)
(***************************************************************************)
EXTENDS Integers, Sequences

CONSTANTS TextEnd,  \* the text is 1 .. TextEnd - 1, the stack above it
          Top,      \* the stack is TextEnd .. Top - 1
          Sizes,    \* of stack frames, in words
          Sites     \* addresses in the text where a function calls another

VARIABLES mem,      \* the words of the stack
          pc, sp, fp,
          chain,    \* where each running function is, the innermost first
          smashed   \* a stray store has hit the stack

vars == <<mem, pc, sp, fp, chain, smashed>>

Stack == TextEnd .. Top - 1
KernelText(a) == 1 <= a /\ a < TextEnd
Load(a) == IF a \in Stack THEN mem[a] ELSE 0

(* A thread starts with fork.c's fn in s0, the main thread with what the
   firmware left there; both lie below the stack.                          *)
Init == /\ mem = [a \in Stack |-> 0]
        /\ sp = Top /\ fp \in {0, 1} /\ pc \in Sites
        /\ chain = <<pc>>
        /\ smashed = FALSE

CallFunction ==
  \E size \in Sizes, site \in Sites :
    /\ sp - size >= TextEnd
    /\ mem' = [mem EXCEPT ![sp - 1] = pc + 1, ![sp - 2] = fp]
    /\ fp' = sp /\ sp' = sp - size /\ pc' = site
    /\ chain' = <<site>> \o chain
    /\ UNCHANGED smashed

(* The fault that is reported may follow a store to a wrong address.       *)
StrayStore == \E a \in sp .. Top - 1, v \in 0 .. Top :
                /\ ~smashed
                /\ mem' = [mem EXCEPT ![a] = v]
                /\ smashed' = TRUE
                /\ UNCHANGED <<pc, sp, fp, chain>>

Next == CallFunction \/ StrayStore
Spec == Init /\ [][Next]_vars

-----------------------------------------------------------------------------
(* Mutant: any aligned fp that is not below sp will do.                    *)
X_ValidFp(f, s) == f >= s /\ f % 2 = 0

(* The test of fp, which leaves room for one frame between sp and fp.      *)
ValidFp(f, s) == f >= s + 2 /\ f % 2 = 0

(* The loop: a place in the text is shown, and the two words below a valid
   frame pointer lead to the caller.  It runs at most once for every two words
   of the stack and once more: past that it goes round in circles.         *)
MostFrames == (Top - TextEnd) \div 2 + 1
Trace ==
  LET Round(w) ==
        IF w.done \/ ~KernelText(w.p) THEN [w EXCEPT !.done = TRUE]
        ELSE IF ValidFp(w.f, w.s)
             THEN [p |-> Load(w.f - 1) - 1, s |-> w.f, f |-> Load(w.f - 2),
                   shown |-> Append(w.shown, w.p), done |-> FALSE]
             ELSE [w EXCEPT !.shown = Append(@, w.p), !.done = TRUE]
      rounds[k \in 0 .. MostFrames + 1] ==
        IF k = 0 THEN [p |-> pc, s |-> sp, f |-> fp, shown |-> <<>>, done |-> FALSE]
        ELSE Round(rounds[k - 1])
  IN  rounds[MostFrames + 1].shown

(* An Oops shows the calls that led to it, from the innermost to the stub
   that started the thread; and when a stray store has broken the chain of
   frames the walk still ends.                                             *)
TraceIsTheCallChain ==
  /\ ~smashed => Trace = chain
  /\ Len(Trace) <= MostFrames
=============================================================================
