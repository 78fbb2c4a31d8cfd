------------------------------- MODULE Memset -------------------------------
(***************************************************************************)
(* memset: bytes up to the next multiple of 16, 16-byte blocks of two      *)
(* doubleword stores, the rest in bytes.  Counts stay below 2^31, where    *)
(* the signed counter of the block loop ends.                              *)
(***************************************************************************)
EXTENDS Integers

CONSTANTS MemEnd,   \* memory is 0 .. MemEnd - 1
          Fills     \* what memset is called with: s, c, count

VARIABLES memory,     \* byte at each address, -1 as long as nobody wrote it
          misaligned, \* a doubleword store met an address that is no multiple of 8
          fill        \* the calls so far, at most one

vars == <<memory, misaligned, fill>>

ALIGN == 16

(* __memset_1bytes, and the two stores of one round of the block loop.     *)
Bytes(m, p, c, count) ==
  [a \in DOMAIN m |-> IF a \in p .. p + count - 1 THEN c % 256 ELSE m[a]]

(* The block loop tests its counter at the end: one round at the least.    *)
Rounds(count) == IF count <= ALIGN THEN 1 ELSE (count + ALIGN - 1) \div ALIGN

(* Mutant: the head is as long as the address is past the last boundary.   *)
X_Head(s, count) ==
  LET past == s % ALIGN
  IN  IF past > count THEN count ELSE past

(* The bytes before the first boundary, no more than there are.            *)
Head(s, count) ==
  LET past == s % ALIGN
      size == IF past = 0 THEN 0 ELSE ALIGN - past
  IN  IF size > count THEN count ELSE size

Init == /\ memory = [a \in 0 .. MemEnd - 1 |-> -1]
        /\ misaligned = FALSE
        /\ fill = {}

memset ==
  \E f \in Fills :
    LET head == Head(f.s, f.count)
        p == f.s + head
        left == f.count - head
        n == left \div ALIGN
        headed == Bytes(memory, f.s, f.c, head)
    IN  /\ fill = {}
        /\ fill' = {f}
        /\ IF left >= ALIGN
           THEN /\ memory' = Bytes(Bytes(headed, p, f.c, ALIGN * Rounds(ALIGN * n)),
                                   p + ALIGN * n, f.c, left % ALIGN)
                /\ misaligned' = (p % 8 # 0)
           ELSE /\ memory' = Bytes(headed, p, f.c, left)
                /\ UNCHANGED misaligned

Next == memset
Spec == Init /\ [][Next]_vars

(* Exactly count bytes from s hold c, for every start and length around the
   16-byte boundaries, and doublewords are stored aligned.                 *)
FilledExactly ==
  \A f \in fill :
    /\ ~misaligned
    /\ \A a \in DOMAIN memory :
         memory[a] = IF a \in f.s .. f.s + f.count - 1 THEN f.c % 256 ELSE -1
=============================================================================
