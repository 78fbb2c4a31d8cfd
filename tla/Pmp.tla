-------------------------------- MODULE Pmp --------------------------------
(***************************************************************************)
(* sbi_set_pmp: the firmware's access rules for the modes below it.  Each  *)
(* call gives one entry a region of a power of two bytes and leaves the    *)
(* seven others in the shared configuration register alone.  The source's  *)
(* 64-bit words are XLEN bits here.                                        *)
(***************************************************************************)
EXTENDS Integers, FiniteSets

CONSTANTS XLEN,       \* RISCV_XLEN
          Requests,   \* what sbi_set_pmp is called with: reg, start, size, prot
          MaxRequests \* bound on the calls

VARIABLES pmpaddr,  \* pmpaddr0 .. pmpaddr7
          pmpcfg,   \* the bytes of pmpcfg0: permission and matching mode
          asked,    \* the last accepted request of each entry
          requests  \* how many calls there were

vars == <<pmpaddr, pmpcfg, asked, requests>>

PMP_SHIFT == 2
MAX_CSR_PMP == 8
Entries == 0 .. 7

(* 1UL << n, before it is cut to the word.                                 *)
Pow2[n \in 0 .. XLEN + 1] == IF n = 0 THEN 1 ELSE 2 * Pow2[n - 1]
Word == 0 .. Pow2[XLEN] - 1

(* log2roundup: the first power of two that is not below x, XLEN if none.  *)
log2roundup(x) ==
  LET enough == {k \in 0 .. XLEN - 1 : x <= Pow2[k]}
  IN  IF enough = {} THEN XLEN ELSE CHOOSE k \in enough : \A j \in enough : k <= j

(* Mutant: one bit more than the region has is set.                        *)
X_Encode(start, order) ==
  CASE order = PMP_SHIFT -> start \div 4
    [] order = XLEN      -> Pow2[XLEN] - 1
    [] OTHER -> LET mask == Pow2[order - PMP_SHIFT] - 1
                IN  ((start \div 4) \div (mask + 1)) * (mask + 1) + mask

(* The base without the low bits, and below it a 0 and then 1s that say how
   large the region is.                                                    *)
Encode(start, order) ==
  CASE order = PMP_SHIFT -> start \div 4
    [] order = XLEN      -> Pow2[XLEN] - 1
    [] OTHER -> LET mask == Pow2[order - PMP_SHIFT] - 1
                IN  ((start \div 4) \div (mask + 1)) * (mask + 1) + mask \div 2

(* write_csr_num knows pmpcfg0 and pmpaddr0 .. pmpaddr7; entry 8, which the
   test of reg_idx lets through, is another register and is not written.   *)
Init == /\ pmpaddr = [i \in Entries |-> 0]
        /\ pmpcfg = [i \in Entries |-> [perm |-> {}, a |-> "OFF"]]
        /\ asked = [i \in Entries |-> {}]
        /\ requests = 0

sbi_set_pmp ==
  \E r \in Requests :
    LET order == log2roundup(r.size) IN
    /\ requests < MaxRequests
    /\ requests' = requests + 1
    /\ IF r.reg > MAX_CSR_PMP \/ order < PMP_SHIFT \/ r.reg \notin Entries
       THEN UNCHANGED <<pmpaddr, pmpcfg, asked>>
       ELSE /\ pmpaddr' = [pmpaddr EXCEPT ![r.reg] = Encode(r.start, order)]
            /\ pmpcfg' = [pmpcfg EXCEPT ![r.reg] =
                            [perm |-> r.prot,
                             a |-> IF order = PMP_SHIFT THEN "NA4" ELSE "NAPOT"]]
            /\ asked' = [asked EXCEPT ![r.reg] = {r}]

Next == sbi_set_pmp
Spec == Init /\ [][Next]_vars

-----------------------------------------------------------------------------
(* What the hart makes of an entry: a register holds the address without
   its two low bits; its trailing 1s give the size.                        *)
Held(i) == pmpaddr[i] % Pow2[XLEN - PMP_SHIFT]
Ones(n) == CHOOSE k \in 0 .. XLEN :
             /\ n % Pow2[k] = Pow2[k] - 1
             /\ (n \div Pow2[k]) % 2 = 0
Matches(i, a) ==
  LET n == Held(i)
      span == IF pmpcfg[i].a = "NA4" THEN 4 ELSE Pow2[Ones(n) + 3]
  IN  pmpcfg[i].a # "OFF" /\ a \div span = (n * 4) \div span

(* The permission of the lowest entry that matches, none if none does.     *)
Lowest(S) == {i \in S : \A j \in S : i <= j}
Permitted(a) == {pmpcfg[i].perm : i \in Lowest({i \in Entries : Matches(i, a)})}

(* The request of an entry in force, and the block of the next power of two
   that it asks for: the whole request when its start is aligned to it.    *)
Asks(r, a) ==
  LET size == Pow2[log2roundup(r.size)]
  IN  a \div size = r.start \div size
Granted(a) ==
  LET by == Lowest({i \in Entries : \E r \in asked[i] : Asks(r, a)})
  IN  UNION {{r.prot : r \in asked[i]} : i \in by}

(* An address has the permission of the first request that holds it, after
   any order of requests, also for the smallest region and for all of the
   address space; a request's own first byte is always its own.            *)
AccessAsRequested ==
  /\ \A a \in Word : Permitted(a) = Granted(a)
  /\ \A i \in Entries : \A r \in asked[i] :
       /\ Matches(i, r.start)
       /\ r.start % Pow2[log2roundup(r.size)] = 0 =>
            \A a \in Word : a \in r.start .. r.start + r.size - 1 => Matches(i, a)
=============================================================================
