--------------------------- MODULE RoutinesProofs ---------------------------
(***************************************************************************)
(* Theorems about the routines, for every value of their parameters.  The  *)
(* steps of the others leave a routine's state alone, so that its          *)
(* invariant is one of the composition.                                    *)
(***************************************************************************)
EXTENDS Routines, KallsymsProofs

-----------------------------------------------------------------------------
(* memset.                                                                 *)
\* Before the call memory is as it was; after it the call is done.
FillerIInv ==
    /\ DOMAIN memory = 0 .. MemEnd - 1
    /\ fill = {} => ~misaligned /\ \A a \in DOMAIN memory : memory[a] = -1
    /\ Filler!FilledExactly

\* After the head the next address is a multiple of 16, if a block is left.
LEMMA Aligned ==
    ASSUME NEW s \in Nat, NEW count \in Nat
    PROVE  /\ Filler!Head(s, count) \in Nat /\ Filler!Head(s, count) <= count
           /\ count - Filler!Head(s, count) >= Filler!ALIGN
                => (s + Filler!Head(s, count)) % Filler!ALIGN = 0
<1> DEFINE past == s % 16
           size == IF past = 0 THEN 0 ELSE 16 - past
<1>1. past \in 0 .. 15 /\ size \in 0 .. 15
  OBVIOUS
<1>2. (s + size) % 16 = 0
  OBVIOUS
<1>3. Filler!Head(s, count) = IF size > count THEN count ELSE size
  BY DEF Filler!Head, Filler!ALIGN
<1> HIDE DEF past, size
<1>4. count - Filler!Head(s, count) >= 16 => Filler!Head(s, count) = size
  BY <1>1, <1>3
<1> QED
  BY <1>1, <1>2, <1>3, <1>4 DEF Filler!ALIGN

\* The block loop runs once for every block there is.
LEMMA Blocks ==
    ASSUME NEW n \in Nat, n >= 1
    PROVE  Filler!Rounds(Filler!ALIGN * n) = n
BY DEF Filler!Rounds, Filler!ALIGN

\* A length is its blocks and what they leave.
LEMMA BlocksAndRest ==
    ASSUME NEW l \in Nat, l >= 16
    PROVE  /\ l \div 16 \in Nat /\ l \div 16 >= 1 /\ l % 16 \in Nat
           /\ 16 * (l \div 16) \in Nat /\ l = 16 * (l \div 16) + (l % 16)
OBVIOUS

\* Writing one range and then the one behind it writes both.
LEMMA Joined ==
    ASSUME NEW m, NEW p \in Int, NEW c, NEW k \in Nat, NEW l \in Nat, DOMAIN m \subseteq Int
    PROVE  Filler!Bytes(Filler!Bytes(m, p, c, k), p + k, c, l) = Filler!Bytes(m, p, c, k + l)
<1> DEFINE new == c % 256
           q == p + k
           t == k + l
           both == Filler!Bytes(Filler!Bytes(m, p, c, k), q, c, l)
<1>1. \A a \in Int : a \in p .. p + t - 1 <=> a \in p .. p + k - 1 \/ a \in q .. q + l - 1
  OBVIOUS
<1> HIDE DEF q, t
<1>2. DOMAIN Filler!Bytes(m, p, c, k) = DOMAIN m
  BY DEF Filler!Bytes
<1>3. \A a \in DOMAIN m : both[a] = IF a \in p .. p + t - 1 THEN new ELSE m[a]
  <2> TAKE a \in DOMAIN m
  <2>1. both[a] = IF a \in q .. q + l - 1 THEN new ELSE Filler!Bytes(m, p, c, k)[a]
    BY <1>2, Zenon DEF Filler!Bytes
  <2>2. Filler!Bytes(m, p, c, k)[a] = IF a \in p .. p + k - 1 THEN new ELSE m[a]
    BY Zenon DEF Filler!Bytes
  <2>3. a \in p .. p + t - 1 <=> a \in p .. p + k - 1 \/ a \in q .. q + l - 1
    BY <1>1
  <2> QED
    BY <2>1, <2>2, <2>3, Zenon
<1>4. both = [a \in DOMAIN m |-> both[a]]
  BY <1>2, Zenon DEF Filler!Bytes
<1>5. both = Filler!Bytes(m, p, c, t)
  BY <1>3, <1>4, Zenon DEF Filler!Bytes
<1> QED
  BY <1>5 DEF q, t

LEMMA FillerStep == FillerIInv /\ [Filler!Next]_filler => FillerIInv'
<1> SUFFICES ASSUME FillerIInv, [Filler!Next]_filler PROVE FillerIInv'
  OBVIOUS
<1>1. CASE UNCHANGED filler
  BY <1>1 DEF FillerIInv, filler, Filler!FilledExactly
<1>2. CASE Filler!memset
  <2>0. PICK f \in Fills :
        LET head == Filler!Head(f.s, f.count)
            p == f.s + head
            left == f.count - head
            n == left \div Filler!ALIGN
            headed == Filler!Bytes(memory, f.s, f.c, head)
        IN  /\ fill = {}
            /\ fill' = {f}
            /\ IF left >= Filler!ALIGN
               THEN /\ memory' = Filler!Bytes(Filler!Bytes(headed, p, f.c,
                                              Filler!ALIGN * Filler!Rounds(Filler!ALIGN * n)),
                                       p + Filler!ALIGN * n, f.c, left % Filler!ALIGN)
                    /\ misaligned' = (p % 8 # 0)
               ELSE /\ memory' = Filler!Bytes(headed, p, f.c, left)
                    /\ UNCHANGED misaligned
    BY <1>2 DEF Filler!memset
  <2> DEFINE head == Filler!Head(f.s, f.count)
             p == f.s + head
             left == f.count - head
             n == left \div 16
             headed == Filler!Bytes(memory, f.s, f.c, head)
  <2>1. /\ fill = {} /\ fill' = {f} /\ ~misaligned /\ \A a \in DOMAIN memory : memory[a] = -1
        /\ DOMAIN memory = 0 .. MemEnd - 1 /\ DOMAIN memory \subseteq Int
    BY <2>0 DEF FillerIInv
  <2>2. f.s \in Nat /\ f.count \in Nat
    BY FillsAssumption
  <2>3. head \in Nat /\ head <= f.count /\ (left >= 16 => p % 16 = 0)
    BY <2>2, Aligned DEF Filler!ALIGN
  <2> HIDE DEF head
  <2>4. left \in Nat /\ p \in Nat /\ p = f.s + head /\ f.count = head + left
    BY <2>2, <2>3
  <2>5. memory' = Filler!Bytes(memory, f.s, f.c, f.count) /\ ~misaligned'
    <3>1. DOMAIN headed = DOMAIN memory
      BY Zenon DEF Filler!Bytes
    <3>2. Filler!Bytes(headed, p, f.c, left) = Filler!Bytes(memory, f.s, f.c, f.count)
      <4> HIDE DEF p, left
      <4>1. /\ f.s \in Int /\ p \in Int /\ head \in Nat /\ left \in Nat /\ f.count \in Nat
            /\ DOMAIN memory \subseteq Int /\ p = f.s + head /\ f.count = head + left
        BY <2>1, <2>2, <2>3, <2>4
      <4> QED
        BY <4>1, Joined, SMT
    <3>3. CASE left >= 16
      <4> DEFINE k == 16 * n
                 q == p + k
                 r == left % 16
      <4>1. n \in Nat /\ n >= 1 /\ k \in Nat /\ r \in Nat /\ left = k + r
        BY <2>4, <3>3, BlocksAndRest
      <4>2. /\ memory' = Filler!Bytes(Filler!Bytes(headed, p, f.c, 16 * Filler!Rounds(16 * n)),
                                      q, f.c, r)
            /\ misaligned' = (p % 8 # 0)
        BY <2>0, <3>3 DEF Filler!ALIGN, head
      <4>3. Filler!Rounds(16 * n) = n
        BY <4>1, Blocks DEF Filler!ALIGN
      <4>4. memory' = Filler!Bytes(Filler!Bytes(headed, p, f.c, k), q, f.c, r)
        BY <4>2, <4>3
      <4>5. q \in Nat /\ q = p + k
        BY <2>4, <4>1
      <4> HIDE DEF n, k, q, r
      <4>6. Filler!Bytes(Filler!Bytes(headed, p, f.c, k), q, f.c, r)
              = Filler!Bytes(headed, p, f.c, left)
        <5> HIDE DEF headed, left, p
        <5>1. /\ p \in Int /\ q \in Int /\ k \in Nat /\ r \in Nat /\ left \in Nat
              /\ DOMAIN headed \subseteq Int /\ q = p + k /\ left = k + r
          BY <2>1, <2>4, <3>1, <4>1, <4>5
        <5> QED
          BY <5>1, Joined, SMT
      <4>7. p % 8 = 0
        BY <2>3, <2>4, <3>3
      <4> QED
        BY <3>2, <4>2, <4>4, <4>6, <4>7
    <3>4. CASE ~(left >= 16)
      <4>1. memory' = Filler!Bytes(headed, p, f.c, left) /\ misaligned' = misaligned
        BY <2>0, <3>4 DEF Filler!ALIGN, head
      <4> QED
        BY <2>1, <3>2, <4>1
    <3> QED
      BY <3>3, <3>4
  <2>6. DOMAIN memory' = DOMAIN memory
    BY <2>5 DEF Filler!Bytes
  <2>7. \A a \in DOMAIN memory :
          memory'[a] = IF a \in f.s .. f.s + f.count - 1 THEN f.c % 256 ELSE -1
    BY <2>1, <2>5 DEF Filler!Bytes
  <2> QED
    BY <2>1, <2>5, <2>6, <2>7 DEF FillerIInv, Filler!FilledExactly
<1> QED
  BY <1>1, <1>2 DEF Filler!Next

LEMMA FillerSteps ==
    (unit = "filler" => FillerIInv) /\ [NextRoutines]_units
      => (unit = "filler" => FillerIInv)'
<1> SUFFICES ASSUME unit = "filler" => FillerIInv, [NextRoutines]_units, unit' = "filler"
    PROVE FillerIInv'
  OBVIOUS
<1>1. unit' = unit /\ [Filler!Next]_filler
  BY DEF NextRoutines, MakeSymbols, MapPages, SetPmp, FillMemory, PrintField, RouteTraps,
         TraceCalls, units
<1> QED
  BY <1>1, FillerStep

\* memset.c: exactly the bytes asked for are set, and doublewords are stored
\* aligned, wherever the range begins and however long it is.
THEOREM FillsWhatIsAsked == SpecRoutines => []FilledExactly
<1>1. InitRoutines => (unit = "filler" => FillerIInv)
  BY DEF InitRoutines, Filler!Init, FillerIInv, Filler!FilledExactly
<1>2. (unit = "filler" => FillerIInv) => FilledExactly
  BY DEF FillerIInv, FilledExactly
<1> QED
  BY <1>1, <1>2, FillerSteps, PTL DEF SpecRoutines

-----------------------------------------------------------------------------
(* sbi_set_pmp.                                                            *)

\* The powers of two, from the recursive definition.
P == Firmware!Pow2
IsPowers(g, n) == g = [k \in 0 .. n |-> IF k = 0 THEN 1 ELSE 2 * g[k - 1]]

LEMMA PowersExist ==
    ASSUME NEW n \in Nat
    PROVE  \E g : IsPowers(g, n)
<1> DEFINE Bad == {k \in Nat : ~ \E g : IsPowers(g, k)}
<1> SUFFICES ASSUME Bad # {} PROVE FALSE
  OBVIOUS
<1>1. PICK m \in Bad : \A k \in Bad : m <= k
  BY LeastNat
<1>2. CASE m = 0
  <2>1. IsPowers([k \in 0 .. 0 |-> 1], 0)
    BY DEF IsPowers
  <2> QED
    BY <1>2, <2>1
<1>3. CASE m # 0
  <2>1. PICK g : IsPowers(g, m - 1)
    BY <1>1, <1>3
  <2> DEFINE new == [k \in 0 .. m |-> IF k = m THEN 2 * g[m - 1] ELSE g[k]]
  <2>2. \A k \in 0 .. m - 1 : g[k] = IF k = 0 THEN 1 ELSE 2 * g[k - 1]
    BY <2>1, Zenon DEF IsPowers
  <2>3. ASSUME NEW k \in 0 .. m PROVE new[k] = IF k = 0 THEN 1 ELSE 2 * new[k - 1]
    BY <1>3, <2>2
  <2>4. new = [k \in 0 .. m |-> IF k = 0 THEN 1 ELSE 2 * new[k - 1]]
    BY <2>3
  <2>5. IsPowers(new, m)
    <3> HIDE DEF new
    <3> QED
      BY <2>4, Zenon DEF IsPowers
  <2> QED
    BY <1>1, <2>5
<1> QED
  BY <1>2, <1>3

LEMMA PowersDouble ==
    /\ XLEN \in Nat /\ XLEN > 2 /\ P[0] = 1
    /\ \A k \in 1 .. XLEN + 1 : P[k] = 2 * P[k - 1]
<1>1. XLEN \in Nat /\ XLEN > 2
  BY RequestsAssumption DEF Firmware!PMP_SHIFT
<1>2. P = CHOOSE g : IsPowers(g, XLEN + 1)
  BY Zenon DEF P, Firmware!Pow2, IsPowers
<1>3. IsPowers(P, XLEN + 1)
  <2>1. \E g : IsPowers(g, XLEN + 1)
    BY <1>1, PowersExist
  <2> QED
    BY <1>2, <2>1, Zenon
<1>4. \A k \in 0 .. XLEN + 1 : P[k] = IF k = 0 THEN 1 ELSE 2 * P[k - 1]
  BY <1>3, Zenon DEF IsPowers
<1> QED
  BY <1>1, <1>4

LEMMA PowersPositive ==
    \A k \in 0 .. XLEN + 1 : P[k] \in Nat /\ P[k] >= 1
<1> DEFINE Bad == {k \in 0 .. XLEN + 1 : ~(P[k] \in Nat /\ P[k] >= 1)}
<1> SUFFICES ASSUME Bad # {} PROVE FALSE
  OBVIOUS
<1>1. PICK m \in Bad : \A k \in Bad : m <= k
  <2>1. Bad \in SUBSET Nat
    BY PowersDouble
  <2> HIDE DEF Bad
  <2> QED
    BY <2>1, LeastNat
<1>2. m # 0
  BY <1>1, PowersDouble
<1>3. m - 1 \in 0 .. XLEN + 1 /\ m \in 1 .. XLEN + 1 /\ ~(m <= m - 1)
  BY <1>1, <1>2, PowersDouble
<1>4. P[m - 1] \in Nat /\ P[m - 1] >= 1
  BY <1>1, <1>3
<1>5. P[m] = 2 * P[m - 1]
  BY <1>3, PowersDouble
<1> QED
  BY <1>1, <1>4, <1>5

\* A greater power is a multiple, and an even one.
LEMMA PowersDivide ==
    ASSUME NEW i \in 0 .. XLEN + 1, NEW j \in 0 .. XLEN + 1, i < j
    PROVE  \E d \in Nat : d >= 1 /\ P[j] = 2 * (d * P[i])
<1> DEFINE Fits(k) == \E d \in Nat : d >= 1 /\ P[k] = 2 * (d * P[i])
           Bad == {k \in 0 .. XLEN + 1 : i < k /\ ~Fits(k)}
<1> SUFFICES ASSUME Bad # {} PROVE FALSE
  OBVIOUS
<1>1. PICK m \in Bad : \A k \in Bad : m <= k
  <2>1. Bad \in SUBSET Nat
    BY PowersDouble
  <2> HIDE DEF Bad
  <2> QED
    BY <2>1, LeastNat
<1>2. m - 1 \in 0 .. XLEN + 1 /\ m \in 1 .. XLEN + 1 /\ ~(m <= m - 1) /\ i <= m - 1
  BY <1>1, PowersDouble
<1>3. P[m] = 2 * P[m - 1] /\ P[i] \in Nat
  BY <1>2, PowersDouble, PowersPositive
<1>4. CASE m - 1 = i
  <2>1. P[m] = 2 * (1 * P[i])
    BY <1>3, <1>4
  <2> QED
    BY <1>1, <2>1
<1>5. CASE m - 1 # i
  <2>1. PICK d \in Nat : d >= 1 /\ P[m - 1] = 2 * (d * P[i])
    BY <1>1, <1>2, <1>5
  <2>2. P[m] = 2 * ((2 * d) * P[i]) /\ 2 * d \in Nat /\ 2 * d >= 1
    BY <1>3, <2>1
  <2> QED
    BY <1>1, <2>2
<1> QED
  BY <1>4, <1>5

\* Division, by what it leaves.
Parts(a, d, q, r) == a = q * d + r /\ 0 <= r /\ r < d

LEMMA Quotient ==
    ASSUME NEW a \in Int, NEW d \in Int, NEW q \in Int, NEW r \in Int, d >= 1, Parts(a, d, q, r)
    PROVE  a \div d = q /\ a % d = r
<1> USE DEF Parts
<1>1. a \div d = q
  OBVIOUS
<1>2. a % d = a - d * (a \div d)
  OBVIOUS
<1> QED
  BY <1>1, <1>2

LEMMA Divided ==
    ASSUME NEW a \in Int, NEW d \in Int, d >= 1
    PROVE  \E q \in Int, r \in Int : Parts(a, d, q, r) /\ a \div d = q /\ a % d = r
<1>1. a \div d \in Int /\ a % d \in Int /\ 0 <= a % d /\ a % d < d
  OBVIOUS
<1>2. a % d = a - d * (a \div d)
  OBVIOUS
<1> DEFINE q == a \div d
<1>3. q \in Int /\ d * q = q * d
  BY <1>1
<1> HIDE DEF q
<1>4. a = q * d + (a - d * q)
  BY <1>3
<1> QED
  BY <1>1, <1>2, <1>4 DEF q, Parts

\* The trailing 1s of a word that ends in a 0 and e 1s.
LEMMA OnesAre ==
    ASSUME NEW e \in 0 .. XLEN, NEW b \in Int, b % 2 = 0,
           NEW n \in Int, Parts(n, P[e], b, P[e] - 1)
    PROVE  Firmware!Ones(n) = e
<1> DEFINE Fits(k) == n % P[k] = P[k] - 1 /\ (n \div P[k]) % 2 = 0
<1>1. /\ XLEN \in Nat /\ e \in 0 .. XLEN + 1 /\ P[e] \in Int /\ P[e] >= 1
      /\ \A k \in 0 .. XLEN : k \in 0 .. XLEN + 1 /\ P[k] \in Int /\ P[k] >= 1
  BY PowersDouble, PowersPositive
<1>2. Fits(e)
  <2>1. P[e] - 1 \in Int
    BY <1>1
  <2>2. n \div P[e] = b /\ n % P[e] = P[e] - 1
    BY <1>1, <2>1, Quotient
  <2> QED
    BY <2>2
<1>3. ASSUME NEW k \in 0 .. XLEN, Fits(k) PROVE k = e
  <2>1. CASE k < e
    <3>1. PICK d \in Nat : d >= 1 /\ P[e] = 2 * (d * P[k])
      BY <1>1, <2>1, PowersDivide
    <3> DEFINE c == 2 * (b * d + d) - 1
    <3>2. c \in Int /\ Parts(n, P[k], c, P[k] - 1) /\ P[k] - 1 \in Int
      BY <1>1, <3>1 DEF Parts
    <3> HIDE DEF c
    <3>3. n \div P[k] = c
      BY <1>1, <3>2, Quotient
    <3>4. c % 2 = 1
      BY DEF c
    <3> QED
      BY <1>3, <3>3, <3>4
  <2>2. CASE k > e
    <3>1. PICK d \in Nat : d >= 1 /\ P[k] = 2 * (d * P[e])
      BY <1>1, <2>2, PowersDivide
    <3>2. PICK m \in Int, r \in Int : Parts(n, P[k], m, r) /\ n % P[k] = r
      BY <1>1, Divided
    <3>3. n = m * P[k] + (P[k] - 1)
      BY <1>3, <3>2 DEF Parts
    <3> DEFINE c == 2 * (m * d + d) - 1
    <3>4. c \in Int /\ Parts(n, P[e], c, P[e] - 1) /\ P[e] - 1 \in Int
      BY <1>1, <3>1, <3>3 DEF Parts
    <3> HIDE DEF c
    <3>5. n \div P[e] = c
      BY <1>1, <3>4, Quotient
    <3>6. c % 2 = 1
      BY DEF c
    <3> QED
      BY <1>2, <3>5, <3>6
  <2> QED
    BY <1>1, <2>1, <2>2
<1>4. Firmware!Ones(n) = CHOOSE k \in 0 .. XLEN : Fits(k)
  BY DEF Firmware!Ones, P
<1> HIDE DEF Fits
<1> QED
  BY <1>2, <1>3, <1>4

\* What an entry holds after an accepted request.
Given(i, r) ==
    LET order == Firmware!log2roundup(r.size) IN
    /\ r \in Requests
    /\ order \in Firmware!PMP_SHIFT .. XLEN
    /\ pmpaddr[i] = Firmware!Encode(r.start, order)
    /\ pmpcfg[i] = [perm |-> r.prot, a |-> IF order = Firmware!PMP_SHIFT THEN "NA4" ELSE "NAPOT"]

\* The base of a range of several smallest regions, as the register has it.
LEMMA Based ==
    ASSUME NEW start \in Firmware!Word, NEW order \in 3 .. XLEN - 1,
           NEW n, n = Firmware!Encode(start, order)
    PROVE  /\ n \in Int /\ 0 <= n /\ n < P[XLEN - 2]
           /\ Firmware!Ones(n) = order - 3
           /\ (n * 4) \div P[order] = start \div P[order]
<1> DEFINE h == P[order - 3]
<1>1. /\ XLEN \in Nat /\ XLEN > 2 /\ order \in Int /\ 3 <= order /\ order < XLEN
      /\ order - 3 \in 0 .. XLEN /\ order - 3 \in 0 .. XLEN + 1 /\ order - 2 \in 0 .. XLEN + 1
  BY PowersDouble
<1>2. h \in Int /\ h >= 1 /\ P[order - 2] = 2 * h /\ P[order] = 4 * (2 * h)
  <2>1. /\ order - 2 \in 1 .. XLEN + 1 /\ order - 1 \in 1 .. XLEN + 1 /\ order \in 1 .. XLEN + 1
        /\ (order - 2) - 1 = order - 3 /\ (order - 1) - 1 = order - 2
    BY <1>1
  <2>2. /\ P[order - 2] = 2 * P[order - 3] /\ P[order - 1] = 2 * P[order - 2]
        /\ P[order] = 2 * P[order - 1]
    <3>1. /\ P[order - 2] = 2 * P[(order - 2) - 1] /\ P[order - 1] = 2 * P[(order - 1) - 1]
          /\ P[order] = 2 * P[order - 1]
      BY <2>1, PowersDouble
    <3> QED
      BY <2>1, <3>1
  <2>3. h \in Int /\ h >= 1
    BY <1>1, PowersPositive
  <2> QED
    BY <2>2, <2>3
<1> HIDE DEF h
<1>3. start \in Int /\ 0 <= start /\ start < P[XLEN] /\ P[XLEN] \in Int
      /\ P[XLEN] = 4 * P[XLEN - 2] /\ P[XLEN - 2] \in Int
  <2>1. XLEN \in 1 .. XLEN + 1 /\ XLEN - 1 \in 1 .. XLEN + 1 /\ (XLEN - 1) - 1 = XLEN - 2
        /\ XLEN - 2 \in 0 .. XLEN + 1 /\ XLEN \in 0 .. XLEN + 1
    BY <1>1
  <2>2. P[XLEN] = 2 * P[XLEN - 1] /\ P[XLEN - 1] = 2 * P[(XLEN - 1) - 1]
    BY <2>1, PowersDouble
  <2>3. P[XLEN - 2] \in Nat /\ P[XLEN] \in Nat
    BY <2>1, PowersPositive
  <2>4. start \in 0 .. P[XLEN] - 1
    BY DEF Firmware!Word, P
  <2> QED
    BY <2>1, <2>2, <2>3, <2>4
<1>4. PICK s \in Int, r \in Int : start = s * 4 + r /\ 0 <= r /\ r < 4 /\ start \div 4 = s
  BY <1>3, Divided DEF Parts
<1>5. PICK b \in Int, t \in Int : s = b * (2 * h) + t /\ 0 <= t /\ t < 2 * h /\ s \div (2 * h) = b
  <2>1. 2 * h \in Int /\ 2 * h >= 1
    BY <1>2
  <2>2. PICK b \in Int, t \in Int : Parts(s, 2 * h, b, t) /\ s \div (2 * h) = b
    BY <2>1, Divided
  <2> QED
    BY <2>2 DEF Parts
<1>6. n = b * (2 * h) + (h - 1)
  <2>1. order # 2 /\ order # XLEN
    BY <1>1
  <2>2. n = ((start \div 4) \div (P[order - 2] - 1 + 1)) * (P[order - 2] - 1 + 1)
              + (P[order - 2] - 1) \div 2
    BY <2>1 DEF Firmware!Encode, Firmware!PMP_SHIFT, P
  <2>3. P[order - 2] - 1 + 1 = 2 * h /\ (P[order - 2] - 1) \div 2 = h - 1
    BY <1>2
  <2> QED
    BY <1>4, <1>5, <2>2, <2>3
<1>7. b >= 0
  <2> SUFFICES ASSUME b <= -1 PROVE FALSE
    OBVIOUS
  <2>1. s >= 0
    BY <1>3, <1>4
  <2>2. b * (2 * h) <= (-1) * (2 * h)
    BY <1>2
  <2> QED
    BY <1>2, <1>5, <2>1, <2>2
<1>8. n < P[XLEN - 2]
  <2>1. PICK d \in Nat : P[XLEN - 2] = d * (2 * h)
    <3>1. CASE order - 2 = XLEN - 2
      BY <1>1, <3>1
    <3>2. CASE order - 2 # XLEN - 2
      <4>1. XLEN - 2 \in 0 .. XLEN + 1 /\ order - 2 < XLEN - 2
        BY <1>1
      <4>2. PICK c \in Nat : P[XLEN - 2] = 2 * (c * P[order - 2])
        BY <1>1, <4>1, PowersDivide
      <4>3. P[XLEN - 2] = (2 * c) * (2 * h) /\ 2 * c \in Nat
        BY <1>2, <4>2
      <4> QED
        BY <4>3
    <3> QED
      BY <3>1, <3>2
  <2>2. s < d * (2 * h)
    BY <1>3, <1>4, <2>1
  <2>3. b + 1 <= d
    <3> SUFFICES ASSUME d <= b PROVE FALSE
      OBVIOUS
    <3>1. d * (2 * h) <= b * (2 * h)
      BY <1>2
    <3> QED
      BY <1>2, <1>5, <2>2, <3>1
  <2>4. (b + 1) * (2 * h) <= d * (2 * h)
    BY <1>2, <2>3
  <2> QED
    BY <1>2, <1>6, <2>1, <2>4
<1>9. n \in Int /\ 0 <= n
  <2>1. b * (2 * h) >= 0
    BY <1>2, <1>7
  <2> QED
    BY <1>2, <1>6, <2>1
<1>10. Firmware!Ones(n) = order - 3
  <2>1. Parts(n, h, 2 * b, h - 1) /\ 2 * b \in Int /\ (2 * b) % 2 = 0
    BY <1>2, <1>6 DEF Parts
  <2> QED
    BY <1>1, <1>9, <2>1, OnesAre DEF h
<1>11. (n * 4) \div P[order] = b
  <2>1. Parts(n * 4, P[order], b, 4 * h - 4)
    BY <1>2, <1>6 DEF Parts
  <2>2. P[order] \in Int /\ P[order] >= 1 /\ n * 4 \in Int /\ 4 * h - 4 \in Int
    BY <1>2, <1>9
  <2> QED
    BY <2>1, <2>2, Quotient
<1>12. start \div P[order] = b
  <2>1. Parts(start, P[order], b, 4 * t + r)
    BY <1>2, <1>4, <1>5 DEF Parts
  <2>2. P[order] \in Int /\ P[order] >= 1 /\ start \in Int /\ 4 * t + r \in Int
    BY <1>2, <1>3
  <2> QED
    BY <2>1, <2>2, Quotient
<1> QED
  BY <1>8, <1>9, <1>10, <1>11, <1>12

\* A word that is below a power of two is what a division by it leaves.
LEMMA Small ==
    ASSUME NEW n \in Int, NEW d \in Int, 0 <= n, n < d
    PROVE  n % d = n /\ n \div d = 0
<1>1. Parts(n, d, 0, n) /\ d >= 1
  BY DEF Parts
<1> QED
  BY <1>1, Quotient

LEMMA RoundedUp ==
    ASSUME NEW r \in Requests
    PROVE  /\ Firmware!log2roundup(r.size) \in 0 .. XLEN
           /\ Firmware!log2roundup(r.size) < XLEN => r.size <= P[Firmware!log2roundup(r.size)]
<1> DEFINE enough == {k \in 0 .. XLEN - 1 : r.size <= P[k]}
<1>1. XLEN \in Nat
  BY PowersDouble
<1>2. Firmware!log2roundup(r.size) = IF enough = {} THEN XLEN
                                     ELSE CHOOSE k \in enough : \A j \in enough : k <= j
  BY DEF Firmware!log2roundup, P
<1>3. CASE enough = {}
  BY <1>1, <1>2, <1>3
<1>4. CASE enough # {}
  <2>1. enough \in SUBSET Nat
    BY <1>1
  <2>2. \E k \in enough : \A j \in enough : k <= j
    <3> HIDE DEF enough
    <3> QED
      BY <1>4, <2>1, LeastNat
  <2>3. Firmware!log2roundup(r.size) \in enough
    <3> HIDE DEF enough
    <3> QED
      BY <1>2, <1>4, <2>2
  <2> QED
    BY <1>1, <2>3
<1> QED
  BY <1>3, <1>4

\* The entry of an accepted request matches the block the request asks for.
LEMMA MatchesAsked ==
    ASSUME NEW i \in Firmware!Entries, NEW r, Given(i, r), NEW a \in Firmware!Word
    PROVE  Firmware!Matches(i, a) <=> Firmware!Asks(r, a)
<1> DEFINE order == Firmware!log2roundup(r.size)
           n == Firmware!Encode(r.start, order)
<1>1. /\ XLEN \in Nat /\ XLEN > 2 /\ order \in 2 .. XLEN
      /\ P[XLEN] \in Int /\ P[XLEN - 2] \in Int /\ P[XLEN - 2] >= 1
      /\ P[XLEN] = 4 * P[XLEN - 2] /\ P[XLEN + 1] = 2 * P[XLEN] /\ P[XLEN + 1] \in Int
      /\ P[2] = 4
  <2>1. XLEN \in Nat /\ XLEN > 2 /\ order \in 2 .. XLEN
    BY PowersDouble DEF Given, Firmware!PMP_SHIFT
  <2>2. /\ XLEN \in 1 .. XLEN + 1 /\ XLEN - 1 \in 1 .. XLEN + 1 /\ (XLEN - 1) - 1 = XLEN - 2
        /\ XLEN - 2 \in 0 .. XLEN + 1 /\ XLEN \in 0 .. XLEN + 1 /\ XLEN + 1 \in 0 .. XLEN + 1
        /\ XLEN + 1 \in 1 .. XLEN + 1 /\ (XLEN + 1) - 1 = XLEN
        /\ 1 \in 1 .. XLEN + 1 /\ 2 \in 1 .. XLEN + 1 /\ 1 - 1 = 0 /\ 2 - 1 = 1
    BY <2>1
  <2>3. /\ P[XLEN] = 2 * P[XLEN - 1] /\ P[XLEN - 1] = 2 * P[(XLEN - 1) - 1]
        /\ P[XLEN + 1] = 2 * P[(XLEN + 1) - 1]
        /\ P[1] = 2 * P[1 - 1] /\ P[2] = 2 * P[2 - 1] /\ P[0] = 1
    BY <2>2, PowersDouble
  <2>4. /\ P[XLEN - 2] \in Nat /\ P[XLEN - 2] >= 1 /\ P[XLEN] \in Nat /\ P[XLEN + 1] \in Nat
    BY <2>2, PowersPositive
  <2> QED
    BY <2>1, <2>2, <2>3, <2>4
<1>2. /\ r.start \in Firmware!Word
      /\ r.start \in Int /\ 0 <= r.start /\ r.start < P[XLEN]
      /\ a \in Int /\ 0 <= a /\ a < P[XLEN]
  <2>1. r.start \in Firmware!Word
    BY RequestsAssumption DEF Given
  <2>2. r.start \in 0 .. P[XLEN] - 1 /\ a \in 0 .. P[XLEN] - 1
    BY <2>1 DEF Firmware!Word, P
  <2> QED
    BY <1>1, <2>1, <2>2
<1>3. /\ pmpcfg[i].a = (IF order = 2 THEN "NA4" ELSE "NAPOT")
      /\ Firmware!Held(i) = n % P[XLEN - 2]
  BY DEF Given, Firmware!PMP_SHIFT, Firmware!Held, P
<1>4. Firmware!Asks(r, a) <=> a \div P[order] = r.start \div P[order]
  BY DEF Firmware!Asks, P
<1> DEFINE held == Firmware!Held(i)
           span == IF pmpcfg[i].a = "NA4" THEN 4 ELSE P[Firmware!Ones(held) + 3]
<1>5. Firmware!Matches(i, a) <=> pmpcfg[i].a # "OFF" /\ a \div span = (held * 4) \div span
  BY DEF Firmware!Matches, P
<1> HIDE DEF order, n, held
<1>6. CASE order = 2
  <2>1. n = r.start \div 4
    BY <1>1, <1>6 DEF n, Firmware!Encode, Firmware!PMP_SHIFT
  <2>2. PICK q \in Int, t \in Int : Parts(r.start, 4, q, t) /\ r.start \div 4 = q
    <3>1. r.start \in Int /\ 4 \in Int /\ 4 >= 1
      BY <1>2
    <3>2. \E q \in Int, t \in Int : Parts(r.start, 4, q, t) /\ r.start \div 4 = q /\ r.start % 4 = t
      BY <3>1, Divided, Zenon
    <3> QED
      BY <3>2
  <2>3. 0 <= q /\ q < P[XLEN - 2]
    BY <1>1, <1>2, <2>2 DEF Parts
  <2>4. q % P[XLEN - 2] = q
    BY <1>1, <2>3, Small
  <2>5. held = q
    BY <1>3, <2>1, <2>2, <2>4 DEF held
  <2>6. (q * 4) \div 4 = q
    OBVIOUS
  <2>7. Firmware!Matches(i, a) <=> a \div 4 = q
    BY <1>3, <1>5, <1>6, <2>5, <2>6
  <2> QED
    BY <1>1, <1>4, <1>6, <2>2, <2>7
<1>7. CASE order = XLEN
  <2>1. n = P[XLEN] - 1
    BY <1>1, <1>7 DEF n, Firmware!Encode, Firmware!PMP_SHIFT, P
  <2>2. Parts(n, P[XLEN - 2], 3, P[XLEN - 2] - 1) /\ n \in Int /\ P[XLEN - 2] - 1 \in Int
    BY <1>1, <2>1 DEF Parts
  <2>3. held = P[XLEN - 2] - 1
    <3>1. 3 \in Int /\ P[XLEN - 2] \in Int /\ P[XLEN - 2] >= 1
      BY <1>1
    <3>2. n % P[XLEN - 2] = P[XLEN - 2] - 1
      BY <2>2, <3>1, Quotient, Zenon
    <3> QED
      BY <1>3, <3>2 DEF held
  <2>4. Firmware!Ones(held) = XLEN - 2
    <3>1. held \in Int /\ Parts(held, P[XLEN - 2], 0, P[XLEN - 2] - 1) /\ XLEN - 2 \in 0 .. XLEN
          /\ 0 \in Int /\ 0 % 2 = 0
      BY <1>1, <2>3 DEF Parts
    <3> QED
      BY <3>1, OnesAre, Zenon
  <2>5. span = P[XLEN + 1]
    <3>1. (XLEN - 2) + 3 = XLEN + 1 /\ XLEN # 2
      BY <1>1
    <3> QED
      BY <1>3, <1>7, <2>4, <3>1
  <2>6. a \div P[XLEN + 1] = 0 /\ (held * 4) \div P[XLEN + 1] = 0
    <3>1. held * 4 \in Int /\ 0 <= held * 4 /\ held * 4 < P[XLEN + 1] /\ a < P[XLEN + 1]
      BY <1>1, <1>2, <2>3
    <3> QED
      BY <1>1, <1>2, <3>1, Small
  <2>7. a \div P[XLEN] = 0 /\ r.start \div P[XLEN] = 0
    BY <1>1, <1>2, Small
  <2>8. pmpcfg[i].a # "OFF"
    BY <1>3
  <2> QED
    BY <1>4, <1>5, <1>7, <2>5, <2>6, <2>7, <2>8
<1>8. CASE order # 2 /\ order # XLEN
  <2>1. order \in 3 .. XLEN - 1
    BY <1>1, <1>8
  <2>2. /\ n \in Int /\ 0 <= n /\ n < P[XLEN - 2]
        /\ Firmware!Ones(n) = order - 3
        /\ (n * 4) \div P[order] = r.start \div P[order]
    BY <1>2, <2>1, Based DEF n
  <2>3. held = n
    BY <1>1, <1>3, <2>2, Small DEF held
  <2>4. span = P[order]
    <3>1. (order - 3) + 3 = order
      BY <2>1
    <3> QED
      BY <1>3, <1>8, <2>2, <2>3, <3>1
  <2>5. pmpcfg[i].a # "OFF"
    BY <1>3
  <2> QED
    BY <1>4, <1>5, <2>2, <2>3, <2>4, <2>5
<1> QED
  BY <1>6, <1>7, <1>8

\* An entry is off, or as its last request has it.
FirmwareIInv ==
    /\ pmpaddr = [i \in Firmware!Entries |-> pmpaddr[i]]
    /\ pmpcfg = [i \in Firmware!Entries |-> pmpcfg[i]]
    /\ asked = [i \in Firmware!Entries |-> asked[i]]
    /\ \A i \in Firmware!Entries :
         \/ asked[i] = {} /\ pmpcfg[i].a = "OFF"
         \/ \E r \in Requests : asked[i] = {r} /\ Given(i, r)

LEMMA FirmwareGrants ==
    ASSUME FirmwareIInv
    PROVE  Firmware!AccessAsRequested
<1>1. ASSUME NEW i \in Firmware!Entries, NEW a \in Firmware!Word
      PROVE  /\ Firmware!Matches(i, a) <=> \E r \in asked[i] : Firmware!Asks(r, a)
             /\ Firmware!Matches(i, a) => {r.prot : r \in asked[i]} = {pmpcfg[i].perm}
  <2>1. CASE asked[i] = {} /\ pmpcfg[i].a = "OFF"
    BY <2>1 DEF Firmware!Matches
  <2>2. ASSUME NEW r \in Requests, asked[i] = {r}, Given(i, r)
        PROVE  /\ Firmware!Matches(i, a) <=> \E s \in asked[i] : Firmware!Asks(s, a)
               /\ {s.prot : s \in asked[i]} = {pmpcfg[i].perm}
    <3>1. Firmware!Matches(i, a) <=> Firmware!Asks(r, a)
      BY <2>2, MatchesAsked
    <3>2. pmpcfg[i].perm = r.prot
      BY <2>2 DEF Given
    <3> QED
      BY <2>2, <3>1, <3>2
  <2> QED
    BY <2>1, <2>2 DEF FirmwareIInv
<1>2. ASSUME NEW a \in Firmware!Word
      PROVE  Firmware!Permitted(a) = Firmware!Granted(a)
  <2> DEFINE M == {i \in Firmware!Entries : Firmware!Matches(i, a)}
             G == {i \in Firmware!Entries : \E r \in asked[i] : Firmware!Asks(r, a)}
  <2>1. M = G
    BY <1>1
  <2>2. \A i \in Firmware!Lowest(M) : {r.prot : r \in asked[i]} = {pmpcfg[i].perm}
    BY <1>1 DEF Firmware!Lowest
  <2>3. UNION {{r.prot : r \in asked[i]} : i \in Firmware!Lowest(M)}
          = {pmpcfg[i].perm : i \in Firmware!Lowest(M)}
    <3> HIDE DEF M
    <3> DEFINE L == Firmware!Lowest(M)
    <3>1. \A i \in L : {r.prot : r \in asked[i]} = {pmpcfg[i].perm}
      BY <2>2
    <3> HIDE DEF L
    <3>2. UNION {{r.prot : r \in asked[i]} : i \in L} = UNION {{pmpcfg[i].perm} : i \in L}
      BY <3>1
    <3>3. UNION {{pmpcfg[i].perm} : i \in L} = {pmpcfg[i].perm : i \in L}
      OBVIOUS
    <3> QED
      BY <3>2, <3>3 DEF L
  <2>4. Firmware!Permitted(a) = {pmpcfg[i].perm : i \in Firmware!Lowest(M)}
    BY DEF Firmware!Permitted
  <2>5. Firmware!Granted(a) = UNION {{r.prot : r \in asked[i]} : i \in Firmware!Lowest(G)}
    BY DEF Firmware!Granted
  <2> QED
    BY <2>1, <2>3, <2>4, <2>5
<1>3. ASSUME NEW i \in Firmware!Entries, NEW r \in asked[i]
      PROVE  /\ Firmware!Matches(i, r.start)
             /\ r.start % P[Firmware!log2roundup(r.size)] = 0 =>
                  \A a \in Firmware!Word : a \in r.start .. r.start + r.size - 1
                                            => Firmware!Matches(i, a)
  <2> DEFINE order == Firmware!log2roundup(r.size)
  <2>1. r \in Requests /\ Given(i, r)
    BY <1>3 DEF FirmwareIInv
  <2>2. r.start \in Firmware!Word /\ r.size \in Nat
    BY <2>1, RequestsAssumption
  <2>3. Firmware!Asks(r, r.start)
    BY DEF Firmware!Asks
  <2>4. Firmware!Matches(i, r.start)
    BY <2>1, <2>2, <2>3, MatchesAsked
  <2>5. ASSUME r.start % P[order] = 0, NEW a \in Firmware!Word,
               a \in r.start .. r.start + r.size - 1
        PROVE  Firmware!Asks(r, a)
    <3>1. /\ XLEN \in Nat /\ order \in 0 .. XLEN /\ (order < XLEN => r.size <= P[order])
      BY <2>1, RoundedUp, PowersDouble
    <3>2. P[order] \in Int /\ P[order] >= 1
      <4>1. order \in 0 .. XLEN + 1
        BY <3>1
      <4> QED
        BY <4>1, PowersPositive
    <3>3. /\ r.start \in Int /\ 0 <= r.start /\ r.start < P[XLEN]
          /\ a \in Int /\ 0 <= a /\ a < P[XLEN] /\ P[XLEN] \in Int
      <4>1. r.start \in 0 .. P[XLEN] - 1 /\ a \in 0 .. P[XLEN] - 1 /\ XLEN \in 0 .. XLEN + 1
        BY <2>2, <3>1 DEF Firmware!Word, P
      <4>2. P[XLEN] \in Nat
        BY <4>1, PowersPositive
      <4> QED
        BY <4>1, <4>2
    <3> HIDE DEF order
    <3>4. PICK q \in Int, t \in Int :
            Parts(r.start, P[order], q, t) /\ r.start \div P[order] = q /\ r.start % P[order] = t
      BY <3>2, <3>3, Divided
    <3>5. CASE order = XLEN
      <4>1. a \div P[order] = 0 /\ r.start \div P[order] = 0
        BY <3>3, <3>5, Small
      <4> QED
        BY <4>1 DEF Firmware!Asks, order, P
    <3>6. CASE order # XLEN
      <4>1. r.start = q * P[order] + 0
        BY <2>5, <3>4 DEF Parts
      <4>2. r.size <= P[order]
        BY <3>1, <3>6
      <4>3. a \in Int /\ r.start <= a /\ a <= r.start + r.size - 1
        BY <2>2, <2>5, <3>3
      <4>4. Parts(a, P[order], q, a - r.start) /\ a - r.start \in Int
        <5> DEFINE p == q * P[order]
        <5>1. p \in Int /\ r.start = p
          BY <3>2, <4>1
        <5> HIDE DEF p
        <5>2. a = p + (a - r.start) /\ 0 <= a - r.start /\ a - r.start < P[order]
          BY <2>2, <3>2, <3>3, <4>2, <4>3, <5>1
        <5> QED
          BY <3>3, <5>2 DEF Parts, p
      <4>5. a \div P[order] = q
        BY <3>2, <4>3, <4>4, Quotient
      <4> QED
        BY <3>4, <4>5 DEF Firmware!Asks, order, P
    <3> QED
      BY <3>5, <3>6
  <2> QED
    BY <2>1, <2>4, <2>5, MatchesAsked
<1> QED
  BY <1>2, <1>3 DEF Firmware!AccessAsRequested, P

LEMMA FirmwareStep == FirmwareIInv /\ [Firmware!Next]_firmware => FirmwareIInv'
<1> SUFFICES ASSUME FirmwareIInv, [Firmware!Next]_firmware PROVE FirmwareIInv'
  OBVIOUS
<1>1. CASE UNCHANGED firmware
  BY <1>1 DEF firmware, FirmwareIInv, Given
<1>2. CASE Firmware!sbi_set_pmp
  <2>1. PICK r \in Requests :
          IF \/ r.reg > Firmware!MAX_CSR_PMP \/ Firmware!log2roundup(r.size) < Firmware!PMP_SHIFT
             \/ r.reg \notin Firmware!Entries
          THEN UNCHANGED <<pmpaddr, pmpcfg, asked>>
          ELSE LET order == Firmware!log2roundup(r.size) IN
               /\ pmpaddr' = [pmpaddr EXCEPT ![r.reg] = Firmware!Encode(r.start, order)]
               /\ pmpcfg' = [pmpcfg EXCEPT ![r.reg] =
                               [perm |-> r.prot,
                                a |-> IF order = Firmware!PMP_SHIFT THEN "NA4" ELSE "NAPOT"]]
               /\ asked' = [asked EXCEPT ![r.reg] = {r}]
    BY <1>2 DEF Firmware!sbi_set_pmp
  <2>2. CASE UNCHANGED <<pmpaddr, pmpcfg, asked>>
    BY <2>2 DEF FirmwareIInv, Given
  <2>3. CASE ~ UNCHANGED <<pmpaddr, pmpcfg, asked>>
    <3> DEFINE order == Firmware!log2roundup(r.size)
    <3>1. /\ r.reg \in Firmware!Entries /\ ~(order < Firmware!PMP_SHIFT)
          /\ pmpaddr' = [pmpaddr EXCEPT ![r.reg] = Firmware!Encode(r.start, order)]
          /\ pmpcfg' = [pmpcfg EXCEPT ![r.reg] =
                          [perm |-> r.prot,
                           a |-> IF order = Firmware!PMP_SHIFT THEN "NA4" ELSE "NAPOT"]]
          /\ asked' = [asked EXCEPT ![r.reg] = {r}]
      BY <2>1, <2>3
    <3>2. order \in Firmware!PMP_SHIFT .. XLEN
      <4>1. order \in 0 .. XLEN /\ XLEN \in Nat
        BY RoundedUp, PowersDouble
      <4> HIDE DEF order
      <4> QED
        BY <3>1, <4>1 DEF Firmware!PMP_SHIFT
    <3>3. Given(r.reg, r)' /\ asked'[r.reg] = {r}
      <4>1. /\ pmpaddr'[r.reg] = Firmware!Encode(r.start, order)
            /\ pmpcfg'[r.reg] = [perm |-> r.prot,
                                 a |-> IF order = Firmware!PMP_SHIFT THEN "NA4" ELSE "NAPOT"]
            /\ asked'[r.reg] = {r}
        <5> HIDE DEF order
        <5> QED
          BY <3>1, Zenon DEF FirmwareIInv
      <4> QED
        BY <3>2, <4>1 DEF Given
    <3>4. ASSUME NEW i \in Firmware!Entries, i # r.reg
          PROVE  pmpaddr'[i] = pmpaddr[i] /\ pmpcfg'[i] = pmpcfg[i] /\ asked'[i] = asked[i]
      <4> HIDE DEF order
      <4> QED
        BY <3>1, <3>4, Zenon DEF FirmwareIInv
    <3>5. /\ pmpaddr' = [i \in Firmware!Entries |-> pmpaddr'[i]]
          /\ pmpcfg' = [i \in Firmware!Entries |-> pmpcfg'[i]]
          /\ asked' = [i \in Firmware!Entries |-> asked'[i]]
      <4> HIDE DEF order
      <4> QED
        BY <3>1, Zenon DEF FirmwareIInv
    <3>6. ASSUME NEW i \in Firmware!Entries
          PROVE  \/ asked'[i] = {} /\ pmpcfg'[i].a = "OFF"
                 \/ \E s \in Requests : asked'[i] = {s} /\ Given(i, s)'
      <4>1. CASE i = r.reg
        BY <3>3, <4>1
      <4>2. CASE i # r.reg
        <5>1. pmpaddr'[i] = pmpaddr[i] /\ pmpcfg'[i] = pmpcfg[i] /\ asked'[i] = asked[i]
          BY <3>4, <4>2
        <5>2. CASE asked[i] = {} /\ pmpcfg[i].a = "OFF"
          BY <5>1, <5>2
        <5>3. ASSUME NEW s \in Requests, asked[i] = {s}, Given(i, s)
              PROVE  asked'[i] = {s} /\ Given(i, s)'
          BY <5>1, <5>3, Zenon DEF Given
        <5> QED
          BY <5>2, <5>3 DEF FirmwareIInv
      <4> QED
        BY <4>1, <4>2
    <3> QED
      BY <3>5, <3>6 DEF FirmwareIInv
  <2> QED
    BY <2>2, <2>3
<1> QED
  BY <1>1, <1>2 DEF Firmware!Next

LEMMA FirmwareSteps ==
    (unit = "firmware" => FirmwareIInv) /\ [NextRoutines]_units
      => (unit = "firmware" => FirmwareIInv)'
<1> SUFFICES ASSUME unit = "firmware" => FirmwareIInv, [NextRoutines]_units, unit' = "firmware"
    PROVE FirmwareIInv'
  OBVIOUS
<1>1. unit' = unit /\ [Firmware!Next]_firmware
  BY DEF NextRoutines, MakeSymbols, MapPages, SetPmp, FillMemory, PrintField, RouteTraps,
         TraceCalls, units
<1> QED
  BY <1>1, FirmwareStep

\* sbi_main.c: what sbi_set_pmp encodes, the hart decodes to the block of
\* the next power of two that was asked for, for words of every width; an
\* entry set before is not disturbed, and the lowest that matches decides.
THEOREM RegionsAreAsRequested == SpecRoutines => []AccessAsRequested
<1>1. InitRoutines => (unit = "firmware" => FirmwareIInv)
  BY DEF InitRoutines, Firmware!Init, FirmwareIInv
<1>2. (unit = "firmware" => FirmwareIInv) => AccessAsRequested
  BY FirmwareGrants DEF AccessAsRequested
<1> QED
  BY <1>1, <1>2, FirmwareSteps, PTL DEF SpecRoutines

-----------------------------------------------------------------------------
(* Traps.                                                                  *)
Vectors == {"none", "sbi_exception_vector", "FW_JUMP_ADDR",
            "do_exception_vector", "vs_exception_vector"}
RoutingTypeOK == /\ mode \in {"M", "S", "U", "VS"}
          /\ vector \in [{"M", "HS", "VS"} -> Vectors]
          /\ vector["M"] \in {"none", "sbi_exception_vector"}
          /\ enabled \subseteq {"M", "HS", "VS"}

(* What the firmware has given away by the time it leaves, and the kernel
   by the time it has a vector: neither gives before it can take.          *)
FirmwareGives ==
  IF vector["M"] = "sbi_exception_vector" /\ medeleg # {}
  THEN /\ medeleg = Routing!Faults \cup Routing!GuestFaults \cup {Routing!Cause.VirtualEcall}
       /\ mideleg = {Routing!Irq.S_SOFT, Routing!Irq.S_TIMER, Routing!Irq.S_EXT}
  ELSE mode = "M" /\ medeleg = {} /\ mideleg = {}
KernelGives ==
  IF vector["HS"] = "do_exception_vector"
  THEN /\ mode # "M"
       /\ hedeleg = Routing!Faults
       /\ hideleg = {Routing!Irq.VS_SOFT, Routing!Irq.VS_TIMER, Routing!Irq.VS_EXT}
  ELSE /\ hedeleg = {} /\ hideleg = {} /\ enabled = {}
       /\ mode = "M" \/ vector["HS"] = "FW_JUMP_ADDR"

(* Who runs below the kernel runs after its start, and interrupts come on
   in the order of the levels.                                             *)
StartOK ==
  /\ mode = "M" => trap = {}
  /\ mode \in {"U", "VS"} => "HS" \in enabled
  /\ "HS" \in enabled => "M" \in enabled
  /\ IF "VS" \in enabled THEN vector["VS"] = "vs_exception_vector" /\ mode = "VS"
     ELSE vector["VS"] = "none"

RoutingIInv == RoutingTypeOK /\ FirmwareGives /\ KernelGives /\ StartOK /\ Routing!TrapsFindHandlers

-----------------------------------------------------------------------------
(* What a trap is served by, level by level.                               *)
Reached(irq, c, level) ==
  LET does == Routing!Outcome(level, irq, Routing!Code(level, irq, c))
      s == Routing!Service(irq, c)
  IN  IF s # "report" THEN does.does = s
      ELSE \/ does = Routing!Report(c)
           \/ level = "HS" /\ does.does = "FW_JUMP_ADDR" /\ enabled = {}
           \/ level = "VS" /\ does.does = "none" /\ "VS" \notin enabled

\* A trap whose service is called has found it.
LEMMA Served ==
    ASSUME NEW irq, NEW c, NEW level, NEW routine, routine # "report",
           Routing!Service(irq, c) = routine,
           Routing!Outcome(level, irq, Routing!Code(level, irq, c)) = Routing!Call(routine)
    PROVE  Reached(irq, c, level)
<1>1. Routing!Call(routine).does = routine
  BY DEF Routing!Call
<1> QED
  BY <1>1, Zenon DEF Reached

\* An interrupt reaches the level that enabled it and serves it.
LEMMA InterruptFound ==
    ASSUME RoutingIInv, mode # "M", NEW c \in Routing!Interrupts(mode)
    PROVE  Reached(TRUE, c, Routing!Level(mode, TRUE, c))
<1>0. /\ mideleg = {1, 5, 9} /\ vector["M"] = "sbi_exception_vector"
      /\ enabled # {} => vector["HS"] = "do_exception_vector" /\ hideleg = {2, 6, 10}
      /\ "VS" \in enabled => mode = "VS" /\ vector["VS"] = "vs_exception_vector"
  BY DEF RoutingIInv, RoutingTypeOK, FirmwareGives, KernelGives, StartOK, Routing!Irq
<1>1. \/ c = 7 /\ "M" \in enabled
      \/ c \in {5, 9} /\ "HS" \in enabled
      \/ c = 6 /\ mode = "VS" /\ "VS" \in enabled
  BY DEF Routing!Interrupts, Routing!Irq
<1>2. CASE c = 7
  <2>1. Routing!Level(mode, TRUE, c) = "M"
    BY <1>0, <1>2 DEF Routing!Level, Routing!Irq
  <2>2. Routing!Outcome("M", TRUE, c) = Routing!Call("sbi_timer_process")
    BY <1>0, <1>2 DEF Routing!Outcome, Routing!SbiTrapHandler, Routing!Irq
  <2>3. Routing!Service(TRUE, c) = "sbi_timer_process"
    BY <1>2 DEF Routing!Service, Routing!Irq
  <2>4. Routing!Code("M", TRUE, c) = c
    BY DEF Routing!Code
  <2> QED
    BY <2>1, <2>2, <2>3, <2>4, Served
<1>3. CASE c \in {5, 9} /\ "HS" \in enabled
  <2>1. Routing!Level(mode, TRUE, c) = "HS"
    BY <1>0, <1>3 DEF Routing!Level, Routing!Irq
  <2> DEFINE routine == IF c = 5 THEN "handle_timer_irq" ELSE "plic_handle_irq"
  <2>2. Routing!Outcome("HS", TRUE, c) = Routing!DoException(TRUE, c)
    BY <1>0, <1>3 DEF Routing!Outcome
  <2>3. Routing!DoException(TRUE, c) = Routing!Call(routine)
    BY <1>3 DEF Routing!DoException, Routing!Irq
  <2>4. Routing!Service(TRUE, c) = routine /\ routine # "report"
    BY <1>3 DEF Routing!Service, Routing!Irq
  <2>5. Routing!Code("HS", TRUE, c) = c
    BY DEF Routing!Code
  <2> QED
    BY <2>1, <2>2, <2>3, <2>4, <2>5, Served
<1>4. CASE c = 6 /\ mode = "VS" /\ "VS" \in enabled
  <2>1. Routing!Level(mode, TRUE, c) = "VS"
    BY <1>0, <1>4 DEF Routing!Level, Routing!Irq
  <2>2. Routing!Outcome("VS", TRUE, 5) = Routing!Call("vs_handle_timer_irq")
    BY <1>0, <1>4 DEF Routing!Outcome, Routing!DoVsException, Routing!Irq
  <2>3. Routing!Service(TRUE, c) = "vs_handle_timer_irq" /\ Routing!Code("VS", TRUE, c) = 5
    BY <1>4 DEF Routing!Service, Routing!Code, Routing!Irq
  <2> QED
    BY <2>1, <2>2, <2>3, Served
<1> QED
  BY <1>1, <1>2, <1>3, <1>4

\* A fault or an ecall is served, or is reported under its own name, or meets
\* a level without a vector.
LEMMA ExceptionFound ==
    ASSUME RoutingIInv, mode # "M", NEW c \in Routing!Exceptions(mode)
    PROVE  Reached(FALSE, c, Routing!Level(mode, FALSE, c))
<1> DEFINE plain == {0, 2, 3, 5, 7, 12, 13, 15}
<1>0. /\ medeleg = plain \cup {8, 10, 20, 21, 23} /\ vector["M"] = "sbi_exception_vector"
      /\ vector["HS"] \in {"do_exception_vector", "FW_JUMP_ADDR"}
      /\ vector["HS"] = "FW_JUMP_ADDR" => enabled = {} /\ mode = "S"
      /\ hedeleg \in {{}, plain \cup {8}}
      /\ mode = "VS" => vector["HS"] = "do_exception_vector" /\ hedeleg = plain \cup {8}
      /\ mode \in {"U", "VS"} => vector["HS"] = "do_exception_vector"
      /\ IF "VS" \in enabled THEN vector["VS"] = "vs_exception_vector"
         ELSE vector["VS"] = "none"
  BY DEF RoutingIInv, RoutingTypeOK, FirmwareGives, KernelGives, StartOK,
     Routing!Faults, Routing!GuestFaults, Routing!Cause
<1>1. \/ c \in plain
      \/ c \in {1, 4, 6}
      \/ mode = "U" /\ c = 8
      \/ mode = "S" /\ c = 9
      \/ mode = "VS" /\ c \in {10, 20, 21, 22, 23}
  BY DEF Routing!Exceptions, Routing!Faults, Routing!GuestFaults, Routing!Cause
<1>2. CASE c \in plain
  <2>1. Routing!Service(FALSE, c) = "report" /\ Routing!FaultInfo(c) = Routing!Report(c)
    BY <1>2 DEF Routing!Service, Routing!FaultInfo, Routing!Cause, Routing!GuestFaults, Routing!Irq
  <2>2. Routing!Level(mode, FALSE, c) = IF mode = "VS" THEN "VS" ELSE "HS"
    BY <1>0, <1>2 DEF Routing!Level
  <2>3. /\ Routing!DoException(FALSE, c) = Routing!Report(c)
        /\ Routing!DoVsException(FALSE, c) = Routing!Report(c)
    BY <1>2, <2>1 DEF Routing!DoException, Routing!DoVsException, Routing!Cause,
       Routing!GuestFaults, Routing!Irq
  <2>4. CASE mode = "VS"
    BY <1>0, <2>1, <2>2, <2>3, <2>4 DEF Reached, Routing!Outcome, Routing!Code, Routing!Call
  <2>5. CASE mode # "VS"
    BY <1>0, <2>1, <2>2, <2>3, <2>5 DEF Reached, Routing!Outcome, Routing!Code, Routing!Call
  <2> QED
    BY <2>4, <2>5
<1>3. CASE c \in {1, 4, 6} \/ (mode = "VS" /\ c = 22)
  <2>1. Routing!Level(mode, FALSE, c) = "M"
    BY <1>0, <1>3 DEF Routing!Level
  <2>2. Routing!Service(FALSE, c) = "report"
    BY <1>3 DEF Routing!Service, Routing!Cause, Routing!GuestFaults, Routing!Irq
  <2>3. Routing!Outcome("M", FALSE, c) = Routing!Report(c)
    BY <1>0, <1>3 DEF Routing!Outcome, Routing!SbiTrapHandler, Routing!Cause, Routing!Irq
  <2> QED
    BY <2>1, <2>2, <2>3 DEF Reached, Routing!Code
<1>4. CASE mode = "S" /\ c = 9
  <2>1. Routing!Level(mode, FALSE, c) = "M"
    BY <1>0, <1>4 DEF Routing!Level
  <2>2. Routing!Outcome("M", FALSE, c) = Routing!Call("sbi_ecall_handle")
    BY <1>0, <1>4 DEF Routing!Outcome, Routing!SbiTrapHandler, Routing!Cause, Routing!Irq
  <2>3. Routing!Service(FALSE, c) = "sbi_ecall_handle"
    BY <1>4 DEF Routing!Service, Routing!Cause, Routing!GuestFaults, Routing!Irq
  <2>4. Routing!Code("M", FALSE, c) = c
    BY DEF Routing!Code
  <2> QED
    BY <2>1, <2>2, <2>3, <2>4, Served
<1>5. CASE (mode = "U" /\ c = 8) \/ (mode = "VS" /\ c \in {10, 20, 21, 23})
  <2>1. Routing!Level(mode, FALSE, c) = "HS"
    BY <1>0, <1>5 DEF Routing!Level
  <2>2. Routing!Outcome("HS", FALSE, c) = Routing!DoException(FALSE, c)
    BY <1>0, <1>5 DEF Routing!Outcome
  <2>3. /\ Routing!DoException(FALSE, c) = Routing!Call(Routing!Service(FALSE, c))
        /\ Routing!Service(FALSE, c) # "report"
    BY <1>5 DEF Routing!DoException, Routing!Service, Routing!Cause, Routing!GuestFaults,
       Routing!Irq
  <2>4. Routing!Code("HS", FALSE, c) = c
    BY DEF Routing!Code
  <2> QED
    BY <2>1, <2>2, <2>3, <2>4, Served
<1> QED
  BY <1>1, <1>2, <1>3, <1>4, <1>5

-----------------------------------------------------------------------------
(* One trap, named by its cause.                                           *)
TrapOf(irq, c) ==
  LET level == Routing!Level(mode, irq, c) IN
  /\ mode # "M" /\ trap = {}
  /\ trap' = {[irq |-> irq, cause |-> c, level |-> level,
                outcome |-> Routing!Outcome(level, irq, Routing!Code(level, irq, c))]}
  /\ UNCHANGED <<mode, vector, medeleg, mideleg, hedeleg, hideleg, enabled>>

LEMMA RoutingStep == RoutingIInv /\ [Routing!Next]_routing => RoutingIInv'
<1> SUFFICES ASSUME RoutingIInv, [Routing!Next]_routing PROVE RoutingIInv'
  OBVIOUS
<1> USE DEF RoutingIInv, RoutingTypeOK, FirmwareGives, KernelGives, StartOK,
            Routing!TrapsFindHandlers
<1>1. CASE UNCHANGED routing
  BY <1>1 DEF routing
<1>2. CASE Routing!sbi_trap_init
  BY <1>2 DEF Routing!sbi_trap_init, Vectors
<1>3. CASE Routing!delegate_traps
  <2>1. medeleg' # {}
    BY <1>3 DEF Routing!delegate_traps
  <2> QED
    BY <1>3, <2>1 DEF Routing!delegate_traps, Vectors
<1>4. CASE Routing!Mret
  BY <1>4 DEF Routing!Mret, Vectors
<1>5. CASE Routing!trap_init
  BY <1>5 DEF Routing!trap_init, Vectors
<1>6. CASE Routing!TimerInit
  BY <1>6 DEF Routing!TimerInit
<1>7. CASE Routing!IrqEnable
  BY <1>7 DEF Routing!IrqEnable
<1>8. CASE Routing!EnterUser
  BY <1>8 DEF Routing!EnterUser
<1>9. CASE Routing!EnterGuest
  BY <1>9 DEF Routing!EnterGuest
<1>10. CASE Routing!vs_trap_init
  BY <1>10 DEF Routing!vs_trap_init, Vectors
<1>11. CASE Routing!Trap
  <2>0. PICK irq \in BOOLEAN :
          \E c \in IF irq THEN Routing!Interrupts(mode) ELSE Routing!Exceptions(mode) :
             TrapOf(irq, c)
    BY <1>11 DEF Routing!Trap, TrapOf
  <2>1. PICK c \in IF irq THEN Routing!Interrupts(mode) ELSE Routing!Exceptions(mode) :
               TrapOf(irq, c)
    BY <2>0
  <2> USE DEF TrapOf
  <2>2. Reached(irq, c, Routing!Level(mode, irq, c))
    <3>1. CASE irq
      BY <2>1, <3>1, InterruptFound
    <3>2. CASE ~irq
      BY <2>1, <3>2, ExceptionFound
    <3> QED
      BY <3>1, <3>2
  <2>3. Routing!TrapsFindHandlers'
    BY <2>1, <2>2 DEF Reached
  <2> QED
    BY <2>1, <2>3
<1>12. CASE Routing!TrapReturn
  BY <1>12 DEF Routing!TrapReturn
<1> QED
  BY <1>1, <1>2, <1>3, <1>4, <1>5, <1>6, <1>7, <1>8, <1>9, <1>10, <1>11, <1>12 DEF Routing!Next

LEMMA RoutingSteps ==
    (unit = "routing" => RoutingIInv) /\ [NextRoutines]_units
      => (unit = "routing" => RoutingIInv)'
<1> SUFFICES ASSUME unit = "routing" => RoutingIInv, [NextRoutines]_units, unit' = "routing"
    PROVE RoutingIInv'
  OBVIOUS
<1>1. unit' = unit /\ [Routing!Next]_routing
  BY DEF NextRoutines, MakeSymbols, MapPages, SetPmp, FillMemory, PrintField, RouteTraps,
         TraceCalls, units
<1> QED
  BY <1>1, RoutingStep

\* sbi_trap.c, trap.c, vs_trap.c: what the system runs on reaches the routine
\* that serves it; other faults are reported under their own name, or meet a
\* level that has not set its vector yet.
THEOREM EveryTrapIsServed == SpecRoutines => []TrapsFindHandlers
<1>1. InitRoutines => (unit = "routing" => RoutingIInv)
  BY DEF InitRoutines, Routing!Init, RoutingIInv, RoutingTypeOK, FirmwareGives, KernelGives,
         StartOK, Routing!TrapsFindHandlers, Vectors
<1>2. (unit = "routing" => RoutingIInv) => TrapsFindHandlers
  BY DEF RoutingIInv, TrapsFindHandlers
<1> QED
  BY <1>1, <1>2, RoutingSteps, PTL DEF SpecRoutines

-----------------------------------------------------------------------------
(* walk_stackframe.                                                        *)

\* Where each running function has its stack and its frame pointer: the
\* caller's are found in the two words below the frame pointer.
Linked(S, F) ==
    LET n == Len(chain)
    IN  /\ S \in [1 .. n -> Int] /\ F \in [1 .. n -> Int]
        /\ S[1] = sp /\ F[1] = fp
        /\ \A i \in 1 .. n : sp + 2 * (i - 1) <= S[i] /\ S[i] <= Top
        /\ \A i \in 1 .. n - 1 :
             /\ F[i] >= S[i] + 2 /\ F[i] % 2 = 0 /\ S[i + 1] = F[i]
             /\ mem[F[i] - 1] = chain[i + 1] + 1 /\ mem[F[i] - 2] = F[i + 1]
        /\ F[n] \in {0, 1}
TracerIInv ==
    /\ sp \in TextEnd .. Top /\ sp % 2 = 0 /\ fp \in 0 .. Top /\ ra \in Sites
    /\ mem \in [Tracer!Stack -> 0 .. Top]
    /\ chain \in Seq(Sites) /\ Len(chain) >= 1 /\ chain[1] = ra
    /\ ~smashed => \E S, F : Linked(S, F)

\* The loop, and a solution of the recursive definition of its rounds.
Walk(w) ==
    IF w.done \/ ~Tracer!KernelText(w.p) THEN [w EXCEPT !.done = TRUE]
    ELSE IF Tracer!ValidFp(w.f, w.s)
         THEN [p |-> Tracer!Load(w.f - 1) - 1, s |-> w.f, f |-> Tracer!Load(w.f - 2),
               shown |-> Append(w.shown, w.p), done |-> FALSE]
         ELSE [w EXCEPT !.shown = Append(@, w.p), !.done = TRUE]
Begin == [p |-> ra, s |-> sp, f |-> fp, shown |-> <<>>, done |-> FALSE]
IsWalk(g, n) == g = [k \in 0 .. n |-> IF k = 0 THEN Begin ELSE Walk(g[k - 1])]

LEMMA WalksExist ==
    ASSUME NEW n \in Nat
    PROVE  \E g : IsWalk(g, n)
<1> DEFINE Bad == {k \in Nat : ~ \E g : IsWalk(g, k)}
<1> SUFFICES ASSUME Bad # {} PROVE FALSE
  OBVIOUS
<1>1. PICK m \in Bad : \A k \in Bad : m <= k
  BY LeastNat
<1>2. CASE m = 0
  <2>1. IsWalk([k \in 0 .. 0 |-> Begin], 0)
    BY DEF IsWalk
  <2> QED
    BY <1>2, <2>1
<1>3. CASE m # 0
  <2>1. PICK g : IsWalk(g, m - 1)
    BY <1>1, <1>3
  <2> DEFINE new == [k \in 0 .. m |-> IF k = m THEN Walk(g[m - 1]) ELSE g[k]]
  <2>2. \A k \in 0 .. m - 1 : g[k] = IF k = 0 THEN Begin ELSE Walk(g[k - 1])
    BY <2>1, Zenon DEF IsWalk
  <2>3. ASSUME NEW k \in 0 .. m PROVE new[k] = IF k = 0 THEN Begin ELSE Walk(new[k - 1])
    <3> HIDE DEF Walk, Begin
    <3> QED
      BY <1>3, <2>2
  <2>4. new = [k \in 0 .. m |-> IF k = 0 THEN Begin ELSE Walk(new[k - 1])]
    BY <2>3
  <2>5. IsWalk(new, m)
    <3> HIDE DEF new
    <3> QED
      BY <2>4, Zenon DEF IsWalk
  <2> QED
    BY <1>1, <2>5
<1> QED
  BY <1>2, <1>3

\* What holds of a walk over any stack: every round goes two words up.
Walks == [p : Int, s : TextEnd .. Top, f : 0 .. Top, shown : Seq(Int), done : BOOLEAN]
Climbing(w, k) ==
    /\ w \in Walks
    /\ w.done => Len(w.shown) <= Tracer!MostFrames
    /\ ~w.done => Len(w.shown) = k /\ w.s >= TextEnd + 2 * k

LEMMA LoadIsWord ==
    ASSUME TracerIInv
    PROVE  \A a \in Int : Tracer!Load(a) \in 0 .. Top /\ Tracer!Load(a) \in Int
BY StackAssumption DEF TracerIInv, Tracer!Load

LEMMA ClimbsOn ==
    ASSUME TracerIInv, NEW k \in Nat, NEW w, Climbing(w, k)
    PROVE  Climbing(Walk(w), k + 1)
<1>1. TextEnd \in Nat /\ Top \in Nat /\ TextEnd <= Top
  BY StackAssumption
<1>2. /\ w \in Walks /\ w.shown \in Seq(Int) /\ w.p \in Int /\ w.s \in Int /\ w.f \in Int
      /\ w.s <= Top /\ w.f <= Top /\ TextEnd <= w.s /\ 0 <= w.f
  BY <1>1 DEF Climbing, Walks
<1> DEFINE x == Walk(w)
           more == Append(w.shown, w.p)
<1>3. more \in Seq(Int) /\ Len(more) = Len(w.shown) + 1 /\ Len(w.shown) \in Nat
  BY <1>2, AppendProperties, LenProperties
<1> HIDE DEF more
<1>4. Tracer!MostFrames = (Top - TextEnd) \div 2 + 1
  BY DEF Tracer!MostFrames
<1>5. CASE w.done
  <2>1. x = [w EXCEPT !.done = TRUE]
    BY <1>5 DEF Walk
  <2>2. x \in Walks /\ x.done /\ x.shown = w.shown
    BY <1>2, <2>1 DEF Walks
  <2> QED
    BY <1>5, <2>2 DEF Climbing
<1>6. ASSUME ~w.done PROVE Len(w.shown) = k /\ k + 1 <= Tracer!MostFrames
  <2>1. Len(w.shown) = k /\ w.s >= TextEnd + 2 * k
    BY <1>6 DEF Climbing
  <2>2. 2 * k <= Top - TextEnd
    BY <1>1, <1>2, <2>1
  <2>3. k <= (Top - TextEnd) \div 2
    BY <1>1, <2>2
  <2> QED
    BY <1>1, <1>4, <2>1, <2>3
<1>7. CASE ~w.done /\ ~Tracer!KernelText(w.p)
  <2>1. x = [w EXCEPT !.done = TRUE]
    BY <1>7 DEF Walk
  <2>2. x \in Walks /\ x.done /\ x.shown = w.shown
    BY <1>2, <2>1 DEF Walks
  <2>3. Len(w.shown) <= Tracer!MostFrames
    BY <1>1, <1>4, <1>6, <1>7
  <2> QED
    BY <2>2, <2>3 DEF Climbing
<1>8. CASE ~w.done /\ Tracer!KernelText(w.p) /\ ~Tracer!ValidFp(w.f, w.s)
  <2>1. x = [w EXCEPT !.shown = more, !.done = TRUE]
    BY <1>8 DEF Walk, more
  <2>2. x \in Walks /\ x.done /\ x.shown = more
    BY <1>2, <1>3, <2>1 DEF Walks
  <2> QED
    BY <1>3, <1>6, <1>8, <2>2 DEF Climbing
<1>9. CASE ~w.done /\ Tracer!KernelText(w.p) /\ Tracer!ValidFp(w.f, w.s)
  <2>1. x = [p |-> Tracer!Load(w.f - 1) - 1, s |-> w.f, f |-> Tracer!Load(w.f - 2),
             shown |-> more, done |-> FALSE]
    BY <1>9 DEF Walk, more
  <2>2. /\ Tracer!Load(w.f - 1) - 1 \in Int /\ Tracer!Load(w.f - 2) \in 0 .. Top
    <3>1. w.f - 1 \in Int /\ w.f - 2 \in Int
      BY <1>2
    <3>2. Tracer!Load(w.f - 1) \in Int /\ Tracer!Load(w.f - 2) \in 0 .. Top
      BY <3>1, LoadIsWord
    <3> QED
      BY <3>2
  <2>3. w.f >= w.s + 2
    BY <1>9 DEF Tracer!ValidFp
  <2>4. w.f \in TextEnd .. Top /\ w.f >= TextEnd + 2 * (k + 1)
    BY <1>1, <1>2, <1>9, <2>3 DEF Climbing
  <2>5. x \in Walks /\ ~x.done /\ x.shown = more /\ x.s = w.f
    BY <1>3, <2>1, <2>2, <2>4 DEF Walks
  <2> QED
    BY <1>3, <1>6, <1>9, <2>4, <2>5 DEF Climbing
<1> QED
  BY <1>5, <1>7, <1>8, <1>9

\* What holds of a walk over an intact stack: it is where the k-th caller is,
\* or it has shown the chain.
Agrees(l, k) == Len(l) = k /\ \A i \in 1 .. k : l[i] = chain[i]
Following(w, k, S, F) ==
    /\ k < Len(chain) => /\ ~w.done /\ w.p = chain[k + 1] /\ w.s = S[k + 1] /\ w.f = F[k + 1]
                         /\ Agrees(w.shown, k)
    /\ k >= Len(chain) => w.done /\ Agrees(w.shown, Len(chain))

LEMMA FollowsOn ==
    ASSUME TracerIInv, NEW S, NEW F, Linked(S, F),
           NEW k \in Nat, NEW w \in Walks, Following(w, k, S, F)
    PROVE  Following(Walk(w), k + 1, S, F)
<1> DEFINE n == Len(chain)
           x == Walk(w)
           more == Append(w.shown, w.p)
<1>1. /\ TextEnd \in Nat /\ Top \in Nat /\ TextEnd <= Top /\ Sites \in SUBSET (1 .. TextEnd - 1)
      /\ n \in Nat /\ n >= 1 /\ sp \in Int /\ TextEnd <= sp
  BY StackAssumption, LenProperties DEF TracerIInv
<1>2. \A i \in 1 .. n : chain[i] \in Sites
  BY ElementOfSeq DEF TracerIInv
<1>3. /\ w.shown \in Seq(Int) /\ w.p \in Int /\ w.s \in Int /\ w.f \in Int
  BY <1>1 DEF Walks
<1>4. /\ Len(more) = Len(w.shown) + 1 /\ Len(w.shown) \in Nat
      /\ \A i \in 1 .. Len(w.shown) : more[i] = w.shown[i]
      /\ more[Len(w.shown) + 1] = w.p
  BY <1>3, AppendProperties, LenProperties
<1>10. \A i \in 1 .. n : chain[i] \in Int /\ 1 <= chain[i] /\ chain[i] < TextEnd
  <2> TAKE i \in 1 .. n
  <2>1. chain[i] \in 1 .. TextEnd - 1
    BY <1>1, <1>2
  <2> QED
    BY <1>1, <2>1
<1>11. \A i \in 1 .. n : TextEnd <= S[i] /\ S[i] <= Top /\ S[i] \in Int
  <2> TAKE i \in 1 .. n
  <2>1. sp + 2 * (i - 1) <= S[i] /\ S[i] <= Top /\ S[i] \in Int
    BY DEF Linked
  <2> QED
    BY <1>1, <2>1
<1> HIDE DEF more, n
<1>5. CASE k >= n
  <2>1. x = [w EXCEPT !.done = TRUE] /\ w.done
    BY <1>5 DEF Walk, Following, n
  <2>2. x.done /\ x.shown = w.shown
    BY <2>1 DEF Walks
  <2>3. Agrees(x.shown, n)
    BY <1>5, <2>2 DEF Following, n
  <2>4. ~(k + 1 < n)
    BY <1>1, <1>5
  <2> QED
    BY <2>2, <2>3, <2>4 DEF Following, n
<1>6. CASE k < n
  <2>1. /\ ~w.done /\ w.p = chain[k + 1] /\ w.s = S[k + 1] /\ w.f = F[k + 1]
        /\ Agrees(w.shown, k)
    BY <1>6 DEF Following, n
  <2>2. k + 1 \in 1 .. n
    BY <1>1, <1>6
  <2>3. Tracer!KernelText(w.p)
    BY <1>1, <1>10, <2>1, <2>2 DEF Tracer!KernelText
  <2>4. Agrees(more, k + 1)
    <3>1. Len(more) = k + 1
      BY <1>4, <2>1 DEF Agrees
    <3>2. ASSUME NEW i \in 1 .. k + 1 PROVE more[i] = chain[i]
      <4>1. CASE i = k + 1
        BY <1>4, <2>1, <4>1 DEF Agrees
      <4>2. CASE i # k + 1
        <5>1. i \in 1 .. k
          BY <4>2
        <5> QED
          BY <1>4, <2>1, <5>1 DEF Agrees
      <4> QED
        BY <4>1, <4>2
    <3> QED
      BY <3>1, <3>2 DEF Agrees
  <2>5. CASE k + 1 = n
    <3>1. w.f \in {0, 1}
      BY <2>1, <2>5 DEF Linked, n
    <3>2. TextEnd <= w.s
      BY <1>11, <2>1, <2>2
    <3>3. TextEnd >= 1
      BY <1>1, <1>10, <2>2
    <3>4. ~Tracer!ValidFp(w.f, w.s)
      BY <1>1, <1>3, <3>1, <3>2, <3>3 DEF Tracer!ValidFp
    <3>5. x = [w EXCEPT !.shown = more, !.done = TRUE]
      BY <2>1, <2>3, <3>4 DEF Walk, more
    <3>6. x.done /\ x.shown = more
      BY <3>5 DEF Walks
    <3> QED
      BY <2>4, <2>5, <3>6 DEF Following, n
  <2>6. CASE k + 1 < n
    <3>1. k + 1 \in 1 .. n - 1 /\ (k + 1) + 1 \in 1 .. n
      BY <1>1, <2>2, <2>6
    <3>2. /\ F[k + 1] >= S[k + 1] + 2 /\ F[k + 1] % 2 = 0 /\ S[(k + 1) + 1] = F[k + 1]
          /\ mem[F[k + 1] - 1] = chain[(k + 1) + 1] + 1
          /\ mem[F[k + 1] - 2] = F[(k + 1) + 1]
      BY <3>1 DEF Linked, n
    <3>3. Tracer!ValidFp(w.f, w.s)
      BY <2>1, <3>2 DEF Tracer!ValidFp
    <3>4. TextEnd <= w.s /\ w.f <= Top
      <4>1. w.f = S[(k + 1) + 1]
        BY <2>1, <3>2
      <4> QED
        BY <1>11, <2>1, <2>2, <3>1, <4>1
    <3>5. w.f - 1 \in Tracer!Stack /\ w.f - 2 \in Tracer!Stack
      <4>1. w.f >= w.s + 2
        BY <2>1, <3>2
      <4>2. TextEnd \in Int /\ Top \in Int /\ w.s \in Int /\ w.f \in Int
        BY <1>1, <1>3
      <4>3. w.f - 1 \in TextEnd .. Top - 1 /\ w.f - 2 \in TextEnd .. Top - 1
        BY <3>4, <4>1, <4>2
      <4> QED
        BY <4>3, Zenon DEF Tracer!Stack
    <3>6. Tracer!Load(w.f - 1) = chain[(k + 1) + 1] + 1 /\ Tracer!Load(w.f - 2) = F[(k + 1) + 1]
      BY <2>1, <3>2, <3>5 DEF Tracer!Load
    <3>7. x = [p |-> Tracer!Load(w.f - 1) - 1, s |-> w.f, f |-> Tracer!Load(w.f - 2),
               shown |-> more, done |-> FALSE]
      BY <2>1, <2>3, <3>3 DEF Walk, more
    <3>8. /\ ~x.done /\ x.shown = more /\ x.s = S[(k + 1) + 1] /\ x.f = F[(k + 1) + 1]
          /\ x.p = (chain[(k + 1) + 1] + 1) - 1
      BY <2>1, <3>2, <3>6, <3>7
    <3>9. chain[(k + 1) + 1] \in Int
      BY <1>10, <3>1
    <3>10. x.p = chain[(k + 1) + 1]
      BY <3>8, <3>9
    <3> QED
      BY <1>1, <2>4, <2>6, <3>8, <3>10 DEF Following, n
  <2> QED
    BY <1>1, <2>2, <2>5, <2>6
<1> QED
  BY <1>1, <1>5, <1>6

\* The walk ends on every stack, and on an intact one shows the chain.
LEMMA TraceRight ==
    ASSUME TracerIInv
    PROVE  Tracer!TraceIsTheCallChain
<1> DEFINE N == Tracer!MostFrames + 1
           n == Len(chain)
           g == CHOOSE h : IsWalk(h, N)
<1>1. /\ TextEnd \in Nat /\ Top \in Nat /\ TextEnd <= Top /\ Sites \in SUBSET (1 .. TextEnd - 1)
      /\ sp \in Int /\ TextEnd <= sp /\ sp <= Top /\ fp \in 0 .. Top /\ ra \in Sites
      /\ n \in Nat /\ n >= 1 /\ chain[1] = ra /\ chain \in Seq(Sites)
  BY StackAssumption, LenProperties DEF TracerIInv
<1>2. N \in Nat /\ N >= 2 /\ N = (Top - TextEnd) \div 2 + 2
  BY <1>1 DEF Tracer!MostFrames
<1>3. IsWalk(g, N)
  <2> HIDE DEF N
  <2> QED
    BY <1>2, WalksExist
<1>4. Tracer!Trace = g[N].shown
  BY DEF Tracer!Trace, IsWalk, Walk, Begin
<1> HIDE DEF g, N
<1>5. \A k \in 0 .. N : g[k] = IF k = 0 THEN Begin ELSE Walk(g[k - 1])
  BY <1>3, Zenon DEF IsWalk
<1>6. \A k \in 0 .. N : Climbing(g[k], k)
  <2> DEFINE Bad == {k \in 0 .. N : ~Climbing(g[k], k)}
  <2> SUFFICES ASSUME Bad # {} PROVE FALSE
    OBVIOUS
  <2>1. PICK k \in Bad : \A l \in Bad : k <= l
    <3>1. Bad \in SUBSET Nat
      BY <1>2
    <3> HIDE DEF Bad
    <3> QED
      BY <3>1, LeastNat
  <2>2. CASE k = 0
    <3>1. g[0] = Begin
      BY <1>2, <1>5
    <3>2. <<>> \in Seq(Int) /\ Len(<<>>) = 0
      OBVIOUS
    <3>3. Begin \in Walks /\ ~Begin.done /\ Begin.shown = <<>> /\ Begin.s = sp
      BY <1>1, <3>2 DEF Begin, Walks
    <3>4. Climbing(Begin, 0)
      BY <1>1, <3>2, <3>3 DEF Climbing
    <3> QED
      BY <2>1, <2>2, <3>1, <3>4
  <2>3. CASE k # 0
    <3>1. k - 1 \in Nat /\ k - 1 \in 0 .. N /\ ~(k <= k - 1) /\ (k - 1) + 1 = k
      BY <1>2, <2>1, <2>3
    <3>2. Climbing(g[k - 1], k - 1)
      BY <2>1, <3>1
    <3>3. Climbing(Walk(g[k - 1]), (k - 1) + 1)
      BY <3>1, <3>2, ClimbsOn
    <3>4. g[k] = Walk(g[k - 1])
      BY <1>5, <2>1, <2>3
    <3> QED
      BY <2>1, <3>1, <3>3, <3>4
  <2> QED
    BY <2>2, <2>3
<1>7. Len(Tracer!Trace) <= Tracer!MostFrames
  <2> DEFINE w == g[N]
  <2>1. Climbing(w, N)
    BY <1>2, <1>6
  <2> HIDE DEF w
  <2>2. w.s \in TextEnd .. Top
    BY <2>1 DEF Climbing, Walks
  <2>3. w.done
    <3> SUFFICES ASSUME ~w.done PROVE FALSE
      OBVIOUS
    <3>1. w.s >= TextEnd + 2 * N /\ w.s <= Top
      BY <1>1, <2>1, <2>2 DEF Climbing
    <3> QED
      BY <1>1, <1>2, <2>2, <3>1
  <2> QED
    BY <1>4, <2>1, <2>3 DEF Climbing, w
<1>8. ASSUME ~smashed PROVE Tracer!Trace = chain
  <2>1. PICK S, F : Linked(S, F)
    BY <1>8 DEF TracerIInv
  <2>2. n <= N
    <3>1. n \in 1 .. n
      BY <1>1
    <3>2. sp + 2 * (n - 1) <= S[n] /\ S[n] <= Top /\ S[n] \in Int
      BY <2>1, <3>1 DEF Linked
    <3>3. 2 * (n - 1) <= Top - TextEnd
      BY <1>1, <3>2
    <3> QED
      BY <1>1, <1>2, <3>3
  <2>3. \A k \in 0 .. N : Following(g[k], k, S, F)
    <3> DEFINE Bad == {k \in 0 .. N : ~Following(g[k], k, S, F)}
    <3> SUFFICES ASSUME Bad # {} PROVE FALSE
      OBVIOUS
    <3>1. PICK k \in Bad : \A l \in Bad : k <= l
      <4>1. Bad \in SUBSET Nat
        BY <1>2
      <4> HIDE DEF Bad
      <4> QED
        BY <4>1, LeastNat
    <3>2. CASE k = 0
      <4>1. g[0] = Begin
        BY <1>2, <1>5
      <4>2. /\ ~Begin.done /\ Begin.shown = <<>> /\ Begin.s = sp /\ Begin.f = fp /\ Begin.p = ra
            /\ Len(<<>>) = 0
        BY DEF Begin
      <4>3. S[1] = sp /\ F[1] = fp /\ chain[1] = ra
        BY <1>1, <2>1 DEF Linked
      <4>4. Following(Begin, 0, S, F)
        BY <1>1, <4>2, <4>3 DEF Following, Agrees
      <4> QED
        BY <3>1, <3>2, <4>1, <4>4
    <3>3. CASE k # 0
      <4>1. k - 1 \in Nat /\ k - 1 \in 0 .. N /\ ~(k <= k - 1) /\ (k - 1) + 1 = k
        BY <1>2, <3>1, <3>3
      <4>2. Following(g[k - 1], k - 1, S, F) /\ g[k - 1] \in Walks
        BY <1>6, <3>1, <4>1 DEF Climbing
      <4>3. Following(Walk(g[k - 1]), (k - 1) + 1, S, F)
        BY <2>1, <4>1, <4>2, FollowsOn
      <4>4. g[k] = Walk(g[k - 1])
        BY <1>5, <3>1, <3>3
      <4> QED
        BY <3>1, <4>1, <4>3, <4>4
    <3> QED
      BY <3>2, <3>3
  <2>4. Agrees(g[N].shown, n)
    <3>1. Following(g[N], N, S, F)
      BY <1>2, <2>3
    <3> QED
      BY <1>1, <1>2, <2>2, <3>1 DEF Following
  <2>5. g[N].shown \in Seq(Int) /\ chain \in Seq(Int)
    <3>1. g[N] \in Walks
      BY <1>2, <1>6 DEF Climbing
    <3>2. g[N].shown \in Seq(Int)
      BY <3>1 DEF Walks
    <3>3. chain \in Seq(Int)
      BY <1>1, Sites \subseteq Int, SeqMonotonic
    <3> QED
      BY <3>2, <3>3
  <2> DEFINE l == g[N].shown
  <2>6. Len(l) = Len(chain) /\ \A i \in 1 .. Len(l) : l[i] = chain[i]
    BY <2>4 DEF Agrees
  <2> HIDE DEF l
  <2>7. l = chain
    BY <2>5, <2>6, SeqEqual DEF l
  <2> QED
    BY <1>4, <2>7 DEF l
<1> QED
  BY <1>7, <1>8 DEF Tracer!TraceIsTheCallChain
-----------------------------------------------------------------------------
LEMMA TracerInit ==
    ASSUME Tracer!Init
    PROVE  TracerIInv
<1> DEFINE S == [i \in 1 .. 1 |-> sp]
           F == [i \in 1 .. 1 |-> fp]
<1>1. /\ TextEnd \in Nat /\ Top \in Nat /\ TextEnd <= Top /\ Top % 2 = 0
      /\ Sites \in SUBSET (1 .. TextEnd - 1)
      /\ sp = Top /\ fp \in {0, 1} /\ ra \in Sites /\ chain = <<ra>>
      /\ mem = [a \in Tracer!Stack |-> 0]
  BY StackAssumption DEF Tracer!Init
<1>2. Top >= 1
  BY <1>1
<1>3. chain \in Seq(Sites) /\ Len(chain) = 1 /\ chain[1] = ra
  BY <1>1
<1>4. Linked(S, F)
  BY <1>1, <1>2, <1>3 DEF Linked
<1> HIDE DEF S, F
<1> QED
  BY <1>1, <1>2, <1>3, <1>4 DEF TracerIInv

\* What a function stores when it is called is below the frames there are.
LEMMA FrameKept ==
    ASSUME TracerIInv, mem' = [mem EXCEPT ![sp - 1] = ra + 1, ![sp - 2] = fp],
           NEW f \in Int, f >= sp + 2, f <= Top
    PROVE  mem'[f - 1] = mem[f - 1] /\ mem'[f - 2] = mem[f - 2]
<1>1. /\ TextEnd \in Int /\ Top \in Int /\ sp \in Int /\ TextEnd <= sp
      /\ mem \in [Tracer!Stack -> 0 .. Top]
  BY StackAssumption DEF TracerIInv
<1>2. f - 1 \in TextEnd .. Top - 1 /\ f - 2 \in TextEnd .. Top - 1
  BY <1>1
<1>3. f - 1 # sp - 1 /\ f - 1 # sp - 2 /\ f - 2 # sp - 1 /\ f - 2 # sp - 2
  BY <1>1
<1>4. f - 1 \in Tracer!Stack /\ f - 2 \in Tracer!Stack
  BY <1>2 DEF Tracer!Stack
<1> QED
  BY <1>1, <1>3, <1>4

LEMMA TracerCall ==
    ASSUME TracerIInv, NEW size \in Sizes, NEW site \in Sites,
           sp - size >= TextEnd,
           mem' = [mem EXCEPT ![sp - 1] = ra + 1, ![sp - 2] = fp],
           fp' = sp, sp' = sp - size, ra' = site,
           chain' = <<site>> \o chain, smashed' = smashed
    PROVE  TracerIInv'
<1> DEFINE n == Len(chain)
<1>1. /\ TextEnd \in Nat /\ Top \in Nat /\ TextEnd <= Top /\ Sites \in SUBSET (1 .. TextEnd - 1)
      /\ size \in Nat /\ size >= 2 /\ size % 2 = 0
      /\ sp \in Int /\ TextEnd <= sp /\ sp <= Top /\ sp % 2 = 0 /\ fp \in 0 .. Top /\ ra \in Sites
      /\ n \in Nat /\ n >= 1 /\ chain[1] = ra /\ chain \in Seq(Sites)
      /\ mem \in [Tracer!Stack -> 0 .. Top]
  BY StackAssumption, LenProperties DEF TracerIInv
<1>2. (sp - size) % 2 = 0
  <2>1. sp \in Int /\ size \in Int /\ sp % 2 = 0 /\ size % 2 = 0
    BY <1>1
  <2> QED
    BY <2>1
<1>3. mem' \in [Tracer!Stack -> 0 .. Top]
  <2>1. ra + 1 \in 0 .. Top
    BY <1>1
  <2> QED
    BY <1>1, <2>1
<1>4. /\ chain' \in Seq(Sites) /\ Len(chain') = n + 1 /\ chain'[1] = site
      /\ \A i \in 1 .. n : chain'[i + 1] = chain[i]
  <2>1. <<site>> \in Seq(Sites) /\ Len(<<site>>) = 1 /\ <<site>>[1] = site
    OBVIOUS
  <2>2. /\ <<site>> \o chain \in Seq(Sites) /\ Len(<<site>> \o chain) = 1 + n
        /\ \A i \in 1 .. 1 + n :
             (<<site>> \o chain)[i] = IF i <= 1 THEN <<site>>[i] ELSE chain[i - 1]
    BY <1>1, <2>1, ConcatProperties
  <2> QED
    BY <1>1, <2>1, <2>2
<1>5. ASSUME ~smashed PROVE \E S, F : Linked(S, F)'
  <2>1. PICK S, F : Linked(S, F)
    BY <1>5 DEF TracerIInv
  <2> DEFINE S2 == [i \in 1 .. n + 1 |-> IF i = 1 THEN sp - size ELSE S[i - 1]]
             F2 == [i \in 1 .. n + 1 |-> IF i = 1 THEN sp ELSE F[i - 1]]
  <2>2. /\ S \in [1 .. n -> Int] /\ F \in [1 .. n -> Int] /\ S[1] = sp /\ F[1] = fp
        /\ \A i \in 1 .. n : sp + 2 * (i - 1) <= S[i] /\ S[i] <= Top
        /\ \A i \in 1 .. n - 1 :
             /\ F[i] >= S[i] + 2 /\ F[i] % 2 = 0 /\ S[i + 1] = F[i]
             /\ mem[F[i] - 1] = chain[i + 1] + 1 /\ mem[F[i] - 2] = F[i + 1]
        /\ F[n] \in {0, 1}
    BY <2>1 DEF Linked
  <2>3. /\ S2 \in [1 .. n + 1 -> Int] /\ F2 \in [1 .. n + 1 -> Int]
        /\ S2[1] = sp - size /\ F2[1] = sp
        /\ \A i \in 1 .. n : S2[i + 1] = S[i] /\ F2[i + 1] = F[i]
    <3>1. \A i \in 1 .. n + 1 : i # 1 => i - 1 \in 1 .. n
      BY <1>1
    <3>2. sp \in Int /\ size \in Int /\ sp - size \in Int
      BY <1>1
    <3>3. \A i \in 1 .. n : i + 1 \in 1 .. n + 1 /\ i + 1 # 1 /\ (i + 1) - 1 = i
      BY <1>1
    <3>4. S2 \in [1 .. n + 1 -> Int]
      BY <2>2, <3>1, <3>2
    <3>5. F2 \in [1 .. n + 1 -> Int]
      BY <2>2, <3>1, <3>2
    <3>6. 1 \in 1 .. n + 1
      BY <1>1
    <3> QED
      BY <3>3, <3>4, <3>5, <3>6
  <2>4. F2[n + 1] \in {0, 1}
    <3>1. n \in 1 .. n
      BY <1>1
    <3> QED
      BY <2>2, <2>3, <3>1
  <2> HIDE DEF S2, F2
  <2>5. ASSUME NEW i \in 1 .. n + 1
        PROVE  (sp - size) + 2 * (i - 1) <= S2[i] /\ S2[i] <= Top
    <3>1. CASE i = 1
      BY <1>1, <2>3, <3>1
    <3>2. CASE i # 1
      <4>1. i - 1 \in 1 .. n /\ (i - 1) + 1 = i
        BY <1>1, <3>2
      <4>2. S2[i] = S[i - 1] /\ S[i - 1] \in Int
        BY <2>2, <2>3, <4>1
      <4>3. sp + 2 * ((i - 1) - 1) <= S[i - 1] /\ S[i - 1] <= Top
        BY <2>2, <4>1
      <4> QED
        BY <1>1, <4>1, <4>2, <4>3
    <3> QED
      BY <3>1, <3>2
  <2>6. ASSUME NEW i \in 1 .. n
        PROVE  /\ F2[i] >= S2[i] + 2 /\ F2[i] % 2 = 0 /\ S2[i + 1] = F2[i]
               /\ mem'[F2[i] - 1] = chain'[i + 1] + 1 /\ mem'[F2[i] - 2] = F2[i + 1]
    <3>1. CASE i = 1
      <4>1. sp - 1 \in Tracer!Stack /\ sp - 2 \in Tracer!Stack /\ sp - 1 # sp - 2
        BY <1>1 DEF Tracer!Stack
      <4>2. mem'[sp - 1] = ra + 1 /\ mem'[sp - 2] = fp
        BY <1>1, <4>1
      <4>3. F2[2] = F[1] /\ S2[2] = S[1] /\ chain'[2] = chain[1]
        <5>1. 1 \in 1 .. n /\ 1 + 1 = 2
          BY <1>1
        <5> QED
          BY <1>4, <2>3, <5>1
      <4>4. F2[1] >= S2[1] + 2 /\ F2[1] % 2 = 0
        BY <1>1, <2>3
      <4>5. S2[2] = F2[1] /\ mem'[F2[1] - 1] = chain'[2] + 1 /\ mem'[F2[1] - 2] = F2[2]
        BY <1>1, <2>2, <2>3, <4>2, <4>3
      <4> QED
        BY <3>1, <4>4, <4>5
    <3>2. CASE i # 1
      <4>1. i - 1 \in 1 .. n - 1 /\ i - 1 \in 1 .. n /\ (i - 1) + 1 = i /\ i \in 1 .. n
        BY <1>1, <3>2
      <4>2. /\ S2[i] = S[i - 1] /\ F2[i] = F[i - 1] /\ S2[i + 1] = S[i] /\ F2[i + 1] = F[i]
            /\ chain'[i + 1] = chain[i]
        BY <1>4, <2>3, <4>1
      <4>3. /\ F[i - 1] >= S[i - 1] + 2 /\ F[i - 1] % 2 = 0 /\ S[i] = F[i - 1]
            /\ mem[F[i - 1] - 1] = chain[i] + 1 /\ mem[F[i - 1] - 2] = F[i]
        <5>1. /\ F[i - 1] >= S[i - 1] + 2 /\ F[i - 1] % 2 = 0 /\ S[(i - 1) + 1] = F[i - 1]
              /\ mem[F[i - 1] - 1] = chain[(i - 1) + 1] + 1
              /\ mem[F[i - 1] - 2] = F[(i - 1) + 1]
          BY <2>2, <4>1
        <5> QED
          BY <4>1, <5>1
      <4>4. S[i - 1] \in Int /\ F[i - 1] \in Int /\ sp <= S[i - 1]
        <5>1. sp + 2 * ((i - 1) - 1) <= S[i - 1] /\ S[i - 1] \in Int /\ F[i - 1] \in Int
          BY <2>2, <4>1
        <5>2. i \in Int /\ i >= 2 /\ sp \in Int
          BY <1>1, <3>2
        <5> QED
          BY <5>1, <5>2
      <4>5. F[i - 1] <= Top
        <5>1. S[i] <= Top
          BY <2>2, <4>1
        <5> QED
          BY <4>3, <5>1
      <4>6. mem'[F[i - 1] - 1] = mem[F[i - 1] - 1] /\ mem'[F[i - 1] - 2] = mem[F[i - 1] - 2]
        <5>1. F[i - 1] >= sp + 2
          <6>1. F[i - 1] >= S[i - 1] + 2
            BY <4>3
          <6>2. sp \in Int
            BY <1>1
          <6> QED
            BY <4>4, <6>1, <6>2
        <5> QED
          BY <4>4, <4>5, <5>1, FrameKept
      <4> QED
        BY <4>2, <4>3, <4>6
    <3> QED
      BY <3>1, <3>2
  <2>7. Len(chain') = n + 1 /\ S2[1] = sp' /\ F2[1] = fp'
    BY <1>4, <2>3
  <2>8. PICK S3, F3 : S3 = S2 /\ F3 = F2
    OBVIOUS
  <2>9. Linked(S3, F3)'
    <3> DEFINE m == Len(chain')
    <3>1. /\ S3 \in [1 .. m -> Int] /\ F3 \in [1 .. m -> Int]
          /\ S3[1] = sp' /\ F3[1] = fp'
          /\ \A i \in 1 .. m : sp' + 2 * (i - 1) <= S3[i] /\ S3[i] <= Top
          /\ \A i \in 1 .. m - 1 :
               /\ F3[i] >= S3[i] + 2 /\ F3[i] % 2 = 0 /\ S3[i + 1] = F3[i]
               /\ mem'[F3[i] - 1] = chain'[i + 1] + 1 /\ mem'[F3[i] - 2] = F3[i + 1]
          /\ F3[m] \in {0, 1}
      <4>1. m = n + 1 /\ m - 1 = n
        BY <1>1, <2>7
      <4> HIDE DEF m, n
      <4> QED
        BY <2>3, <2>4, <2>5, <2>6, <2>7, <2>8, <4>1
    <3> QED
      BY <3>1 DEF Linked
  <2> QED
    BY <2>9
<1>6. ra' \in Sites /\ fp' \in 0 .. Top /\ sp' \in TextEnd .. Top /\ Len(chain') >= 1
  BY <1>1, <1>4
<1> QED
  BY <1>2, <1>3, <1>4, <1>5, <1>6 DEF TracerIInv

LEMMA TracerStep ==
    ASSUME TracerIInv, [Tracer!Next]_tracer
    PROVE  TracerIInv'
<1>1. CASE UNCHANGED tracer
  BY <1>1 DEF tracer, TracerIInv, Linked
<1>2. CASE Tracer!CallFunction
  <2>1. PICK size \in Sizes, site \in Sites :
          /\ sp - size >= TextEnd
          /\ mem' = [mem EXCEPT ![sp - 1] = ra + 1, ![sp - 2] = fp]
          /\ fp' = sp /\ sp' = sp - size /\ ra' = site
          /\ chain' = <<site>> \o chain
          /\ smashed' = smashed
    BY <1>2 DEF Tracer!CallFunction
  <2> QED
    BY <2>1, TracerCall
<1>3. CASE Tracer!StrayStore
  <2>1. mem' \in [Tracer!Stack -> 0 .. Top]
    BY <1>3 DEF Tracer!StrayStore, TracerIInv
  <2> QED
    BY <1>3, <2>1 DEF Tracer!StrayStore, TracerIInv
<1> QED
  BY <1>1, <1>2, <1>3 DEF Tracer!Next

LEMMA TracerSteps ==
    (unit = "tracer" => TracerIInv) /\ [NextRoutines]_units
      => (unit = "tracer" => TracerIInv)'
<1> SUFFICES ASSUME unit = "tracer" => TracerIInv, [NextRoutines]_units,
                    unit' = "tracer"
             PROVE  TracerIInv'
  OBVIOUS
<1>1. unit' = unit /\ [Tracer!Next]_tracer
  BY DEF NextRoutines, MakeSymbols, MapPages, SetPmp, FillMemory, PrintField, RouteTraps,
         TraceCalls, units
<1> QED
  BY <1>1, TracerStep

\* stacktrace.c: the frames on an intact stack stay linked, whatever is
\* called, so an Oops shows exactly the calls that led to it; over a stack
\* that a stray store has hit, whatever it wrote, the walk still ends.
THEOREM TraceShowsTheCalls == SpecRoutines => []TraceIsTheCallChain
<1>1. InitRoutines => (unit = "tracer" => TracerIInv)
  BY TracerInit DEF InitRoutines
<1>2. (unit = "tracer" => TracerIInv) => TraceIsTheCallChain
  BY TraceRight DEF TraceIsTheCallChain
<1>3. (unit = "tracer" => TracerIInv) /\ [NextRoutines]_units => (unit = "tracer" => TracerIInv)'
  BY TracerSteps
<1> QED
  BY <1>1, <1>2, <1>3, PTL DEF SpecRoutines

-----------------------------------------------------------------------------
(* myprintf.                                                               *)

\* The blank, by a name, and what reading a field looks for.
Space == " "
FirstOf(s, b) == CHOOSE f \in 1 .. Len(s) + 1 :
                   (\A k \in 1 .. f - 1 : s[k] = b) /\ (f <= Len(s) => s[f] # b)
LastOf(s, b) == CHOOSE l \in 0 .. Len(s) :
                  (\A k \in l + 1 .. Len(s) : s[k] = b) /\ (l > 0 => s[l] # b)

LEMMA FieldIsRead ==
    /\ Printer!First = FirstOf(text, Space)
    /\ Printer!Core = SubSeq(text, FirstOf(text, Space), LastOf(text, Space))
BY Zenon DEF Printer!First, Printer!Core, Printer!Blank, FirstOf, LastOf, Space

LEMMA TimesAre ==
    ASSUME NEW T, NEW c \in T, NEW n \in Int
    PROVE  /\ Printer!Times(c, n) \in Seq(T)
           /\ Len(Printer!Times(c, n)) = Printer!Most(n, 0) /\ Printer!Most(n, 0) \in Nat
           /\ \A k \in 1 .. Len(Printer!Times(c, n)) : Printer!Times(c, n)[k] = c
<1> DEFINE m == Printer!Most(n, 0)
<1>1. m \in Nat
  BY DEF Printer!Most
<1> HIDE DEF m
<1>2. Printer!Times(c, n) = [i \in 1 .. m |-> c]
  BY DEF Printer!Times, m
<1>3. [i \in 1 .. m |-> c] \in Seq(T)
  BY <1>1, IsASeq
<1> QED
  BY <1>1, <1>2, <1>3, LenProperties DEF m

\* A text between blanks is read without them.
Framed(s, b, M, i, n) ==
    /\ Len(s) = n
    /\ \A k \in 1 .. i : s[k] = b
    /\ \A k \in 1 .. Len(M) : s[i + k] = M[k]
    /\ \A k \in i + Len(M) + 1 .. n : s[k] = b

\* A text that has no blanks.
Clear(M, b) == \A k \in 1 .. Len(M) : M[k] # b

LEMMA FrameIs ==
    ASSUME NEW T, NEW b \in T, NEW M \in Seq(T), NEW i \in Int, NEW j \in Int
    PROVE  LET s == Printer!Times(b, i) \o M \o Printer!Times(b, j)
           IN  /\ s \in Seq(T)
               /\ Framed(s, b, M, Printer!Most(i, 0),
                         Printer!Most(i, 0) + Len(M) + Printer!Most(j, 0))
<1> DEFINE A == Printer!Times(b, i)
           B == Printer!Times(b, j)
           a == Printer!Most(i, 0)
           z == Printer!Most(j, 0)
<1>1. /\ A \in Seq(T) /\ Len(A) = a /\ a \in Nat /\ \A k \in 1 .. a : A[k] = b
      /\ B \in Seq(T) /\ Len(B) = z /\ z \in Nat /\ \A k \in 1 .. z : B[k] = b
  BY TimesAre
<1> HIDE DEF A, B, a, z
<1>2. Len(M) \in Nat
  BY LenProperties
<1>3. /\ A \o M \in Seq(T) /\ Len(A \o M) = a + Len(M)
      /\ \A k \in 1 .. a + Len(M) : (A \o M)[k] = IF k <= a THEN A[k] ELSE M[k - a]
  BY <1>1, <1>2, ConcatProperties
<1> DEFINE AM == A \o M
<1> HIDE DEF AM
<1>4. /\ AM \o B \in Seq(T) /\ Len(AM \o B) = a + Len(M) + z
      /\ \A k \in 1 .. a + Len(M) + z :
           (AM \o B)[k] = IF k <= a + Len(M) THEN AM[k] ELSE B[k - (a + Len(M))]
  <2>1. AM \in Seq(T) /\ Len(AM) = a + Len(M) /\ B \in Seq(T) /\ Len(B) = z
    BY <1>1, <1>3 DEF AM
  <2>2. /\ AM \o B \in Seq(T) /\ Len(AM \o B) = Len(AM) + Len(B)
        /\ \A k \in 1 .. Len(AM) + Len(B) :
             (AM \o B)[k] = IF k <= Len(AM) THEN AM[k] ELSE B[k - Len(AM)]
    <3>1. AM \in Seq(T) /\ B \in Seq(T)
      BY <2>1
    <3> QED
      BY <3>1, ConcatProperties
  <2> DEFINE l == a + Len(M)
  <2>3. Len(AM) = l /\ Len(B) = z
    BY <2>1
  <2> HIDE DEF l
  <2>4. /\ Len(AM \o B) = l + z
        /\ \A k \in 1 .. l + z : (AM \o B)[k] = IF k <= l THEN AM[k] ELSE B[k - l]
    BY <2>2, <2>3, Zenon
  <2> QED
    BY <2>2, <2>4, Zenon DEF l
<1> DEFINE s == AM \o B
<1> HIDE DEF s
<1>5. \A k \in 1 .. a : s[k] = b
  BY <1>1, <1>2, <1>3, <1>4 DEF s, AM
<1>6. \A k \in 1 .. Len(M) : s[a + k] = M[k]
  BY <1>1, <1>2, <1>3, <1>4 DEF s, AM
<1>7. \A k \in a + Len(M) + 1 .. a + Len(M) + z : s[k] = b
  <2> TAKE k \in a + Len(M) + 1 .. a + Len(M) + z
  <2>1. k - (a + Len(M)) \in 1 .. z /\ k \in 1 .. a + Len(M) + z /\ ~(k <= a + Len(M))
    BY <1>1, <1>2
  <2> QED
    BY <1>1, <1>4, <2>1 DEF s
<1> QED
  BY <1>4, <1>5, <1>6, <1>7 DEF s, AM, Framed, A, B, a, z

\* The text s is M, which has no blanks, after i blanks and before j.
Inside(T, s, b, M, i, j) ==
    /\ s \in Seq(T) /\ M \in Seq(T) /\ i \in Nat /\ j \in Nat
    /\ Clear(M, b) /\ Framed(s, b, M, i, i + Len(M) + j)

LEMMA CoreIs ==
    ASSUME NEW T, NEW b, NEW s, NEW M, NEW i, NEW j, Inside(T, s, b, M, i, j)
    PROVE  /\ SubSeq(s, FirstOf(s, b), LastOf(s, b)) = M
           /\ M # <<>> => FirstOf(s, b) = i + 1
<1> DEFINE n == Len(s)
           IsFirst(f) == /\ \A k \in 1 .. f - 1 : s[k] = b
                         /\ f <= n => s[f] # b
           IsLast(l) == /\ \A k \in l + 1 .. n : s[k] = b
                        /\ l > 0 => s[l] # b
           last == CHOOSE l \in 0 .. n : IsLast(l)
<1> SUFFICES ASSUME s \in Seq(T), M \in Seq(T), i \in Nat, j \in Nat,
                    Clear(M, b), Framed(s, b, M, i, i + Len(M) + j)
             PROVE  /\ SubSeq(s, FirstOf(s, b), LastOf(s, b)) = M
                    /\ M # <<>> => FirstOf(s, b) = i + 1
  BY Zenon DEF Inside
<1>1. Len(M) \in Nat /\ n \in Nat
  BY LenProperties
<1>0. n = i + Len(M) + j
  BY DEF Framed
<1>2. /\ FirstOf(s, b) = CHOOSE f \in 1 .. n + 1 : IsFirst(f)
      /\ LastOf(s, b) = last
  BY Zenon DEF FirstOf, LastOf
<1>5. /\ \A k \in 1 .. i : s[k] = b
      /\ \A k \in 1 .. Len(M) : s[i + k] = M[k]
      /\ \A k \in i + Len(M) + 1 .. n : s[k] = b
  BY <1>0, Zenon DEF Framed
<1> HIDE DEF n
<1>3. CASE M = <<>>
  <2>1. Len(M) = 0
    BY <1>3, EmptySeq, Zenon
  <2>2. \A k \in 1 .. n : s[k] = b
    <3> TAKE k \in 1 .. n
    <3>1. k \in 1 .. i \/ k \in i + Len(M) + 1 .. n
      BY <1>0, <1>1, <2>1
    <3> QED
      BY <1>5, <3>1
  <2>3. IsFirst(n + 1) /\ \A f \in 1 .. n + 1 : IsFirst(f) => f = n + 1
    BY <1>1, <2>2
  <2>4. FirstOf(s, b) = n + 1
    BY <1>1, <1>2, <2>3, n + 1 \in 1 .. n + 1, Zenon
  <2>5. IsLast(0) /\ \A l \in 0 .. n : IsLast(l) => l = 0
    BY <1>1, <2>2
  <2>6. last = 0
    BY <1>1, <2>5
  <2> HIDE DEF last
  <2>7. SubSeq(s, n + 1, 0) = <<>>
    BY <1>1, SubSeqEmpty
  <2> QED
    BY <1>2, <1>3, <2>4, <2>6, <2>7
<1>4. CASE M # <<>>
  <2>1. Len(M) >= 1 /\ 1 \in 1 .. Len(M) /\ Len(M) \in 1 .. Len(M)
    <3>1. Len(M) \in Nat \ {0}
      BY <1>4, EmptySeq, Zenon
    <3> QED
      BY <3>1
  <2>2. s[i + 1] # b /\ s[i + Len(M)] # b
    BY <1>5, <2>1, Zenon DEF Clear
  <2>0. i + 1 \in 1 .. n /\ i + Len(M) \in 1 .. n
    BY <1>0, <1>1, <2>1
  <2>4. IsFirst(i + 1) /\ \A f \in 1 .. n + 1 : IsFirst(f) => f = i + 1
    <3>1. \A f \in 1 .. n + 1 : f < i + 1 => f \in 1 .. i /\ f <= n
      BY <2>0, <1>1
    <3>2. \A f \in 1 .. n + 1 : f > i + 1 => i + 1 \in 1 .. f - 1
      BY <2>0, <1>1
    <3> QED
      BY <1>1, <1>5, <2>0, <2>2, <3>1, <3>2
  <2>5. FirstOf(s, b) = i + 1
    BY <1>1, <1>2, <2>0, <2>4, i + 1 \in 1 .. n + 1, Zenon
  <2>6. IsLast(i + Len(M)) /\ \A l \in 0 .. n : IsLast(l) => l = i + Len(M)
    <3>1. \A l \in 0 .. n : l < i + Len(M) => i + Len(M) \in l + 1 .. n
      BY <2>0, <1>1
    <3>2. \A l \in 0 .. n : l > i + Len(M) => l \in i + Len(M) + 1 .. n /\ l > 0
      BY <2>0, <1>1
    <3>3. IsLast(i + Len(M))
      BY <1>5, <2>2, Zenon
    <3>4. ASSUME NEW l \in 0 .. n, IsLast(l) PROVE l = i + Len(M)
      <4>1. ~(l < i + Len(M))
        BY <2>2, <3>1, <3>4, Zenon
      <4>2. ~(l > i + Len(M))
        BY <1>5, <3>2, <3>4, Zenon
      <4> QED
        BY <1>1, <4>1, <4>2
    <3> QED
      BY <3>3, <3>4
  <2>7. last = i + Len(M)
    BY <1>1, <2>0, <2>6, i + Len(M) \in 0 .. n, Zenon
  <2> HIDE DEF last
  <2>8. SubSeq(s, i + 1, i + Len(M)) = M
    <3> DEFINE S == SubSeq(s, i + 1, i + Len(M))
    <3>1. S \in Seq(T) /\ Len(S) = Len(M) /\ \A k \in 1 .. Len(M) : S[k] = s[i + k]
      <4>1. \A k \in i + 1 .. i + Len(M) : k \in 1 .. n /\ s[k] \in T
        BY <1>1, <2>0, ElementOfSeq DEF n
      <4>2. i + 1 \in Int /\ i + Len(M) \in Int /\ i + 1 <= i + Len(M)
        BY <1>1, <2>1
      <4>3. /\ S \in Seq(T)
            /\ Len(S) = (i + Len(M)) - (i + 1) + 1
            /\ \A k \in 1 .. (i + Len(M)) - (i + 1) + 1 : S[k] = s[i + 1 + k - 1]
        BY <4>1, <4>2, SubSeqProperties
      <4> HIDE DEF S
      <4>4. (i + Len(M)) - (i + 1) + 1 = Len(M) /\ \A k \in 1 .. Len(M) : i + 1 + k - 1 = i + k
        BY <1>1
      <4> QED
        BY <4>3, <4>4
    <3> HIDE DEF S
    <3>2. \A k \in 1 .. Len(M) : S[k] = M[k]
      BY <1>5, <3>1
    <3>3. S = M
      BY <3>1, <3>2, SeqEqual
    <3> QED
      BY <3>3 DEF S
  <2> QED
    BY <1>2, <2>5, <2>7, <2>8
<1> QED
  BY <1>3, <1>4

\* The characters of a number.
Numerals == {"0","1","2","3","4","5","6","7","8","9",
             "a","b","c","d","e","f","A","B","C","D","E","F"}

LEMMA DigitsAre ==
    ASSUME NEW k \in 0 .. 15
    PROVE  /\ Printer!Digits(TRUE)[k + 1] \in Numerals
           /\ Printer!Digits(FALSE)[k + 1] \in Numerals
BY DEF Printer!Digits, Numerals

LEMMA DigitsDiffer ==
    ASSUME NEW k \in 0 .. 15, NEW j \in 0 .. 15, NEW s \in BOOLEAN, NEW t \in BOOLEAN,
           Printer!Digits(s)[k + 1] = Printer!Digits(t)[j + 1]
    PROVE  k = j
<1>1. ASSUME k # j PROVE FALSE
  <2>1. /\ k = 0 \/ k = 1 \/ k = 2 \/ k = 3 \/ k = 4 \/ k = 5 \/ k = 6 \/ k = 7
           \/ k = 8 \/ k = 9 \/ k = 10 \/ k = 11 \/ k = 12 \/ k = 13 \/ k = 14 \/ k = 15
    OBVIOUS
  <2> QED
    BY <1>1, <2>1 DEF Printer!Digits
<1> QED
  BY <1>1

LEMMA DigitsHaveValues ==
    ASSUME NEW k \in 0 .. 15, NEW s \in BOOLEAN
    PROVE  Printer!DigitValue(Printer!Digits(s)[k + 1]) = k
<1> DEFINE c == Printer!Digits(s)[k + 1]
           Is(n) == c \in {Printer!Digits(TRUE)[n + 1], Printer!Digits(FALSE)[n + 1]}
<1>1. Is(k)
  <2>1. s = TRUE \/ s = FALSE
    OBVIOUS
  <2> QED
    BY <2>1, Zenon
<1>2. \A n \in 0 .. 15 : Is(n) => n = k
  BY DigitsDiffer, Zenon
<1>3. Printer!DigitValue(c) = CHOOSE n \in 0 .. 15 : Is(n)
  BY Zenon DEF Printer!DigitValue
<1> QED
  BY <1>1, <1>2, <1>3, Zenon

\* One character more of a number that is read.
Mix(v, base, c) == v * base + Printer!DigitValue(c)
Reads(r, s, base, n) ==
    /\ DOMAIN r = 0 .. n /\ r[0] = 0
    /\ \A k \in 1 .. n : r[k] = Mix(r[k - 1], base, s[k])

LEMMA ReadingExists ==
    ASSUME NEW s, NEW base, NEW n \in Nat
    PROVE  \E r : Reads(r, s, base, n)
<1> DEFINE Bad == {k \in Nat : ~ \E r : Reads(r, s, base, k)}
<1> SUFFICES ASSUME Bad # {} PROVE FALSE
  OBVIOUS
<1>1. PICK m \in Bad : \A k \in Bad : m <= k
  BY LeastNat
<1>2. CASE m = 0
  <2>1. Reads([k \in 0 .. 0 |-> 0], s, base, 0)
    BY DEF Reads
  <2> QED
    BY <1>2, <2>1
<1>3. CASE m # 0
  <2>1. PICK r : Reads(r, s, base, m - 1)
    BY <1>1, <1>3
  <2> DEFINE v == Mix(r[m - 1], base, s[m])
             new == [k \in 0 .. m |-> IF k = m THEN v ELSE r[k]]
  <2>2. \A k \in 1 .. m - 1 : r[k] = Mix(r[k - 1], base, s[k])
    BY <2>1, Zenon DEF Reads
  <2>3. ASSUME NEW k \in 1 .. m PROVE new[k] = Mix(new[k - 1], base, s[k])
    <3>1. CASE k = m
      <4>1. new[m] = v /\ new[m - 1] = r[m - 1]
        <5> HIDE DEF v
        <5> QED
          BY <1>3
      <4> QED
        BY <3>1, <4>1, Zenon
    <3>2. CASE k # m
      <4>1. new[k] = r[k] /\ new[k - 1] = r[k - 1] /\ k \in 1 .. m - 1
        <5> HIDE DEF v
        <5> QED
          BY <1>3, <3>2
      <4> HIDE DEF new, v
      <4> QED
        BY <2>2, <4>1, Zenon
    <3> QED
      BY <3>1, <3>2
  <2>4. DOMAIN new = 0 .. m /\ new[0] = 0
    <3>1. r[0] = 0
      BY <2>1 DEF Reads
    <3> HIDE DEF v
    <3> QED
      BY <1>3, <3>1
  <2>5. Reads(new, s, base, m)
    <3> HIDE DEF new
    <3> QED
      BY <2>3, <2>4, Zenon DEF Reads
  <2> QED
    BY <1>1, <2>5
<1> QED
  BY <1>2, <1>3

LEMMA ReadingUnique ==
    ASSUME NEW s, NEW base, NEW n \in Nat, NEW r, NEW q, Reads(r, s, base, n), Reads(q, s, base, n)
    PROVE  r[n] = q[n]
<1> DEFINE Bad == {k \in 0 .. n : r[k] # q[k]}
<1> SUFFICES ASSUME Bad # {} PROVE FALSE
  OBVIOUS
<1>1. PICK m \in Bad : \A k \in Bad : m <= k
  <2>1. Bad \in SUBSET Nat
    OBVIOUS
  <2> HIDE DEF Bad
  <2> QED
    BY <2>1, LeastNat
<1>2. m # 0
  BY <1>1 DEF Reads
<1>3. m - 1 \in 0 .. n /\ m \in 1 .. n /\ ~(m <= m - 1)
  BY <1>1, <1>2
<1>4. r[m - 1] = q[m - 1]
  BY <1>1, <1>3
<1>5. r[m] = Mix(r[m - 1], base, s[m]) /\ q[m] = Mix(q[m - 1], base, s[m])
  BY <1>3, Zenon DEF Reads
<1> QED
  BY <1>1, <1>4, <1>5, Zenon

LEMMA ReadsIs ==
    ASSUME NEW s, NEW base, Len(s) \in Nat, NEW r, Reads(r, s, base, Len(s))
    PROVE  Printer!ReadsAs(s, base) = r[Len(s)]
<1> DEFINE n == Len(s)
           IsUpto(g) == g = [k \in 0 .. n |-> IF k = 0 THEN 0 ELSE Mix(g[k - 1], base, s[k])]
           u == CHOOSE g : IsUpto(g)
<1>1. Printer!ReadsAs(s, base) = u[n]
  BY Zenon DEF Printer!ReadsAs, Mix
<1> HIDE DEF n
<1>2. \E g : IsUpto(g)
  <2>1. PICK q : Reads(q, s, base, n)
    BY ReadingExists DEF n
  <2> DEFINE g == [k \in 0 .. n |-> q[k]]
  <2>2. \A k \in 0 .. n : g[k] = IF k = 0 THEN 0 ELSE Mix(g[k - 1], base, s[k])
    <3> TAKE k \in 0 .. n
    <3>1. CASE k = 0
      BY <2>1, <3>1 DEF Reads
    <3>2. CASE k # 0
      <4>1. k \in 1 .. n /\ k - 1 \in 0 .. n
        BY <3>2 DEF n
      <4>2. g[k] = q[k] /\ g[k - 1] = q[k - 1]
        BY <4>1, Zenon
      <4> HIDE DEF g
      <4> QED
        BY <2>1, <3>2, <4>1, <4>2, Zenon DEF Reads
    <3> QED
      BY <3>1, <3>2
  <2>3. g = [k \in 0 .. n |-> g[k]]
    OBVIOUS
  <2> HIDE DEF g
  <2>4. IsUpto(g)
    BY <2>2, <2>3, Zenon
  <2> QED
    BY <2>4, Zenon
<1>3. IsUpto(u)
  BY <1>2, Zenon
<1> HIDE DEF u
<1>4. Reads(u, s, base, n)
  <2>1. DOMAIN u = 0 .. n
    BY <1>3, Zenon
  <2>2. \A k \in 0 .. n : u[k] = IF k = 0 THEN 0 ELSE Mix(u[k - 1], base, s[k])
    BY <1>3, Zenon
  <2>3. 0 \in 0 .. n /\ \A k \in 1 .. n : k \in 0 .. n /\ k # 0
    BY DEF n
  <2>4. u[0] = 0
    BY <2>2, <2>3, Zenon
  <2>5. \A k \in 1 .. n : u[k] = Mix(u[k - 1], base, s[k])
    BY <2>2, <2>3, Zenon
  <2> QED
    BY <2>1, <2>4, <2>5, Zenon DEF Reads
<1>5. u[n] = r[n]
  BY <1>4, ReadingUnique DEF n
<1> QED
  BY <1>1, <1>5 DEF n

LEMMA ReadsAll ==
    ASSUME NEW s, NEW base, Len(s) \in Nat
    PROVE  \E r : Reads(r, s, base, Len(s)) /\ Printer!ReadsAs(s, base) = r[Len(s)]
<1>1. PICK r : Reads(r, s, base, Len(s))
  BY ReadingExists
<1> QED
  BY <1>1, ReadsIs

LEMMA NothingRead == ASSUME NEW base PROVE Printer!ReadsAs(<<>>, base) = 0
<1>1. Len(<<>>) = 0
  BY EmptySeq
<1>2. Reads([k \in 0 .. 0 |-> 0], <<>>, base, 0)
  BY DEF Reads
<1>3. Len(<<>>) \in Nat
  BY <1>1
<1>4. Printer!ReadsAs(<<>>, base) = [k \in 0 .. 0 |-> 0][0]
  BY <1>1, <1>2, <1>3, ReadsIs, Zenon
<1> QED
  BY <1>4

LEMMA ZeroHasNoValue == Printer!DigitValue("0") = 0
<1>1. 0 \in 0 .. 15 /\ TRUE \in BOOLEAN
  OBVIOUS
<1>2. Printer!DigitValue(Printer!Digits(TRUE)[0 + 1]) = 0
  BY <1>1, DigitsHaveValues, Zenon
<1>3. Printer!Digits(TRUE)[0 + 1] = "0"
  BY DEF Printer!Digits
<1> QED
  BY <1>2, <1>3, Zenon

LEMMA OneMoreRead ==
    ASSUME NEW T, NEW s \in Seq(T), NEW c \in T, NEW base
    PROVE  Printer!ReadsAs(Append(s, c), base) = Mix(Printer!ReadsAs(s, base), base, c)
<1> DEFINE n == Len(s)
           t == Append(s, c)
           v == Printer!ReadsAs(s, base)
           w == Mix(v, base, c)
<1>1. n \in Nat /\ Len(t) = n + 1 /\ t[n + 1] = c /\ \A k \in 1 .. n : t[k] = s[k]
  BY LenProperties, AppendProperties
<1>2. PICK r : Reads(r, s, base, n) /\ v = r[n]
  BY <1>1, ReadsAll
<1> HIDE DEF n, t, v, w
<1> DEFINE new == [k \in 0 .. n + 1 |-> IF k = n + 1 THEN w ELSE r[k]]
<1>3. /\ DOMAIN new = 0 .. n + 1 /\ new[n + 1] = w
      /\ \A k \in 0 .. n : new[k] = r[k]
  BY <1>1
<1> HIDE DEF new
<1>4. Reads(new, t, base, n + 1)
  <2>1. new[0] = 0
    BY <1>1, <1>2, <1>3 DEF Reads
  <2>2. ASSUME NEW k \in 1 .. n + 1 PROVE new[k] = Mix(new[k - 1], base, t[k])
    <3>1. CASE k = n + 1
      <4>1. new[n] = r[n] /\ k - 1 = n
        BY <1>1, <1>3, <3>1
      <4> QED
        BY <1>1, <1>2, <1>3, <3>1, <4>1, Zenon DEF w
    <3>2. CASE k # n + 1
      <4>1. k \in 1 .. n /\ k \in 0 .. n /\ k - 1 \in 0 .. n
        BY <1>1, <3>2
      <4>2. r[k] = Mix(r[k - 1], base, s[k])
        BY <1>2, <4>1, Zenon DEF Reads
      <4> QED
        BY <1>1, <1>3, <4>1, <4>2, Zenon
    <3> QED
      BY <3>1, <3>2
  <2> QED
    BY <1>3, <2>1, <2>2, Zenon DEF Reads
<1>5. Len(t) \in Nat /\ Reads(new, t, base, Len(t))
  <2>1. n + 1 \in Nat
    BY <1>1
  <2> QED
    BY <1>1, <1>4, <2>1, Zenon
<1>6. Printer!ReadsAs(t, base) = new[n + 1]
  BY <1>1, <1>5, ReadsIs, Zenon
<1> QED
  BY <1>3, <1>6, Zenon DEF w, t, v

\* Zeros in front do not change what is read.
LEMMA LeadingZeros ==
    ASSUME NEW T, NEW s \in Seq(T), "0" \in T, NEW z \in Int, NEW base \in Nat
    PROVE  Printer!ReadsAs(Printer!Times("0", z) \o s, base) = Printer!ReadsAs(s, base)
<1> DEFINE Z == Printer!Times("0", z)
           m == Printer!Most(z, 0)
           n == Len(s)
           t == Z \o s
<1>1. Z \in Seq(T) /\ Len(Z) = m /\ m \in Nat /\ \A k \in 1 .. Len(Z) : Z[k] = "0"
  BY TimesAre
<1>2. /\ Len(t) = Len(Z) + Len(s)
      /\ \A k \in 1 .. Len(Z) + Len(s) : t[k] = IF k <= Len(Z) THEN Z[k] ELSE s[k - Len(Z)]
  BY <1>1, ConcatProperties
<1>3. n \in Nat
  BY LenProperties
<1>4. PICK r : Reads(r, s, base, n) /\ Printer!ReadsAs(s, base) = r[n]
  BY <1>3, ReadsAll
<1>5. Mix(0, base, "0") = 0
  BY ZeroHasNoValue DEF Mix
<1> HIDE DEF Z, m, n, t
<1>6. /\ Len(t) = m + n
      /\ \A k \in 1 .. m : t[k] = "0"
      /\ \A k \in m + 1 .. m + n : t[k] = s[k - m]
  <2>1. Len(t) = m + n
    BY <1>1, <1>2 DEF n
  <2>2. \A k \in 1 .. m : t[k] = "0"
    <3> TAKE k \in 1 .. m
    <3>1. k \in 1 .. m + n /\ k <= m
      BY <1>1, <1>3
    <3> QED
      BY <1>1, <1>2, <3>1, Zenon DEF n
  <2>3. \A k \in m + 1 .. m + n : t[k] = s[k - m]
    <3> TAKE k \in m + 1 .. m + n
    <3>1. k \in 1 .. m + n /\ ~(k <= m)
      BY <1>1, <1>3
    <3> QED
      BY <1>1, <1>2, <3>1, Zenon DEF n
  <2> QED
    BY <2>1, <2>2, <2>3
<1> DEFINE new == [k \in 0 .. m + n |-> IF k <= m THEN 0 ELSE r[k - m]]
<1>7. /\ DOMAIN new = 0 .. m + n
      /\ \A k \in 0 .. m : new[k] = 0
      /\ \A k \in m .. m + n : new[k] = r[k - m]
  <2>1. r[0] = 0
    BY <1>4 DEF Reads
  <2>2. \A k \in 0 .. m : k \in 0 .. m + n /\ new[k] = 0
    BY <1>1, <1>3
  <2>3. \A k \in m .. m + n : new[k] = r[k - m]
    <3> TAKE k \in m .. m + n
    <3>1. CASE k = m
      BY <1>1, <1>3, <2>1, <3>1
    <3>2. CASE k # m
      BY <1>1, <1>3, <3>2
    <3> QED
      BY <3>1, <3>2
  <2> QED
    BY <2>2, <2>3
<1> HIDE DEF new
<1>8. Reads(new, t, base, m + n)
  <2>1. new[0] = 0
    BY <1>1, <1>7
  <2>2. ASSUME NEW k \in 1 .. m + n PROVE new[k] = Mix(new[k - 1], base, t[k])
    <3>1. CASE k <= m
      <4>1. k \in 0 .. m /\ k - 1 \in 0 .. m /\ k \in 1 .. m
        BY <1>1, <3>1
      <4> QED
        BY <1>5, <1>6, <1>7, <4>1, Zenon
    <3>2. CASE ~(k <= m)
      <4>1. /\ k \in m .. m + n /\ k - 1 \in m .. m + n /\ k - m \in 1 .. n
            /\ (k - 1) - m = (k - m) - 1 /\ k \in m + 1 .. m + n
        BY <1>1, <1>3, <3>2
      <4>2. r[k - m] = Mix(r[(k - m) - 1], base, s[k - m])
        BY <1>4, <4>1, Zenon DEF Reads
      <4>3. new[k] = r[k - m] /\ new[k - 1] = r[(k - m) - 1] /\ t[k] = s[k - m]
        BY <1>6, <1>7, <4>1, Zenon
      <4> QED
        BY <4>2, <4>3, Zenon
    <3> QED
      BY <3>1, <3>2
  <2> QED
    BY <1>7, <2>1, <2>2, Zenon DEF Reads
<1>9. Len(t) \in Nat /\ Reads(new, t, base, Len(t))
  <2>1. m + n \in Nat
    BY <1>1, <1>3
  <2> QED
    BY <1>6, <1>8, <2>1, Zenon
<1>10. Printer!ReadsAs(t, base) = new[m + n]
  BY <1>6, <1>9, ReadsIs, Zenon
<1>11. new[m + n] = r[n]
  <2>1. m + n \in m .. m + n /\ (m + n) - m = n
    BY <1>1, <1>3
  <2> QED
    BY <1>7, <2>1, Zenon
<1> QED
  BY <1>4, <1>10, <1>11, Zenon DEF t, Z

\* The digits of a number: one more for the quotient.
IsDigits(g, base, small, n) ==
    /\ g = [k \in 0 .. n |-> IF k = 0 THEN <<>>
                             ELSE Append(g[k \div base], Printer!Digits(small)[(k % base) + 1])]

LEMMA Shrinks ==
    ASSUME NEW k \in Nat, k >= 1, NEW base \in {8, 10, 16}
    PROVE  /\ k \div base \in Nat /\ k \div base <= k - 1 /\ k \div base < k
           /\ k % base \in 0 .. 15
           /\ (k \div base) * base + (k % base) = k
<1>1. base = 8 \/ base = 10 \/ base = 16
  OBVIOUS
<1>2. CASE base = 8
  BY <1>2
<1>3. CASE base = 10
  BY <1>3
<1>4. CASE base = 16
  BY <1>4
<1> QED
  BY <1>1, <1>2, <1>3, <1>4

LEMMA DigitsExist ==
    ASSUME NEW n \in Nat, NEW base \in {8, 10, 16}, NEW small
    PROVE  \E g : IsDigits(g, base, small, n)
<1> DEFINE Bad == {k \in Nat : ~ \E g : IsDigits(g, base, small, k)}
           D(k) == Printer!Digits(small)[(k % base) + 1]
<1> SUFFICES ASSUME Bad # {} PROVE FALSE
  OBVIOUS
<1>1. PICK m \in Bad : \A k \in Bad : m <= k
  BY LeastNat
<1>2. CASE m = 0
  <2> DEFINE g == [k \in 0 .. 0 |-> <<>>]
  <2>1. \A k \in 0 .. 0 : k = 0
    OBVIOUS
  <2>2. g = [k \in 0 .. 0 |-> IF k = 0 THEN <<>> ELSE Append(g[k \div base], D(k))]
    BY <2>1, Zenon
  <2>3. IsDigits(g, base, small, 0)
    BY <2>2, Zenon DEF IsDigits
  <2> QED
    BY <1>1, <1>2, <2>3, Zenon
<1>3. CASE m # 0
  <2>1. PICK g : IsDigits(g, base, small, m - 1)
    BY <1>1, <1>3
  <2> DEFINE v == Append(g[m \div base], D(m))
             new == [k \in 0 .. m |-> IF k = m THEN v ELSE g[k]]
  <2> HIDE DEF D
  <2>2. \A k \in 0 .. m - 1 : g[k] = IF k = 0 THEN <<>> ELSE Append(g[k \div base], D(k))
    BY <2>1, Zenon DEF IsDigits, D
  <2>3. ASSUME NEW k \in 0 .. m
        PROVE  new[k] = IF k = 0 THEN <<>> ELSE Append(new[k \div base], D(k))
    <3>1. CASE k = m
      <4>1. m \div base \in 0 .. m /\ m \div base # m /\ m \in 0 .. m
        BY <1>3, Shrinks
      <4>2. new[m \div base] = g[m \div base] /\ new[m] = v
        BY <4>1, Zenon
      <4> QED
        BY <1>3, <3>1, <4>2, Zenon
    <3>2. CASE k # m
      <4>1. k \in 0 .. m - 1 /\ new[k] = g[k]
        <5>1. k \in 0 .. m - 1
          BY <3>2
        <5> QED
          BY <3>2, <5>1, Zenon
      <4>2. CASE k = 0
        BY <2>2, <4>1, <4>2, Zenon
      <4>3. CASE k # 0
        <5>1. k \div base \in 0 .. m /\ k \div base # m
          <6>1. k \in Nat /\ k >= 1 /\ k < m
            BY <3>2, <4>3
          <6> QED
            BY <6>1, Shrinks
        <5>2. new[k \div base] = g[k \div base]
          BY <5>1, Zenon
        <5> QED
          BY <2>2, <4>1, <4>3, <5>2, Zenon
      <4> QED
        BY <4>2, <4>3
    <3> QED
      BY <3>1, <3>2
  <2>4. new = [k \in 0 .. m |-> new[k]]
    BY Zenon
  <2>5. IsDigits(new, base, small, m)
    <3> HIDE DEF new
    <3> QED
      BY <2>3, <2>4, Zenon DEF IsDigits, D
  <2> QED
    BY <1>1, <2>5
<1> QED
  BY <1>2, <1>3

LEMMA DigitsRead ==
    ASSUME NEW num \in Nat, NEW base \in {8, 10, 16}, NEW small \in BOOLEAN
    PROVE  LET s == Printer!DigitsOf(num, base, small)
           IN  s \in Seq(Numerals) /\ Len(s) >= 1 /\ Printer!ReadsAs(s, base) = num
<1>0. base \in Nat
  OBVIOUS
<1>1. CASE num = 0
  <2>1. Printer!DigitsOf(num, base, small) = <<"0">>
    BY <1>1, Zenon DEF Printer!DigitsOf
  <2>2. "0" \in Numerals
    BY DEF Numerals
  <2>3. <<"0">> = Append(<<>>, "0")
    OBVIOUS
  <2>4. <<>> \in Seq(Numerals)
    BY EmptySeq
  <2>5. Append(<<>>, "0") \in Seq(Numerals) /\ Len(Append(<<>>, "0")) = Len(<<>>) + 1
    BY <2>2, <2>4, AppendProperties
  <2>6. Printer!ReadsAs(Append(<<>>, "0"), base) = Mix(0, base, "0")
    BY <2>2, <2>4, OneMoreRead, NothingRead, Zenon
  <2>7. Mix(0, base, "0") = 0
    BY <1>0, ZeroHasNoValue DEF Mix
  <2>8. Len(<<>>) = 0
    BY EmptySeq
  <2> DEFINE s == Append(<<>>, "0")
  <2> HIDE DEF s
  <2>9. s \in Seq(Numerals) /\ Len(s) >= 1 /\ Printer!ReadsAs(s, base) = 0
    <3>1. Len(s) = 1
      BY <2>5, <2>8 DEF s
    <3> QED
      BY <2>5, <2>6, <2>7, <3>1 DEF s
  <2>10. Printer!DigitsOf(num, base, small) = s
    BY <2>1, <2>3, Zenon DEF s
  <2> QED
    BY <1>1, <2>9, <2>10, Zenon
<1>2. CASE num # 0
  <2> DEFINE of == CHOOSE g : IsDigits(g, base, small, num)
             D(k) == Printer!Digits(small)[(k % base) + 1]
  <2>1. Printer!DigitsOf(num, base, small) = of[num]
    BY <1>2, Zenon DEF Printer!DigitsOf, IsDigits
  <2>2. IsDigits(of, base, small, num)
    <3>1. \E g : IsDigits(g, base, small, num)
      BY DigitsExist
    <3> QED
      BY <3>1, Zenon
  <2> HIDE DEF of, D
  <2>3. \A k \in 0 .. num : of[k] = IF k = 0 THEN <<>> ELSE Append(of[k \div base], D(k))
    BY <2>2, Zenon DEF IsDigits, D
  <2> DEFINE Fits(k) == /\ of[k] \in Seq(Numerals) /\ (k # 0 => Len(of[k]) >= 1)
                        /\ Printer!ReadsAs(of[k], base) = k
             Bad == {k \in 0 .. num : ~Fits(k)}
  <2>4. Bad = {}
    <3> SUFFICES ASSUME Bad # {} PROVE FALSE
      OBVIOUS
    <3>1. PICK m \in Bad : \A k \in Bad : m <= k
      <4>1. Bad \in SUBSET Nat
        OBVIOUS
      <4> HIDE DEF Bad
      <4> QED
        BY <4>1, LeastNat
    <3>2. m # 0
      <4> SUFFICES ASSUME m = 0 PROVE FALSE
        OBVIOUS
      <4>1. of[0] = <<>>
        BY <2>3, 0 \in 0 .. num, Zenon
      <4>2. <<>> \in Seq(Numerals)
        BY EmptySeq
      <4> QED
        BY <3>1, <4>1, <4>2, NothingRead, Zenon
    <3> DEFINE q == m \div base
               s == of[q]
    <3>3. /\ m \in Nat /\ m >= 1 /\ q \in 0 .. num /\ ~(m <= q) /\ m % base \in 0 .. 15
          /\ q * base + (m % base) = m
      <4>1. m \in Nat /\ m >= 1 /\ m <= num
        BY <3>1, <3>2
      <4>2. q \in Nat /\ q < m /\ m % base \in 0 .. 15 /\ q * base + (m % base) = m
        BY <4>1, Shrinks
      <4> HIDE DEF q
      <4> QED
        BY <4>1, <4>2
    <3> HIDE DEF q
    <3>4. Fits(q)
      BY <3>1, <3>3
    <3>5. of[m] = Append(s, D(m))
      BY <2>3, <3>1, <3>2, Zenon DEF q
    <3>6. D(m) \in Numerals /\ Printer!DigitValue(D(m)) = m % base
      <4>1. small = TRUE \/ small = FALSE
        OBVIOUS
      <4>2. D(m) \in Numerals
        BY <3>3, <4>1, DigitsAre, Zenon DEF D
      <4>3. Printer!DigitValue(D(m)) = m % base
        BY <3>3, DigitsHaveValues, Zenon DEF D
      <4> QED
        BY <4>2, <4>3
    <3>7. s \in Seq(Numerals) /\ Printer!ReadsAs(s, base) = q
      BY <3>4
    <3> HIDE DEF s
    <3>8. of[m] \in Seq(Numerals) /\ Len(of[m]) >= 1
      <4>1. Append(s, D(m)) \in Seq(Numerals) /\ Len(Append(s, D(m))) = Len(s) + 1
        BY <3>6, <3>7, AppendProperties
      <4>2. Len(s) \in Nat
        BY <3>7, LenProperties
      <4> QED
        BY <3>5, <4>1, <4>2
    <3>9. Printer!ReadsAs(of[m], base) = Mix(q, base, D(m))
      BY <3>5, <3>6, <3>7, OneMoreRead, Zenon
    <3>10. Mix(q, base, D(m)) = m
      BY <3>3, <3>6, Zenon DEF Mix
    <3> QED
      BY <3>1, <3>8, <3>9, <3>10, Zenon
  <2>5. Fits(num)
    BY <2>4
  <2> QED
    BY <1>2, <2>1, <2>5
<1> QED
  BY <1>1, <1>2

\* The powers of two of a long.
Q == Printer!Pow2

LEMMA LongPowersDouble ==
    /\ LongBits \in Nat /\ Q[0] = 1
    /\ \A k \in 1 .. LongBits : Q[k] = 2 * Q[k - 1]
<1>1. LongBits \in Nat
  BY FieldsAssumption, Zenon
<1>2. Q = CHOOSE g : IsPowers(g, LongBits)
  BY Zenon DEF Q, Printer!Pow2, IsPowers
<1>3. IsPowers(Q, LongBits)
  <2>1. \E g : IsPowers(g, LongBits)
    BY <1>1, PowersExist
  <2> QED
    BY <1>2, <2>1, Zenon
<1>4. \A k \in 0 .. LongBits : Q[k] = IF k = 0 THEN 1 ELSE 2 * Q[k - 1]
  BY <1>3, Zenon DEF IsPowers
<1> QED
  BY <1>1, <1>4

LEMMA LongPowersGrow ==
    ASSUME NEW i \in 0 .. LongBits, NEW j \in i .. LongBits
    PROVE  Q[i] \in Nat /\ Q[j] \in Nat /\ Q[i] >= 1 /\ Q[i] <= Q[j]
<1>1. \A k \in 0 .. LongBits : Q[k] \in Nat /\ Q[k] >= 1
  <2> DEFINE Bad == {k \in 0 .. LongBits : ~(Q[k] \in Nat /\ Q[k] >= 1)}
  <2> SUFFICES ASSUME Bad # {} PROVE FALSE
    OBVIOUS
  <2>1. PICK m \in Bad : \A k \in Bad : m <= k
    <3>1. Bad \in SUBSET Nat
      BY LongPowersDouble
    <3> HIDE DEF Bad
    <3> QED
      BY <3>1, LeastNat
  <2>2. m # 0
    BY <2>1, LongPowersDouble
  <2>3. m - 1 \in 0 .. LongBits /\ m \in 1 .. LongBits /\ ~(m <= m - 1)
    BY <2>1, <2>2, LongPowersDouble
  <2>4. Q[m - 1] \in Nat /\ Q[m - 1] >= 1
    BY <2>1, <2>3
  <2>5. Q[m] = 2 * Q[m - 1]
    BY <2>3, LongPowersDouble
  <2> QED
    BY <2>1, <2>4, <2>5
<1>2. \A k \in i .. LongBits : Q[i] <= Q[k]
  <2> DEFINE Bad == {k \in i .. LongBits : ~(Q[i] <= Q[k])}
  <2> SUFFICES ASSUME Bad # {} PROVE FALSE
    OBVIOUS
  <2>1. PICK m \in Bad : \A k \in Bad : m <= k
    <3>1. Bad \in SUBSET Nat
      BY LongPowersDouble
    <3> HIDE DEF Bad
    <3> QED
      BY <3>1, LeastNat
  <2>2. m # i
    BY <1>1, <2>1
  <2>3. m - 1 \in i .. LongBits /\ m \in 1 .. LongBits /\ ~(m <= m - 1) /\ m - 1 \in 0 .. LongBits
    BY <2>1, <2>2, LongPowersDouble
  <2>4. Q[i] <= Q[m - 1] /\ Q[m - 1] \in Nat /\ Q[i] \in Nat
    BY <1>1, <2>1, <2>3
  <2>5. Q[m] = 2 * Q[m - 1]
    BY <2>3, LongPowersDouble
  <2> QED
    BY <2>1, <2>4, <2>5
<1>3. j \in 0 .. LongBits
  BY LongPowersDouble
<1> QED
  BY <1>1, <1>2, <1>3

\* The word that number is given, and the value that the directive selects.
Cut(w, bits, signed) ==
    LET rest == w % Q[bits]
    IN  IF signed /\ rest >= Q[bits - 1] THEN rest + Q[LongBits] - Q[bits] ELSE rest

LEMMA Halves ==
    ASSUME NEW rest \in Int, NEW B \in Int, NEW H \in Int, NEW L \in Int, NEW K \in Int,
           B = 2 * H, L = 2 * K, 0 <= rest, rest < B, 1 <= H, H <= K, NEW signed \in BOOLEAN,
           NEW word, NEW value,
           word = IF signed /\ rest >= H THEN rest + L - B ELSE rest,
           value = IF signed /\ rest >= H THEN rest - B ELSE rest
    PROVE  /\ word \in Nat /\ value \in Int
           /\ word >= K /\ signed <=> value < 0
           /\ value < 0 => L - word = -value
           /\ value >= 0 => word = value
<1>1. CASE signed /\ rest >= H
  BY <1>1
<1>2. CASE ~(signed /\ rest >= H)
  <2>1. word = rest /\ value = rest
    BY <1>2
  <2>2. signed => rest < H
    BY <1>2
  <2> QED
    BY <2>1, <2>2
<1> QED
  BY <1>1, <1>2

LEMMA WordIsValue ==
    ASSUME NEW w \in Nat, NEW bits \in 1 .. LongBits, NEW signed \in BOOLEAN
    PROVE  LET word == Cut(w, bits, signed)
               value == Printer!Low(w, bits, signed)
           IN  /\ word \in Nat /\ value \in Int
               /\ word >= Q[LongBits - 1] /\ signed <=> value < 0
               /\ value < 0 => Q[LongBits] - word = -value
               /\ value >= 0 => word = value
<1> DEFINE B == Q[bits]
           H == Q[bits - 1]
           L == Q[LongBits]
           K == Q[LongBits - 1]
           rest == w % B
           word == Cut(w, bits, signed)
           value == Printer!Low(w, bits, signed)
<1>1. word = IF signed /\ rest >= H THEN rest + L - B ELSE rest
  BY Zenon DEF Cut
<1>2. value = IF signed /\ rest >= H THEN rest - B ELSE rest
  BY Zenon DEF Printer!Low, Q
<1>3. B = 2 * H /\ L = 2 * K
  BY LongPowersDouble
<1>4. B \in Nat /\ H \in Nat /\ L \in Nat /\ K \in Nat /\ 1 <= H /\ H <= K
  <2>1. /\ bits - 1 \in 0 .. LongBits /\ LongBits - 1 \in bits - 1 .. LongBits
        /\ bits \in 0 .. LongBits /\ LongBits \in bits .. LongBits
    BY LongPowersDouble
  <2> QED
    BY <2>1, LongPowersGrow
<1> HIDE DEF B, H, L, K
<1>5. rest \in Int /\ 0 <= rest /\ rest < B
  BY <1>3, <1>4
<1> HIDE DEF rest, word, value
<1>6. /\ word \in Nat /\ value \in Int
      /\ word >= K /\ signed <=> value < 0
      /\ value < 0 => L - word = -value
      /\ value >= 0 => word = value
  <2>1. B \in Int /\ H \in Int /\ L \in Int /\ K \in Int
    BY <1>4
  <2> QED
    BY <1>1, <1>2, <1>3, <1>4, <1>5, <2>1, Halves
<1> QED
  BY <1>6 DEF word, value, L, K

\* The characters of a field, and those that are not blank.
Inks == Numerals \cup {"-", "+", "x", "X"}
Marks == Inks \cup {Space}

LEMMA InksAre ==
    /\ Numerals \subseteq Inks /\ Inks \subseteq Marks /\ Space \in Marks
    /\ "0" \in Numerals /\ {"-", "+", "x", "X"} \subseteq Inks
    /\ Space \notin Inks
    /\ \A c \in Numerals : c # "-" /\ c # "+"
    /\ "-" # "+"
<1>1. Space \notin Inks
  BY Zenon DEF Inks, Numerals, Space
<1>2. \A c \in Numerals : c # "-" /\ c # "+"
  BY Zenon DEF Numerals
<1>3. "0" \in Numerals
  BY DEF Numerals
<1>4. "-" # "+"
  OBVIOUS
<1> QED
  BY <1>1, <1>2, <1>3, <1>4, Zenon DEF Inks, Marks

\* A text with one character in front.
LEMMA InFront ==
    ASSUME NEW T, NEW c \in T, NEW s \in Seq(T)
    PROVE  /\ <<c>> \o s \in Seq(T) /\ <<c>> \o s # <<>>
           /\ Head(<<c>> \o s) = c /\ Tail(<<c>> \o s) = s
           /\ Len(<<c>> \o s) = Len(s) + 1
<1> DEFINE o == <<c>>
           t == o \o s
           n == Len(s)
<1>1. o \in Seq(T) /\ Len(o) = 1 /\ o[1] = c
  OBVIOUS
<1>2. n \in Nat
  BY LenProperties
<1> HIDE DEF o
<1>3. /\ t \in Seq(T) /\ Len(t) = Len(o) + Len(s)
      /\ \A k \in 1 .. Len(o) + Len(s) : t[k] = IF k <= Len(o) THEN o[k] ELSE s[k - Len(o)]
  BY <1>1, ConcatProperties
<1> HIDE DEF t, n
<1>4. Len(t) = n + 1 /\ t[1] = c /\ \A k \in 1 .. n : t[k + 1] = s[k]
  <2>1. Len(t) = 1 + n
    BY <1>1, <1>3, Zenon DEF n
  <2>2. t[1] = c
    <3>1. 1 \in 1 .. 1 + n /\ 1 <= 1
      BY <1>2
    <3> QED
      BY <1>1, <1>3, <3>1, Zenon DEF n
  <2>3. \A k \in 1 .. n : t[k + 1] = s[k]
    <3> TAKE k \in 1 .. n
    <3>1. k + 1 \in 1 .. 1 + n /\ ~(k + 1 <= 1) /\ (k + 1) - 1 = k
      BY <1>2
    <3> QED
      BY <1>1, <1>3, <3>1, Zenon DEF n
  <2> QED
    BY <1>2, <2>1, <2>2, <2>3
<1>5. t # <<>>
  BY <1>2, <1>4, EmptySeq
<1>6. Head(t) = t[1]
  BY <1>3, <1>5, HeadTailProperties
<1>7. Tail(t) = s
  <2>1. /\ Tail(t) \in Seq(T) /\ Len(Tail(t)) = Len(t) - 1
        /\ \A k \in 1 .. Len(Tail(t)) : Tail(t)[k] = t[k + 1]
    BY <1>3, <1>5, HeadTailProperties
  <2>2. Len(Tail(t)) = n
    BY <1>2, <1>4, <2>1
  <2>3. \A k \in 1 .. n : Tail(t)[k] = s[k]
    BY <1>4, <2>1, <2>2, Zenon
  <2> QED
    BY <2>1, <2>2, <2>3, SeqEqual DEF n
<1> QED
  BY <1>3, <1>4, <1>5, <1>6, <1>7 DEF t, o, n

\* One zero in front of some is one zero more.
LEMMA OneMoreOf ==
    ASSUME NEW T, NEW c \in T, NEW n \in Int
    PROVE  /\ <<c>> \o Printer!Times(c, n) = Printer!Times(c, Printer!Most(n, 0) + 1)
           /\ Printer!Times(c, n) \o <<c>> = Printer!Times(c, Printer!Most(n, 0) + 1)
<1> DEFINE m == Printer!Most(n, 0)
           A == Printer!Times(c, n)
           B == Printer!Times(c, m + 1)
           o == <<c>>
<1>1. A \in Seq(T) /\ Len(A) = m /\ m \in Nat /\ \A k \in 1 .. Len(A) : A[k] = c
  BY TimesAre
<1>2. m + 1 \in Int
  BY <1>1
<1> HIDE DEF m
<1>3. B \in Seq(T) /\ Len(B) = Printer!Most(m + 1, 0) /\ \A k \in 1 .. Len(B) : B[k] = c
  BY <1>2, TimesAre
<1>4. Printer!Most(m + 1, 0) = m + 1
  BY <1>1 DEF Printer!Most
<1>5. o \in Seq(T) /\ Len(o) = 1 /\ o[1] = c
  OBVIOUS
<1> HIDE DEF A, B, o
<1>6. /\ o \o A \in Seq(T) /\ Len(o \o A) = 1 + m
      /\ \A k \in 1 .. 1 + m : (o \o A)[k] = IF k <= 1 THEN o[k] ELSE A[k - 1]
  <2>1. /\ o \o A \in Seq(T) /\ Len(o \o A) = Len(o) + Len(A)
        /\ \A k \in 1 .. Len(o) + Len(A) : (o \o A)[k] = IF k <= Len(o) THEN o[k] ELSE A[k - Len(o)]
    BY <1>1, <1>5, ConcatProperties
  <2> QED
    BY <1>1, <1>5, <2>1, Zenon
<1>7. /\ A \o o \in Seq(T) /\ Len(A \o o) = m + 1
      /\ \A k \in 1 .. m + 1 : (A \o o)[k] = IF k <= m THEN A[k] ELSE o[k - m]
  <2>1. /\ A \o o \in Seq(T) /\ Len(A \o o) = Len(A) + Len(o)
        /\ \A k \in 1 .. Len(A) + Len(o) : (A \o o)[k] = IF k <= Len(A) THEN A[k] ELSE o[k - Len(A)]
    BY <1>1, <1>5, ConcatProperties
  <2> QED
    BY <1>1, <1>5, <2>1, Zenon
<1> DEFINE F == o \o A
           G == A \o o
<1>8. F \in Seq(T) /\ Len(F) = m + 1 /\ \A k \in 1 .. m + 1 : F[k] = c
  <2>1. F \in Seq(T) /\ Len(F) = 1 + m
    BY <1>6
  <2> HIDE DEF F
  <2>2. \A k \in 1 .. m + 1 : F[k] = c
    <3> TAKE k \in 1 .. m + 1
    <3>1. k \in 1 .. 1 + m /\ (k <= 1 => k = 1) /\ (~(k <= 1) => k - 1 \in 1 .. m)
      BY <1>1
    <3> QED
      BY <1>1, <1>5, <1>6, <3>1, Zenon DEF F
  <2> QED
    BY <1>1, <2>1, <2>2
<1>9. G \in Seq(T) /\ Len(G) = m + 1 /\ \A k \in 1 .. m + 1 : G[k] = c
  <2>1. G \in Seq(T) /\ Len(G) = m + 1
    BY <1>7
  <2> HIDE DEF G
  <2>2. \A k \in 1 .. m + 1 : G[k] = c
    <3> TAKE k \in 1 .. m + 1
    <3>1. (k <= m => k \in 1 .. m) /\ (~(k <= m) => k - m = 1)
      BY <1>1
    <3> QED
      BY <1>1, <1>5, <1>7, <3>1, Zenon DEF G
  <2> QED
    BY <2>1, <2>2
<1> HIDE DEF F, G
<1>10. F = B
  BY <1>3, <1>4, <1>8, SeqEqual
<1>11. G = B
  BY <1>3, <1>4, <1>9, SeqEqual
<1> QED
  BY <1>10, <1>11 DEF F, G, A, B, o, m

Joint(s, t) == s \o t

LEMMA Associates ==
    ASSUME NEW T
    PROVE  \A s, t, u \in Seq(T) : /\ Joint(Joint(s, t), u) = Joint(s, Joint(t, u))
                                  /\ Joint(s, t) \in Seq(T)
<1> TAKE s, t, u \in Seq(T)
<1>1. s \o t \in Seq(T)
  BY ConcatProperties
<1>2. (s \o t) \o u = s \o (t \o u)
  BY ConcatAssociative
<1> QED
  BY <1>1, <1>2 DEF Joint

LEMMA Grouped ==
    ASSUME NEW T, NEW a \in Seq(T), NEW s \in Seq(T), NEW p \in Seq(T), NEW z \in Seq(T),
           NEW t \in Seq(T)
    PROVE  /\ Joint(Joint(Joint(Joint(a, s), p), z), t) = Joint(a, Joint(s, Joint(p, Joint(z, t))))
           /\ Joint(s, Joint(p, Joint(z, t))) \in Seq(T)
           /\ Joint(p, Joint(z, t)) \in Seq(T) /\ Joint(z, t) \in Seq(T)
<1>1. /\ Joint(z, t) \in Seq(T) /\ Joint(p, Joint(z, t)) \in Seq(T)
      /\ Joint(s, Joint(p, Joint(z, t))) \in Seq(T)
      /\ Joint(a, s) \in Seq(T) /\ Joint(Joint(a, s), p) \in Seq(T)
  BY Associates, Zenon
<1>2. Joint(Joint(Joint(Joint(a, s), p), z), t) = Joint(Joint(Joint(a, s), p), Joint(z, t))
  BY <1>1, Associates
<1>3. Joint(Joint(Joint(a, s), p), Joint(z, t)) = Joint(Joint(a, s), Joint(p, Joint(z, t)))
  BY <1>1, Associates
<1>4. Joint(Joint(a, s), Joint(p, Joint(z, t))) = Joint(a, Joint(s, Joint(p, Joint(z, t))))
  BY <1>1, Associates
<1> QED
  BY <1>1, <1>2, <1>3, <1>4, Zenon

\* The parts that number makes a field of.
Negative(word, type) == "SIGN" \in type /\ word >= Q[LongBits - 1]
NumOf(word, type) == IF Negative(word, type) THEN Q[LongBits] - word ELSE word
SignOf(word, type) == IF "SIGN" \notin type THEN <<>>
                      ELSE IF Negative(word, type) THEN <<"-">>
                      ELSE IF "PLUS" \in type THEN <<"+">>
                      ELSE IF "SPACE" \in type THEN <<Space>> ELSE <<>>
PrefixOf(base, type) == IF "SPECIAL" \notin type THEN <<>>
                        ELSE CASE base = 16 -> <<"0", IF "SMALL" \in type THEN "x" ELSE "X">>
                               [] base = 8 -> <<"0">>
                               [] OTHER -> <<>>
TmpOf(word, base, type) == Printer!DigitsOf(NumOf(word, type), base, "SMALL" \in type)
WidthOf(word, base, precision, type) == Printer!Most(Len(TmpOf(word, base, type)), precision)
LeftOver(word, base, size, precision, type) ==
    size - (IF Negative(word, type) THEN 0 ELSE Len(SignOf(word, type)))
         - Len(PrefixOf(base, type)) - WidthOf(word, base, precision, type)
FillsUp(type) == "ZEROPAD" \in type /\ "LEFT" \notin type

Laid(spaces, zeros, sign, prefix, tmp, trailing) ==
    Joint(Joint(Joint(Joint(Joint(Printer!Times(Space, spaces), sign), prefix),
                      Printer!Times("0", zeros)), tmp),
          Printer!Times(Space, trailing))

LEMMA LayoutIs ==
    ASSUME NEW a, NEW b, NEW c, NEW d, NEW e, NEW f
    PROVE  Printer!Layout(a, b, c, d, e, f) = Laid(a, b, c, d, e, f)
BY Zenon DEF Printer!Layout, Laid, Joint, Space

LEMMA NumberIs ==
    ASSUME NEW word, NEW base, NEW size, NEW precision, NEW type
    PROVE  LET left == LeftOver(word, base, size, precision, type)
           IN  Printer!number(word, base, size, precision, type) =
                 Laid(IF FillsUp(type) \/ "LEFT" \in type THEN 0 ELSE left,
                      (IF FillsUp(type) THEN Printer!Most(left, 0) ELSE 0)
                        + WidthOf(word, base, precision, type) - Len(TmpOf(word, base, type)),
                      SignOf(word, type), PrefixOf(base, type), TmpOf(word, base, type),
                      IF "LEFT" \in type THEN left ELSE 0)
<1> DEFINE left == LeftOver(word, base, size, precision, type)
<1>1. Printer!number(word, base, size, precision, type) =
        Printer!Layout(IF FillsUp(type) \/ "LEFT" \in type THEN 0 ELSE left,
                      (IF FillsUp(type) THEN Printer!Most(left, 0) ELSE 0)
                        + WidthOf(word, base, precision, type) - Len(TmpOf(word, base, type)),
                      SignOf(word, type), PrefixOf(base, type), TmpOf(word, base, type),
                      IF "LEFT" \in type THEN left ELSE 0)
  BY Zenon DEF Printer!number, LeftOver, FillsUp, WidthOf, TmpOf, SignOf, PrefixOf, NumOf,
               Negative, Space, Q
<1> QED
  BY <1>1, LayoutIs, Zenon

\* Texts of one character and of none.
LEMMA Singles ==
    /\ <<"-">> \in Seq(Marks) /\ <<"+">> \in Seq(Marks) /\ <<Space>> \in Seq(Marks)
    /\ <<"0">> \in Seq(Marks) /\ <<"0", "x">> \in Seq(Marks) /\ <<"0", "X">> \in Seq(Marks)
    /\ <<>> \in Seq(Marks)
    /\ <<"-">> \in Seq(Inks) /\ <<"+">> \in Seq(Inks) /\ <<>> \in Seq(Inks)
    /\ <<"0", "x">> \in Seq(Inks) /\ <<"0", "X">> \in Seq(Inks)
    /\ Len(<<"-">>) = 1 /\ Len(<<"+">>) = 1 /\ Len(<<Space>>) = 1 /\ Len(<<"0">>) = 1
    /\ Len(<<"0", "x">>) = 2 /\ Len(<<"0", "X">>) = 2 /\ Len(<<>>) = 0
    /\ <<"-">> # <<>> /\ <<"+">> # <<>> /\ <<"0", "x">> # <<>> /\ <<"0", "X">> # <<>>
    /\ <<"-">> # <<"+">>
<1>1. /\ "-" \in Inks /\ "+" \in Inks /\ "0" \in Inks /\ "x" \in Inks /\ "X" \in Inks
      /\ Space \in Marks
  BY InksAre
<1>2. "-" \in Marks /\ "+" \in Marks /\ "0" \in Marks /\ "x" \in Marks /\ "X" \in Marks
  BY <1>1 DEF Marks
<1> QED
  BY <1>1, <1>2

\* What is left when there is nothing to join.
LEMMA JointEmpty ==
    ASSUME NEW T, NEW s \in Seq(T)
    PROVE  Joint(s, <<>>) = s /\ Joint(<<>>, s) = s
BY ConcatEmptySeq DEF Joint

LEMMA TimesAgain ==
    ASSUME NEW c, NEW n \in Int
    PROVE  Printer!Times(c, Printer!Most(n, 0) + 0) = Printer!Times(c, n)
<1>1. Printer!Most(Printer!Most(n, 0) + 0, 0) = Printer!Most(n, 0)
  BY DEF Printer!Most
<1> QED
  BY <1>1, Zenon DEF Printer!Times

\* A blank for a sign counts with the padding, a '0' for a prefix with the zeros.
Signs == {<<>>, <<"-">>, <<"+">>}
SignSplits(sign, sgn, e) ==
    /\ \A n \in Int : Joint(Printer!Times(Space, n), sign)
                        = Joint(Printer!Times(Space, Printer!Most(n, 0) + e), sgn)
    /\ Len(sign) = Len(sgn) + e

LEMMA SignSplit ==
    ASSUME NEW word, NEW type
    PROVE  \E sgn \in Signs, e \in {0, 1} :
             /\ SignSplits(SignOf(word, type), sgn, e)
             /\ sgn = <<"-">> <=> Negative(word, type)
             /\ e = 1 => "SIGN" \in type /\ "SPACE" \in type
<1>1. ASSUME NEW sgn, SignOf(word, type) = sgn, Len(sgn) \in Nat
      PROVE  SignSplits(SignOf(word, type), sgn, 0)
  <2>1. Len(sgn) = Len(sgn) + 0
    BY <1>1
  <2> QED
    BY <1>1, <2>1, TimesAgain, Zenon DEF SignSplits
<1>2. CASE Negative(word, type)
  <2>1. SignOf(word, type) = <<"-">>
    BY <1>2, Zenon DEF SignOf, Negative
  <2>2. Len(<<"-">>) \in Nat
    BY Singles
  <2>3. SignSplits(SignOf(word, type), <<"-">>, 0)
    BY <1>1, <2>1, <2>2, Zenon
  <2> QED
    BY <1>2, <2>3, 0 # 1, Zenon DEF Signs
<1>3. CASE ~Negative(word, type) /\ "SIGN" \in type /\ "PLUS" \in type
  <2>1. SignOf(word, type) = <<"+">>
    BY <1>3, Zenon DEF SignOf
  <2>2. Len(<<"+">>) \in Nat
    BY Singles
  <2>3. SignSplits(SignOf(word, type), <<"+">>, 0)
    BY <1>1, <2>1, <2>2, Zenon
  <2> QED
    BY <1>3, <2>3, 0 # 1, Singles, Zenon DEF Signs
<1>4. CASE /\ ~Negative(word, type) /\ "SIGN" \in type /\ "PLUS" \notin type
           /\ "SPACE" \in type
  <2>1. SignOf(word, type) = <<Space>>
    BY <1>4, Zenon DEF SignOf
  <2>2. SignSplits(<<Space>>, <<>>, 1)
    <3>1. ASSUME NEW n \in Int
          PROVE  Joint(Printer!Times(Space, n), <<Space>>)
                   = Joint(Printer!Times(Space, Printer!Most(n, 0) + 1), <<>>)
      <4>1. Joint(Printer!Times(Space, n), <<Space>>)
              = Printer!Times(Space, Printer!Most(n, 0) + 1)
        BY InksAre, OneMoreOf, Zenon DEF Joint
      <4>2. Printer!Most(n, 0) + 1 \in Int
        BY DEF Printer!Most
      <4>3. Printer!Times(Space, Printer!Most(n, 0) + 1) \in Seq(Marks)
        BY <4>2, InksAre, TimesAre, Zenon
      <4> QED
        BY <4>1, <4>3, JointEmpty, Zenon
    <3>2. Len(<<Space>>) = Len(<<>>) + 1
      BY Singles
    <3> QED
      BY <3>1, <3>2, Zenon DEF SignSplits
  <2> QED
    BY <1>4, <2>1, <2>2, Singles, Zenon DEF Signs
<1>5. CASE /\ ~Negative(word, type)
           /\ "SIGN" \notin type \/ ("PLUS" \notin type /\ "SPACE" \notin type)
  <2>1. SignOf(word, type) = <<>>
    BY <1>5, Zenon DEF SignOf
  <2>2. Len(<<>>) \in Nat
    BY Singles
  <2>3. SignSplits(SignOf(word, type), <<>>, 0)
    BY <1>1, <2>1, <2>2, Zenon
  <2> QED
    BY <1>5, <2>3, 0 # 1, Singles, Zenon DEF Signs
<1> QED
  BY <1>2, <1>3, <1>4, <1>5, Zenon

Bases == {<<>>, <<"0", "x">>, <<"0", "X">>}
PrefixSplits(prefix, pre, e) ==
    /\ \A n \in Int : Joint(prefix, Printer!Times("0", n))
                        = Joint(pre, Printer!Times("0", Printer!Most(n, 0) + e))
    /\ Len(prefix) = Len(pre) + e

LEMMA PrefixSplit ==
    ASSUME NEW base \in {8, 10, 16}, NEW type
    PROVE  \E pre \in Bases, e \in {0, 1} :
             /\ PrefixSplits(PrefixOf(base, type), pre, e)
             /\ pre # <<>> <=> "SPECIAL" \in type /\ base = 16
<1>1. ASSUME NEW pre, PrefixOf(base, type) = pre, Len(pre) \in Nat
      PROVE  PrefixSplits(PrefixOf(base, type), pre, 0)
  <2>1. Len(pre) = Len(pre) + 0
    BY <1>1
  <2> QED
    BY <1>1, <2>1, TimesAgain, Zenon DEF PrefixSplits
<1>2. CASE "SPECIAL" \in type /\ base = 16
  <2>1. PrefixOf(base, type) = <<"0", "x">> \/ PrefixOf(base, type) = <<"0", "X">>
    <3>1. base # 8
      BY <1>2
    <3>2. PrefixOf(base, type) = <<"0", IF "SMALL" \in type THEN "x" ELSE "X">>
      BY <1>2, <3>1, Zenon DEF PrefixOf
    <3> QED
      BY <3>2, Zenon
  <2>2. Len(<<"0", "x">>) \in Nat /\ Len(<<"0", "X">>) \in Nat
    BY Singles
  <2> QED
    BY <1>1, <1>2, <2>1, <2>2, Singles, Zenon DEF Bases
<1>3. CASE "SPECIAL" \in type /\ base = 8
  <2>1. PrefixOf(base, type) = <<"0">> /\ base # 16
    <3>1. base # 16
      BY <1>3
    <3> QED
      BY <1>3, <3>1, Zenon DEF PrefixOf
  <2>2. PrefixSplits(<<"0">>, <<>>, 1)
    <3>1. ASSUME NEW n \in Int
          PROVE  Joint(<<"0">>, Printer!Times("0", n))
                   = Joint(<<>>, Printer!Times("0", Printer!Most(n, 0) + 1))
      <4>1. Joint(<<"0">>, Printer!Times("0", n)) = Printer!Times("0", Printer!Most(n, 0) + 1)
        BY InksAre, OneMoreOf, Zenon DEF Joint
      <4>2. Printer!Most(n, 0) + 1 \in Int
        BY DEF Printer!Most
      <4>3. Printer!Times("0", Printer!Most(n, 0) + 1) \in Seq(Numerals)
        BY <4>2, InksAre, TimesAre, Zenon
      <4> QED
        BY <4>1, <4>3, JointEmpty, Zenon
    <3>2. Len(<<"0">>) = Len(<<>>) + 1
      BY Singles
    <3> QED
      BY <3>1, <3>2, Zenon DEF PrefixSplits
  <2> QED
    BY <1>3, <2>1, <2>2, Zenon DEF Bases
<1>4. CASE "SPECIAL" \notin type \/ base = 10
  <2>1. PrefixOf(base, type) = <<>> /\ ~("SPECIAL" \in type /\ base = 16)
    <3>1. base = 10 => base # 8 /\ base # 16
      OBVIOUS
    <3> QED
      BY <1>4, <3>1, Zenon DEF PrefixOf
  <2>2. Len(<<>>) \in Nat
    BY Singles
  <2> QED
    BY <1>1, <2>1, <2>2, Zenon DEF Bases
<1> QED
  BY <1>2, <1>3, <1>4, Zenon

\* What is between the blanks: a sign, 0x, zeros and digits.
Field(sgn, pre, z, tmp) == Joint(sgn, Joint(pre, Joint(Printer!Times("0", z), tmp)))

\* How wide a field is.
Sizing(size, precision, neg, filled, flushed, lt, ls, e, lp, f, digits, left, spaces, zeros,
       trailing, i, z, j) ==
    /\ size \in Int /\ precision \in Int
    /\ neg \in BOOLEAN /\ filled \in BOOLEAN /\ flushed \in BOOLEAN /\ ~(filled /\ flushed)
    /\ lt \in Nat /\ ls \in Nat /\ lp \in Nat /\ e \in {0, 1} /\ f \in {0, 1}
    /\ neg => ls = 1
    /\ digits = Printer!Most(lt, precision)
    /\ left = size - (IF neg THEN 0 ELSE ls + e) - (lp + f) - digits
    /\ spaces = (IF filled \/ flushed THEN 0 ELSE left)
    /\ zeros = (IF filled THEN Printer!Most(left, 0) ELSE 0) + digits - lt
    /\ trailing = (IF flushed THEN left ELSE 0)
    /\ i = Printer!Most(spaces, 0) + e /\ z = Printer!Most(zeros, 0) + f
    /\ j = Printer!Most(trailing, 0)

LEMMA Widths ==
    ASSUME NEW size, NEW precision, NEW neg, NEW filled, NEW flushed, NEW lt, NEW ls, NEW e,
           NEW lp, NEW f, NEW digits, NEW left, NEW spaces, NEW zeros, NEW trailing,
           NEW i, NEW z, NEW j,
           Sizing(size, precision, neg, filled, flushed, lt, ls, e, lp, f, digits, left,
                  spaces, zeros, trailing, i, z, j)
    PROVE  /\ spaces \in Int /\ zeros \in Int /\ trailing \in Int
           /\ i \in Nat /\ z \in Nat /\ j \in Nat
           /\ Printer!Most(i, 0) = i /\ Printer!Most(z, 0) = z
           /\ z + lt >= precision
           /\ i + (ls + lp + z + lt) + j >= size
           /\ i + j > 0 /\ e = 0 => i + (ls + lp + z + lt) + j <= size + 1
           /\ flushed /\ e = 0 => i = 0
           /\ ~flushed => j = 0
<1> DEFINE up == Printer!Most(left, 0)
<1> USE DEF Sizing
<1>1. digits \in Int /\ digits >= lt /\ digits >= precision
  BY DEF Printer!Most
<1>2. left \in Int
  BY <1>1
<1>3. up \in Nat /\ up >= left /\ (up > 0 => up = left)
  BY <1>2 DEF Printer!Most
<1>4. zeros \in Nat /\ zeros = (IF filled THEN up ELSE 0) + digits - lt
  BY <1>1, <1>3
<1>5. z = zeros + f /\ z \in Nat /\ Printer!Most(z, 0) = z
  BY <1>4 DEF Printer!Most
<1>6. i = (IF filled \/ flushed THEN 0 ELSE up) + e /\ i \in Nat /\ Printer!Most(i, 0) = i
  BY <1>3 DEF Printer!Most
<1>7. j = (IF flushed THEN up ELSE 0) /\ j \in Nat
  BY <1>3 DEF Printer!Most
<1>8. spaces \in Int /\ trailing \in Int
  BY <1>2
<1> HIDE DEF up
<1>9. i + (ls + lp + z + lt) + j = ls + e + lp + f + digits + up
  <2>1. CASE filled
    BY <1>1, <1>3, <1>4, <1>5, <1>6, <1>7, <2>1
  <2>2. CASE flushed
    BY <1>1, <1>3, <1>4, <1>5, <1>6, <1>7, <2>2
  <2>3. CASE ~filled /\ ~flushed
    BY <1>1, <1>3, <1>4, <1>5, <1>6, <1>7, <2>3
  <2> QED
    BY <2>1, <2>2, <2>3
<1>10. i + (ls + lp + z + lt) + j >= size
  BY <1>1, <1>2, <1>3, <1>9
<1>11. i + j > 0 /\ e = 0 => i + (ls + lp + z + lt) + j <= size + 1
  <2> SUFFICES ASSUME i + j > 0, e = 0 PROVE i + (ls + lp + z + lt) + j <= size + 1
    OBVIOUS
  <2>1. up > 0 /\ up = left
    BY <1>3, <1>6, <1>7
  <2> QED
    BY <1>1, <1>2, <1>3, <1>9, <2>1
<1>12. z + lt >= precision
  BY <1>1, <1>3, <1>4, <1>5
<1> QED
  BY <1>3, <1>4, <1>5, <1>6, <1>7, <1>8, <1>10, <1>11, <1>12

\* What number makes: blanks, a field and blanks.
NumberLaid(s, word, base, size, precision, type, i, z, j, sgn, pre) ==
    LET tmp == TmpOf(word, base, type)
        M == Field(sgn, pre, z, tmp)
    IN  /\ s = Joint(Joint(Printer!Times(Space, i), M), Printer!Times(Space, j))
        /\ z + Len(tmp) >= precision
        /\ sgn = <<"-">> <=> Negative(word, type)
        /\ pre # <<>> <=> "SPECIAL" \in type /\ base = 16
        /\ i + (Len(sgn) + Len(pre) + z + Len(tmp)) + j >= size
        /\ ~("SIGN" \in type /\ "SPACE" \in type) =>
             /\ i + j > 0 => i + (Len(sgn) + Len(pre) + z + Len(tmp)) + j <= size + 1
             /\ "LEFT" \in type => i = 0
        /\ "LEFT" \notin type => j = 0

IsLaid(s, word, base, size, precision, type) ==
    \E i, z, j \in Nat, sgn \in Signs, pre \in Bases :
      NumberLaid(s, word, base, size, precision, type, i, z, j, sgn, pre)

LEMMA NumberIsLaid ==
    ASSUME NEW word, NEW base \in {8, 10, 16}, NEW size \in Int, NEW precision \in Int, NEW type,
           NumOf(word, type) \in Nat
    PROVE  IsLaid(Printer!number(word, base, size, precision, type), word, base, size,
                  precision, type)
<1> DEFINE tmp == TmpOf(word, base, type)
           lt == Len(tmp)
           neg == Negative(word, type)
           filled == FillsUp(type)
           flushed == "LEFT" \in type
           digits == WidthOf(word, base, precision, type)
           sign == SignOf(word, type)
           prefix == PrefixOf(base, type)
           left == LeftOver(word, base, size, precision, type)
           spaces == IF filled \/ flushed THEN 0 ELSE left
           zeros == (IF filled THEN Printer!Most(left, 0) ELSE 0) + digits - lt
           trailing == IF flushed THEN left ELSE 0
<1>1. tmp \in Seq(Numerals) /\ lt \in Nat /\ lt >= 1
  <2>1. ("SMALL" \in type) \in BOOLEAN
    OBVIOUS
  <2>2. tmp \in Seq(Numerals) /\ lt >= 1
    BY <2>1, DigitsRead, Zenon DEF TmpOf
  <2>3. lt \in Nat
    BY <2>2, LenProperties
  <2> QED
    BY <2>2, <2>3
<1>2. PICK sgn \in Signs, e \in {0, 1} :
        /\ SignSplits(sign, sgn, e)
        /\ sgn = <<"-">> <=> neg
        /\ e = 1 => "SIGN" \in type /\ "SPACE" \in type
  BY SignSplit
<1>3. PICK pre \in Bases, f \in {0, 1} :
        /\ PrefixSplits(prefix, pre, f)
        /\ pre # <<>> <=> "SPECIAL" \in type /\ base = 16
  BY PrefixSplit
<1> DEFINE ls == Len(sgn)
           lp == Len(pre)
           i == Printer!Most(spaces, 0) + e
           z == Printer!Most(zeros, 0) + f
           j == Printer!Most(trailing, 0)
<1>4. /\ sgn \in Seq(Marks) /\ pre \in Seq(Marks) /\ ls \in Nat /\ lp \in Nat
      /\ neg => ls = 1
  <2>1. ls \in {0, 1} /\ lp \in {0, 2}
    BY Singles, Zenon DEF Signs, Bases
  <2>2. sgn \in Seq(Marks) /\ pre \in Seq(Marks)
    BY Singles, Zenon DEF Signs, Bases
  <2> QED
    BY <1>2, <2>1, <2>2, Singles
<1>5. /\ neg \in BOOLEAN /\ filled \in BOOLEAN /\ flushed \in BOOLEAN
      /\ ~(filled /\ flushed)
  BY DEF Negative, FillsUp
<1>6. /\ digits = Printer!Most(lt, precision)
      /\ left = size - (IF neg THEN 0 ELSE ls + e) - (lp + f) - digits
  BY <1>2, <1>3, Zenon DEF WidthOf, LeftOver, SignSplits, PrefixSplits
<1>7. Printer!number(word, base, size, precision, type)
        = Laid(spaces, zeros, sign, prefix, tmp, trailing)
  BY NumberIs, Zenon
<1> HIDE DEF tmp, lt, neg, filled, flushed, digits, sign, prefix, left, ls, lp
<1>8. /\ spaces \in Int /\ zeros \in Int /\ trailing \in Int
      /\ i \in Nat /\ z \in Nat /\ j \in Nat
      /\ z + lt >= precision
      /\ i + (ls + lp + z + lt) + j >= size
      /\ i + j > 0 /\ e = 0 => i + (ls + lp + z + lt) + j <= size + 1
      /\ flushed /\ e = 0 => i = 0
      /\ ~flushed => j = 0
  <2>1. /\ spaces = (IF filled \/ flushed THEN 0 ELSE left)
        /\ zeros = (IF filled THEN Printer!Most(left, 0) ELSE 0) + digits - lt
        /\ trailing = (IF flushed THEN left ELSE 0)
        /\ i = Printer!Most(spaces, 0) + e /\ z = Printer!Most(zeros, 0) + f
        /\ j = Printer!Most(trailing, 0)
    OBVIOUS
  <2>2. neg => ls = 1
    BY <1>4
  <2> HIDE DEF spaces, zeros, trailing, i, z, j
  <2>3. Sizing(size, precision, neg, filled, flushed, lt, ls, e, lp, f, digits, left,
               spaces, zeros, trailing, i, z, j)
    BY <1>1, <1>4, <1>5, <1>6, <2>1, <2>2 DEF Sizing
  <2> QED
    BY <2>3, Widths
<1> DEFINE A == Printer!Times(Space, spaces)
           Z == Printer!Times("0", zeros)
           B == Printer!Times(Space, trailing)
           Ai == Printer!Times(Space, i)
           Zz == Printer!Times("0", z)
<1>9. Laid(spaces, zeros, sign, prefix, tmp, trailing)
        = Joint(Joint(Joint(Joint(Joint(A, sign), prefix), Z), tmp), B)
  BY Zenon DEF Laid
<1>10. Joint(A, sign) = Joint(Ai, sgn)
  BY <1>2, <1>8, Zenon DEF SignSplits
<1>11. Joint(prefix, Z) = Joint(pre, Zz)
  BY <1>3, <1>8, Zenon DEF PrefixSplits
<1>12. B = Printer!Times(Space, j)
  <2>1. Printer!Times(Space, Printer!Most(trailing, 0) + 0) = B
    BY <1>8, TimesAgain
  <2>2. Printer!Most(trailing, 0) + 0 = j
    BY <1>8
  <2> QED
    BY <2>1, <2>2, Zenon
<1>13. /\ A \in Seq(Marks) /\ Ai \in Seq(Marks) /\ Z \in Seq(Marks) /\ Zz \in Seq(Marks)
       /\ tmp \in Seq(Marks) /\ prefix \in Seq(Marks)
  <2>1. i \in Int /\ z \in Int
    BY <1>8
  <2>2. "0" \in Marks /\ Space \in Marks /\ Numerals \subseteq Marks
    BY InksAre
  <2>3. A \in Seq(Marks) /\ Ai \in Seq(Marks) /\ Z \in Seq(Marks) /\ Zz \in Seq(Marks)
    BY <1>8, <2>1, <2>2, TimesAre, Zenon
  <2>4. tmp \in Seq(Marks)
    BY <1>1, <2>2, SeqMonotonic
  <2>5. prefix \in {<<>>, <<"0", "x">>, <<"0", "X">>, <<"0">>}
    BY Zenon DEF prefix, PrefixOf
  <2>6. prefix \in Seq(Marks)
    BY <2>5, Singles, Zenon
  <2> QED
    BY <2>3, <2>4, <2>6
<1> HIDE DEF A, Z, B, Ai, Zz, i, z, j
<1>14. Joint(Joint(Joint(Joint(A, sign), prefix), Z), tmp)
         = Joint(Ai, Field(sgn, pre, z, tmp))
  <2>1. Joint(Ai, sgn) \in Seq(Marks)
    BY <1>4, <1>13, Associates
  <2>2. Joint(Joint(Joint(Ai, sgn), prefix), Z) = Joint(Joint(Joint(Ai, sgn), pre), Zz)
    <3>1. Joint(Joint(Joint(Ai, sgn), prefix), Z) = Joint(Joint(Ai, sgn), Joint(prefix, Z))
      BY <1>13, <2>1, Associates
    <3>2. Joint(Joint(Joint(Ai, sgn), pre), Zz) = Joint(Joint(Ai, sgn), Joint(pre, Zz))
      BY <1>4, <1>13, <2>1, Associates
    <3> QED
      BY <1>11, <3>1, <3>2, Zenon
  <2>3. Joint(Joint(Joint(Joint(Ai, sgn), pre), Zz), tmp)
          = Joint(Ai, Joint(sgn, Joint(pre, Joint(Zz, tmp))))
    BY <1>4, <1>13, Grouped
  <2> QED
    BY <1>10, <2>2, <2>3, Zenon DEF Field, Zz
<1>15. Printer!number(word, base, size, precision, type)
         = Joint(Joint(Ai, Field(sgn, pre, z, tmp)), Printer!Times(Space, j))
  BY <1>7, <1>9, <1>12, <1>14, Zenon
<1>16. NumberLaid(Printer!number(word, base, size, precision, type), word, base, size,
                  precision, type, i, z, j, sgn, pre)
  <2>1. e = 0 \/ e = 1
    BY <1>2
  <2>2. ~("SIGN" \in type /\ "SPACE" \in type) => e = 0
    BY <1>2, <2>1, Zenon
  <2>3. /\ ~("SIGN" \in type /\ "SPACE" \in type) =>
             /\ i + j > 0 => i + (ls + lp + z + lt) + j <= size + 1
             /\ "LEFT" \in type => i = 0
        /\ "LEFT" \notin type => j = 0
    BY <1>8, <2>2, Zenon DEF flushed
  <2>4. /\ z + Len(tmp) >= precision
        /\ i + (Len(sgn) + Len(pre) + z + Len(tmp)) + j >= size
    BY <1>8, Zenon DEF ls, lp, lt
  <2> QED
    BY <1>2, <1>3, <1>15, <2>3, <2>4, Zenon DEF NumberLaid, ls, lp, lt, tmp, neg, Ai
<1>17. i \in Nat /\ z \in Nat /\ j \in Nat
  BY <1>8
<1> QED
  BY <1>16, <1>17, Zenon DEF IsLaid

\* A field, and what is read of it.
LEMMA FieldReads ==
    ASSUME NEW sgn \in Signs, NEW pre \in Bases,
           NEW z \in Nat, NEW tmp \in Seq(Numerals), Len(tmp) >= 1
    PROVE  LET body == Joint(Printer!Times("0", z), tmp)
               R == Joint(pre, body)
               M == Field(sgn, pre, z, tmp)
           IN  /\ M \in Seq(Inks) /\ M # <<>>
               /\ Len(M) = Len(sgn) + Len(pre) + z + Len(tmp)
               /\ Printer!Unsigned(M) = R
               /\ Head(M) = "-" <=> sgn = <<"-">>
               /\ pre = <<>> => R = body
               /\ pre # <<>> => SubSeq(R, 3, Len(R)) = body
               /\ body \in Seq(Numerals) /\ Len(body) = z + Len(tmp) /\ body # <<>>
<1> DEFINE Z == Printer!Times("0", z)
           body == Joint(Z, tmp)
           R == Joint(pre, body)
           M == Field(sgn, pre, z, tmp)
<1>1. /\ Z \in Seq(Numerals) /\ Len(Z) = z /\ "0" \in Numerals
  <2>1. "0" \in Numerals /\ z \in Int
    BY InksAre
  <2>2. Z \in Seq(Numerals) /\ Len(Z) = Printer!Most(z, 0)
    BY <2>1, TimesAre
  <2>3. Printer!Most(z, 0) = z
    BY DEF Printer!Most
  <2> QED
    BY <2>1, <2>2, <2>3
<1> HIDE DEF Z
<1>2. body \in Seq(Numerals) /\ Len(body) = z + Len(tmp)
  BY <1>1, ConcatProperties DEF Joint
<1> HIDE DEF body
<1>3. Len(body) \in Nat /\ Len(body) >= 1 /\ body # <<>> /\ body[1] \in Numerals
  <2>1. Len(body) \in Nat /\ Len(body) >= 1
    <3>1. Len(body) \in Nat /\ Len(tmp) \in Nat
      BY <1>2, LenProperties
    <3> QED
      BY <1>2, <3>1
  <2>2. body # <<>>
    BY <2>1, EmptySeq
  <2>3. body[1] \in Numerals
    BY <1>2, <2>1, ElementOfSeq
  <2> QED
    BY <2>1, <2>2, <2>3
<1>4. body \in Seq(Inks) /\ Inks \subseteq Marks
  BY <1>2, InksAre, SeqMonotonic
<1>5. /\ pre \in Seq(Inks) /\ sgn \in Seq(Inks) /\ Len(pre) \in Nat /\ Len(sgn) \in Nat
      /\ pre = <<>> \/ (Len(pre) = 2 /\ pre[1] = "0")
  <2>1. pre \in Seq(Inks) /\ sgn \in Seq(Inks)
    BY Singles, Zenon DEF Signs, Bases
  <2>2. Len(pre) \in Nat /\ Len(sgn) \in Nat
    BY <2>1, LenProperties
  <2>3. pre = <<>> \/ (Len(pre) = 2 /\ pre[1] = "0")
    BY DEF Bases
  <2> QED
    BY <2>1, <2>2, <2>3
<1>6. /\ R \in Seq(Inks) /\ Len(R) = Len(pre) + Len(body) /\ R # <<>>
      /\ R[1] \in Numerals /\ Head(R) = R[1]
      /\ pre = <<>> => R = body
      /\ pre # <<>> => SubSeq(R, 3, Len(R)) = body
  <2>1. R \in Seq(Inks) /\ Len(R) = Len(pre) + Len(body)
    BY <1>4, <1>5, ConcatProperties DEF Joint
  <2>2. pre = <<>> => R = body
    BY <1>4, JointEmpty, Zenon
  <2>3. pre # <<>> => R[1] = "0"
    <3> SUFFICES ASSUME pre # <<>> PROVE R[1] = "0"
      OBVIOUS
    <3>1. 1 \in 1 .. Len(pre) + Len(body) /\ 1 <= Len(pre)
      BY <1>3, <1>5
    <3>2. R[1] = pre[1]
      BY <1>4, <1>5, <3>1, ConcatProperties DEF Joint
    <3> QED
      BY <1>5, <3>2
  <2>4. R[1] \in Numerals
    BY <1>1, <1>3, <2>2, <2>3
  <2>5. R # <<>>
    <3>1. Len(R) >= 1
      BY <1>3, <1>5, <2>1
    <3> QED
      BY <3>1, EmptySeq
  <2>6. Head(R) = R[1]
    BY <2>1, <2>5, HeadTailProperties
  <2>7. pre # <<>> => SubSeq(R, 3, Len(R)) = body
    <3> SUFFICES ASSUME pre # <<>> PROVE SubSeq(R, 3, Len(R)) = body
      OBVIOUS
    <3>1. Len(pre) = 2
      BY <1>5
    <3>2. /\ 3 \in Len(pre) + 1 .. Len(pre) + Len(body)
          /\ Len(R) \in Len(pre) + 1 .. Len(pre) + Len(body)
          /\ 3 - Len(pre) = 1 /\ Len(R) - Len(pre) = Len(body)
      BY <1>3, <2>1, <3>1
    <3>3. SubSeq(R, 3, Len(R)) = SubSeq(body, 3 - Len(pre), Len(R) - Len(pre))
      <4> DEFINE n == Len(R)
      <4>1. n \in Len(pre) + 1 .. Len(pre) + Len(body)
        BY <3>2
      <4> HIDE DEF n
      <4>2. SubSeq(R, 3, n) = SubSeq(body, 3 - Len(pre), n - Len(pre))
        BY <1>4, <1>5, <3>2, <4>1, SubSeqOfConcat2 DEF Joint
      <4> QED
        BY <4>2 DEF n
    <3>4. SubSeq(body, 1, Len(body)) = body
      BY <1>4, SubSeqFull
    <3> QED
      BY <3>2, <3>3, <3>4, Zenon
  <2> QED
    BY <2>1, <2>2, <2>4, <2>5, <2>6, <2>7
<1> HIDE DEF R
<1>7. M = Joint(sgn, R)
  BY Zenon DEF Field, R, body, Z
<1>8. M \in Seq(Inks) /\ Len(M) = Len(sgn) + Len(R)
  <2>1. Joint(sgn, R) \in Seq(Inks) /\ Len(Joint(sgn, R)) = Len(sgn) + Len(R)
    <3>1. sgn \in Seq(Inks) /\ R \in Seq(Inks)
      BY <1>5, <1>6
    <3> QED
      BY <3>1, ConcatProperties DEF Joint
  <2> QED
    BY <1>7, <2>1, Zenon
<1> HIDE DEF M
<1>9. M # <<>> /\ Printer!Unsigned(M) = R /\ (Head(M) = "-" <=> sgn = <<"-">>)
  <2>1. CASE sgn = <<>>
    <3>1. M = R
      BY <1>6, <1>7, <2>1, JointEmpty, Zenon
    <3>2. Head(M) \in Numerals /\ sgn # <<"-">>
      BY <1>6, <2>1, <3>1, Singles, Zenon
    <3> QED
      BY <1>6, <3>1, <3>2, InksAre, Zenon DEF Printer!Unsigned
  <2>2. ASSUME NEW c \in {"-", "+"}, sgn = <<c>>
        PROVE  M # <<>> /\ Printer!Unsigned(M) = R /\ Head(M) = c
    <3>1. c \in Inks
      BY InksAre, Zenon
    <3>2. M # <<>> /\ Head(M) = c /\ Tail(M) = R
      BY <1>6, <1>7, <2>2, <3>1, InFront DEF Joint
    <3> QED
      BY <2>2, <3>2, Zenon DEF Printer!Unsigned
  <2>3. CASE sgn = <<"-">>
    BY <2>2, <2>3, Zenon
  <2>4. CASE sgn = <<"+">>
    BY <2>2, <2>4, InksAre, Singles, Zenon
  <2> QED
    BY <2>1, <2>3, <2>4, Zenon DEF Signs
<1>10. Len(M) = Len(sgn) + Len(pre) + z + Len(tmp)
  <2>1. Len(tmp) \in Nat
    BY LenProperties
  <2> QED
    BY <1>2, <1>5, <1>6, <1>8, <2>1
<1> QED
  BY <1>2, <1>3, <1>6, <1>8, <1>9, <1>10, Zenon DEF M, R, body, Z

\* A text of digits is one to the property.
LEMMA NumeralsAreDigits ==
    ASSUME NEW s \in Seq(Numerals), s # <<>>
    PROVE  Printer!AreDigits(s)
<1> DEFINE D == Printer!Digits(TRUE) \o Printer!Digits(FALSE)
<1>1. Numerals \subseteq Printer!ToSet(D)
  <2>1. \A k \in 1 .. 16 : Printer!Digits(TRUE)[k] \in Printer!ToSet(D)
    <3> TAKE k \in 1 .. 16
    <3>1. k \in DOMAIN D /\ D[k] = Printer!Digits(TRUE)[k]
      BY DEF Printer!Digits
    <3> HIDE DEF D
    <3> QED
      BY <3>1, Zenon DEF Printer!ToSet
  <2>2. \A k \in 1 .. 16 : Printer!Digits(FALSE)[k] \in Printer!ToSet(D)
    <3> TAKE k \in 1 .. 16
    <3>1. k + 16 \in DOMAIN D /\ D[k + 16] = Printer!Digits(FALSE)[k]
      BY DEF Printer!Digits
    <3> HIDE DEF D
    <3> QED
      BY <3>1, Zenon DEF Printer!ToSet
  <2> HIDE DEF D
  <2>3. ASSUME NEW c \in Numerals PROVE c \in Printer!ToSet(D)
    <3>1. CASE c \in {"0", "1", "2", "3", "4", "5", "6", "7"}
      <4>1. /\ Printer!Digits(TRUE)[1] = "0" /\ Printer!Digits(TRUE)[2] = "1"
            /\ Printer!Digits(TRUE)[3] = "2" /\ Printer!Digits(TRUE)[4] = "3"
            /\ Printer!Digits(TRUE)[5] = "4" /\ Printer!Digits(TRUE)[6] = "5"
            /\ Printer!Digits(TRUE)[7] = "6" /\ Printer!Digits(TRUE)[8] = "7"
        BY DEF Printer!Digits
      <4>2. /\ 1 \in 1 .. 16 /\ 2 \in 1 .. 16 /\ 3 \in 1 .. 16 /\ 4 \in 1 .. 16
            /\ 5 \in 1 .. 16 /\ 6 \in 1 .. 16 /\ 7 \in 1 .. 16 /\ 8 \in 1 .. 16
        OBVIOUS
      <4>3. /\ Printer!Digits(TRUE)[1] \in Printer!ToSet(D)
            /\ Printer!Digits(TRUE)[2] \in Printer!ToSet(D)
            /\ Printer!Digits(TRUE)[3] \in Printer!ToSet(D)
            /\ Printer!Digits(TRUE)[4] \in Printer!ToSet(D)
            /\ Printer!Digits(TRUE)[5] \in Printer!ToSet(D)
            /\ Printer!Digits(TRUE)[6] \in Printer!ToSet(D)
            /\ Printer!Digits(TRUE)[7] \in Printer!ToSet(D)
            /\ Printer!Digits(TRUE)[8] \in Printer!ToSet(D)
        BY <2>1, <4>2, Zenon
      <4> QED
        BY <3>1, <4>1, <4>3, Zenon
    <3>2. CASE c \in {"8", "9", "a", "b", "c", "d", "e", "f"}
      <4>1. /\ Printer!Digits(TRUE)[9] = "8" /\ Printer!Digits(TRUE)[10] = "9"
            /\ Printer!Digits(TRUE)[11] = "a" /\ Printer!Digits(TRUE)[12] = "b"
            /\ Printer!Digits(TRUE)[13] = "c" /\ Printer!Digits(TRUE)[14] = "d"
            /\ Printer!Digits(TRUE)[15] = "e" /\ Printer!Digits(TRUE)[16] = "f"
        BY DEF Printer!Digits
      <4>2. /\ 9 \in 1 .. 16 /\ 10 \in 1 .. 16 /\ 11 \in 1 .. 16 /\ 12 \in 1 .. 16
            /\ 13 \in 1 .. 16 /\ 14 \in 1 .. 16 /\ 15 \in 1 .. 16 /\ 16 \in 1 .. 16
        OBVIOUS
      <4>3. /\ Printer!Digits(TRUE)[9] \in Printer!ToSet(D)
            /\ Printer!Digits(TRUE)[10] \in Printer!ToSet(D)
            /\ Printer!Digits(TRUE)[11] \in Printer!ToSet(D)
            /\ Printer!Digits(TRUE)[12] \in Printer!ToSet(D)
            /\ Printer!Digits(TRUE)[13] \in Printer!ToSet(D)
            /\ Printer!Digits(TRUE)[14] \in Printer!ToSet(D)
            /\ Printer!Digits(TRUE)[15] \in Printer!ToSet(D)
            /\ Printer!Digits(TRUE)[16] \in Printer!ToSet(D)
        BY <2>1, <4>2, Zenon
      <4> QED
        BY <3>2, <4>1, <4>3, Zenon
    <3>3. CASE c \in {"A", "B", "C", "D", "E", "F"}
      <4>1. /\ Printer!Digits(FALSE)[11] = "A" /\ Printer!Digits(FALSE)[12] = "B"
            /\ Printer!Digits(FALSE)[13] = "C" /\ Printer!Digits(FALSE)[14] = "D"
            /\ Printer!Digits(FALSE)[15] = "E" /\ Printer!Digits(FALSE)[16] = "F"
        BY DEF Printer!Digits
      <4>2. /\ 11 \in 1 .. 16 /\ 12 \in 1 .. 16 /\ 13 \in 1 .. 16 /\ 14 \in 1 .. 16
            /\ 15 \in 1 .. 16 /\ 16 \in 1 .. 16
        OBVIOUS
      <4>3. /\ Printer!Digits(FALSE)[11] \in Printer!ToSet(D)
            /\ Printer!Digits(FALSE)[12] \in Printer!ToSet(D)
            /\ Printer!Digits(FALSE)[13] \in Printer!ToSet(D)
            /\ Printer!Digits(FALSE)[14] \in Printer!ToSet(D)
            /\ Printer!Digits(FALSE)[15] \in Printer!ToSet(D)
            /\ Printer!Digits(FALSE)[16] \in Printer!ToSet(D)
        BY <2>2, <4>2, Zenon
      <4> QED
        BY <3>3, <4>1, <4>3, Zenon
    <3> QED
      BY <3>1, <3>2, <3>3, Zenon DEF Numerals
  <2> QED
    BY <2>3
<1> HIDE DEF D
<1>2. Printer!ToSet(s) \subseteq Numerals
  <2> SUFFICES ASSUME NEW k \in DOMAIN s PROVE s[k] \in Numerals
    BY Zenon DEF Printer!ToSet
  <2> QED
    BY LenProperties, ElementOfSeq
<1> QED
  BY <1>1, <1>2, Zenon DEF Printer!AreDigits, D

\* A text between blanks, as it is read.
LEMMA TextReads ==
    ASSUME NEW T, Space \in T, NEW M \in Seq(T), NEW i \in Nat, NEW j \in Nat,
           Clear(M, Space),
           text = Joint(Joint(Printer!Times(Space, i), M), Printer!Times(Space, j))
    PROVE  /\ Len(text) = i + Len(M) + j
           /\ Printer!Core = M
           /\ M # <<>> => Printer!First = i + 1 /\ (j = 0 => Printer!Last(text) # Space)
<1> DEFINE s == Printer!Times(Space, i) \o M \o Printer!Times(Space, j)
<1>1. Printer!Most(i, 0) = i /\ Printer!Most(j, 0) = j /\ i \in Int /\ j \in Int
  BY DEF Printer!Most
<1>2. s \in Seq(T) /\ Framed(s, Space, M, i, i + Len(M) + j)
  <2>1. s \in Seq(T) /\ Framed(s, Space, M, Printer!Most(i, 0),
                               Printer!Most(i, 0) + Len(M) + Printer!Most(j, 0))
    BY <1>1, FrameIs, Zenon
  <2> QED
    BY <1>1, <2>1, Zenon
<1>3. text = s
  BY Zenon DEF Joint
<1> HIDE DEF s
<1>4. text \in Seq(T) /\ Framed(text, Space, M, i, i + Len(M) + j)
  BY <1>2, <1>3, Zenon
<1>5. /\ SubSeq(text, FirstOf(text, Space), LastOf(text, Space)) = M
      /\ M # <<>> => FirstOf(text, Space) = i + 1
  <2>1. Inside(T, text, Space, M, i, j)
    BY <1>4, Zenon DEF Inside
  <2> QED
    BY <2>1, CoreIs, Zenon
<1>6. Printer!Core = M /\ (M # <<>> => Printer!First = i + 1)
  BY <1>5, FieldIsRead, Zenon
<1>7. Len(text) = i + Len(M) + j
  BY <1>4, Zenon DEF Framed
<1>8. M # <<>> /\ j = 0 => Printer!Last(text) # Space
  <2> SUFFICES ASSUME M # <<>>, j = 0 PROVE Printer!Last(text) # Space
    OBVIOUS
  <2>1. Len(M) \in Nat \ {0}
    BY EmptySeq, Zenon
  <2>2. Len(M) \in 1 .. Len(M) /\ Len(text) = i + Len(M)
    BY <1>7, <2>1
  <2>3. text[Len(text)] = M[Len(M)]
    BY <1>4, <2>2, Zenon DEF Framed
  <2> QED
    BY <2>2, <2>3, Zenon DEF Printer!Last, Clear
<1> QED
  BY <1>6, <1>7, <1>8

\* What the property says of one directive, its argument and its text.
WidthAsked(d) == IF d.conv = "p" /\ d.width = -1 THEN LongBits \div 4 ELSE d.width
Spaced(d) == "SPACE" \in d.flags /\ Printer!Signed(d.conv)
BareOf(d) == Printer!Bare(Printer!Unsigned(Printer!Core), d)
Magnitude(v) == IF v < 0 THEN -v ELSE v
NumberRight(d, v) ==
    /\ Printer!AreDigits(BareOf(d))
    /\ Printer!ReadsAs(BareOf(d), Printer!Base(d.conv)) = Magnitude(v)
    /\ (Head(Printer!Core) = "-") = (v < 0)
    /\ Len(BareOf(d)) >= d.precision
    /\ Len(Printer!Core) < Len(text) /\ ~Spaced(d) => Len(text) <= WidthAsked(d) + 1
CutTo(d, a) == IF d.precision >= 0 /\ d.precision < Len(a) THEN SubSeq(a, 1, d.precision) ELSE a
PaddingRight(d) ==
    /\ Len(text) >= WidthAsked(d)
    /\ "LEFT" \in d.flags /\ ~Spaced(d) => Printer!First = 1 \/ Printer!Core = <<>>
    /\ "LEFT" \notin d.flags /\ Printer!Core # <<>> => Printer!Last(text) # Space
FieldRight(d, a) ==
    /\ PaddingRight(d)
    /\ Printer!Numeric(d) => NumberRight(d, Printer!Meant(d, a))
    /\ d.conv = "s" => Printer!Core = CutTo(d, a)

LEMMA PropertyIs ==
    (\A k \in DOMAIN directive : FieldRight(directive[k], arg[k])) => Printer!FieldReadsBack
BY Zenon DEF Printer!FieldReadsBack, FieldRight, NumberRight, PaddingRight, CutTo, BareOf,
             WidthAsked, Spaced, Magnitude, Space

LEMMA DirectivesAre ==
    ASSUME NEW d \in Directives
    PROVE  /\ d.conv \in {"c", "s", "d", "i", "u", "o", "x", "X", "p"}
           /\ d.width \in Int /\ d.precision \in Int /\ d.qualifier \in {"", "h", "l", "L"}
           /\ d.flags \subseteq {"ZEROPAD", "PLUS", "SPACE", "LEFT", "SPECIAL"}
           /\ LongBits \in 1 .. LongBits /\ IntBits \in 1 .. LongBits /\ ShortBits \in 1 .. LongBits
<1> DEFINE R == [conv : {"c", "s", "d", "i", "u", "o", "x", "X", "p"},
                 flags : SUBSET {"ZEROPAD", "PLUS", "SPACE", "LEFT", "SPECIAL"},
                 width : Int, precision : Int, qualifier : {"", "h", "l", "L"}]
<1>1. LongBits \in Nat /\ {IntBits, ShortBits} \subseteq 1 .. LongBits
  BY FieldsAssumption, Zenon
<1>2. d \in R
  <2>1. Directives \in SUBSET R
    BY FieldsAssumption, Zenon
  <2> QED
    BY <2>1, Zenon
<1>3. IntBits \in 1 .. LongBits /\ ShortBits \in 1 .. LongBits
  BY <1>1
<1>4. LongBits \in 1 .. LongBits
  <2>1. LongBits \in Nat /\ 1 <= LongBits
    BY <1>1, <1>3
  <2> QED
    BY <2>1
<1> QED
  BY <1>2, <1>3, <1>4

\* A number that number has laid out reads back.
LEMMA NumberReads ==
    ASSUME NEW d \in Directives, NEW word, NEW type, NEW v \in Int,
           text = Printer!number(word, Printer!Base(d.conv), WidthAsked(d), d.precision, type),
           NumOf(word, type) = Magnitude(v), Negative(word, type) <=> v < 0,
           "LEFT" \in type <=> "LEFT" \in d.flags,
           "SPECIAL" \in type <=> "SPECIAL" \in d.flags,
           "SIGN" \in type /\ "SPACE" \in type <=> Spaced(d)
    PROVE  PaddingRight(d) /\ NumberRight(d, v)
<1> DEFINE base == Printer!Base(d.conv)
           size == WidthAsked(d)
           tmp == TmpOf(word, base, type)
<1>1. base \in {8, 10, 16} /\ size \in Int /\ d.precision \in Int
  <2>1. base \in {8, 10, 16}
    BY Zenon DEF Printer!Base
  <2>2. size \in Int
    <3>1. LongBits \in Nat /\ d.width \in Int
      BY DirectivesAre, LongPowersDouble
    <3>2. LongBits \div 4 \in Int
      BY <3>1
    <3> QED
      BY <3>1, <3>2, Zenon DEF WidthAsked
  <2> QED
    BY <2>1, <2>2, DirectivesAre
<1>2. NumOf(word, type) \in Nat
  BY DEF Magnitude
<1> HIDE DEF base, size
<1>3. PICK i, z, j \in Nat, sgn \in Signs, pre \in Bases :
        NumberLaid(text, word, base, size, d.precision, type, i, z, j, sgn, pre)
  <2>1. text = Printer!number(word, base, size, d.precision, type)
    BY Zenon DEF base, size
  <2>2. IsLaid(Printer!number(word, base, size, d.precision, type), word, base, size,
               d.precision, type)
    BY <1>1, <1>2, NumberIsLaid
  <2>3. IsLaid(text, word, base, size, d.precision, type)
    BY <2>1, <2>2, Zenon
  <2> QED
    BY <2>3, Zenon DEF IsLaid
<1>4. /\ tmp \in Seq(Numerals) /\ Len(tmp) >= 1 /\ Len(tmp) \in Nat
      /\ Printer!ReadsAs(tmp, base) = NumOf(word, type)
  <2>1. ("SMALL" \in type) \in BOOLEAN
    OBVIOUS
  <2>2. /\ tmp \in Seq(Numerals) /\ Len(tmp) >= 1
        /\ Printer!ReadsAs(tmp, base) = NumOf(word, type)
    BY <1>1, <1>2, <2>1, DigitsRead, Zenon DEF TmpOf
  <2> QED
    BY <2>2, LenProperties
<1> HIDE DEF tmp
<1> DEFINE body == Joint(Printer!Times("0", z), tmp)
           R == Joint(pre, body)
           M == Field(sgn, pre, z, tmp)
<1>5. /\ M \in Seq(Inks) /\ M # <<>>
      /\ Len(M) = Len(sgn) + Len(pre) + z + Len(tmp)
      /\ Printer!Unsigned(M) = R
      /\ Head(M) = "-" <=> sgn = <<"-">>
      /\ pre = <<>> => R = body
      /\ pre # <<>> => SubSeq(R, 3, Len(R)) = body
      /\ body \in Seq(Numerals) /\ Len(body) = z + Len(tmp) /\ body # <<>>
  BY <1>4, FieldReads, Zenon
<1>6. Printer!ReadsAs(body, base) = NumOf(word, type)
  <2>1. z \in Int /\ base \in Nat /\ "0" \in Numerals
    BY <1>1, InksAre
  <2>2. Printer!ReadsAs(Printer!Times("0", z) \o tmp, base) = Printer!ReadsAs(tmp, base)
    BY <1>4, <2>1, LeadingZeros
  <2> QED
    BY <1>4, <2>2, Zenon DEF Joint
<1> HIDE DEF M, R, body
<1>7. /\ text = Joint(Joint(Printer!Times(Space, i), M), Printer!Times(Space, j))
      /\ z + Len(tmp) >= d.precision
      /\ sgn = <<"-">> <=> Negative(word, type)
      /\ pre # <<>> <=> "SPECIAL" \in type /\ base = 16
      /\ i + Len(M) + j >= size
      /\ ~Spaced(d) =>
             /\ i + j > 0 => i + Len(M) + j <= size + 1
             /\ "LEFT" \in type => i = 0
      /\ "LEFT" \notin type => j = 0
  BY <1>3, <1>5, Zenon DEF NumberLaid, M, tmp
<1>8. /\ Len(text) = i + Len(M) + j
      /\ Printer!Core = M
      /\ Printer!First = i + 1 /\ (j = 0 => Printer!Last(text) # Space)
  <2>1. M \in Seq(Marks) /\ Space \in Marks
    BY <1>5, InksAre, SeqMonotonic
  <2>2. Clear(M, Space)
    <3> SUFFICES ASSUME NEW k \in 1 .. Len(M) PROVE M[k] # Space
      BY DEF Clear
    <3>1. M[k] \in Inks
      BY <1>5, ElementOfSeq
    <3> QED
      BY <3>1, InksAre, Zenon
  <2> QED
    BY <1>5, <1>7, <2>1, <2>2, TextReads, Zenon
<1>9. Len(M) \in Nat
  BY <1>5, LenProperties
<1>10. PaddingRight(d)
  <2>1. Len(text) >= WidthAsked(d)
    BY <1>7, <1>8 DEF size
  <2>2. "LEFT" \in d.flags /\ ~Spaced(d) => Printer!First = 1
    BY <1>7, <1>8
  <2>3. "LEFT" \notin d.flags => Printer!Last(text) # Space
    BY <1>7, <1>8, Zenon
  <2> QED
    BY <2>1, <2>2, <2>3, Zenon DEF PaddingRight
<1>11. BareOf(d) = body
  <2>1. pre # <<>> <=> "SPECIAL" \in d.flags /\ Printer!Base(d.conv) = 16
    BY <1>7, Zenon DEF base
  <2> QED
    BY <1>5, <1>8, <2>1, Zenon DEF BareOf, Printer!Bare
<1>12. NumberRight(d, v)
  <2>1. Printer!AreDigits(BareOf(d))
    BY <1>5, <1>11, NumeralsAreDigits
  <2>2. Printer!ReadsAs(BareOf(d), Printer!Base(d.conv)) = Magnitude(v)
    BY <1>6, <1>11, Zenon DEF base
  <2>3. (Head(Printer!Core) = "-") = (v < 0)
    <3>1. Head(Printer!Core) = "-" <=> v < 0
      BY <1>5, <1>7, <1>8, Zenon
    <3> QED
      BY <3>1
  <2>4. Len(BareOf(d)) >= d.precision
    BY <1>5, <1>7, <1>11, Zenon
  <2>5. Len(Printer!Core) < Len(text) /\ ~Spaced(d) => Len(text) <= WidthAsked(d) + 1
    <3> SUFFICES ASSUME Len(M) < Len(text), ~Spaced(d) PROVE Len(text) <= WidthAsked(d) + 1
      BY <1>8, Zenon
    <3>1. i + j > 0
      BY <1>8, <1>9
    <3> QED
      BY <1>7, <1>8, <3>1, Zenon DEF size
  <2> QED
    BY <2>1, <2>2, <2>3, <2>4, <2>5, Zenon DEF NumberRight
<1> QED
  BY <1>10, <1>12

\* What Printed makes of the conversions of numbers.
LEMMA NumberPrinted ==
    ASSUME NEW d \in Directives, NEW a \in Args, Printer!Numeric(d), text = Printer!Printed(d, a)
    PROVE  PaddingRight(d) /\ NumberRight(d, Printer!Meant(d, a))
<1>1. /\ d.conv \in {"c", "s", "d", "i", "u", "o", "x", "X", "p"}
      /\ d.flags \subseteq {"ZEROPAD", "PLUS", "SPACE", "LEFT", "SPECIAL"}
      /\ LongBits \in 1 .. LongBits /\ IntBits \in 1 .. LongBits /\ ShortBits \in 1 .. LongBits
  BY DirectivesAre
<1>2. d.conv # "c" /\ d.conv # "s"
  BY DEF Printer!Numeric
<1>3. a \in Nat /\ a < Q[LongBits]
  BY FieldsAssumption, Zenon DEF Q
<1>4. "SIGN" \notin d.flags /\ "SMALL" \notin d.flags
  BY <1>1
<1>5. CASE d.conv = "p"
  <2> DEFINE type == IF d.width = -1 THEN d.flags \cup {"ZEROPAD"} ELSE d.flags
  <2>1. text = Printer!number(a, 16, WidthAsked(d), d.precision, type)
    <3>1. d.conv = "p" /\ d.conv # "c" /\ d.conv # "s"
      BY <1>2, <1>5
    <3> QED
      BY <3>1, Zenon DEF Printer!Printed, WidthAsked
  <2>2. Printer!Base(d.conv) = 16
    BY <1>5, Zenon DEF Printer!Base
  <2>3. "SIGN" \notin type
    BY <1>4
  <2>4. Printer!Signed(d.conv) = FALSE
    BY <1>5 DEF Printer!Signed
  <2>5. Printer!Meant(d, a) = a
    <3>1. Printer!Meant(d, a) = Printer!Low(a, LongBits, FALSE)
      BY <1>5, <2>4, Zenon DEF Printer!Meant
    <3>2. Printer!Low(a, LongBits, FALSE) = a % Q[LongBits]
      BY Zenon DEF Printer!Low, Q
    <3>3. Q[LongBits] \in Nat /\ Q[LongBits] >= 1
      <4>1. LongBits \in 0 .. LongBits /\ LongBits \in LongBits .. LongBits
        BY LongPowersDouble
      <4> QED
        BY <4>1, LongPowersGrow
    <3>4. a % Q[LongBits] = a
      BY <1>3, <3>3
    <3> QED
      BY <3>1, <3>2, <3>4
  <2>6. NumOf(a, type) = Magnitude(a) /\ (Negative(a, type) <=> a < 0)
    <3>1. ~Negative(a, type)
      BY <2>3, Zenon DEF Negative
    <3> QED
      BY <1>3, <3>1 DEF NumOf, Magnitude
  <2>7. /\ "LEFT" \in type <=> "LEFT" \in d.flags
        /\ "SPECIAL" \in type <=> "SPECIAL" \in d.flags
        /\ "SIGN" \in type /\ "SPACE" \in type <=> Spaced(d)
    BY <2>3, <2>4 DEF Spaced
  <2> HIDE DEF type
  <2>8. /\ a \in Int
        /\ text = Printer!number(a, Printer!Base(d.conv), WidthAsked(d), d.precision, type)
    BY <1>3, <2>1, <2>2
  <2> QED
    BY <2>5, <2>6, <2>7, <2>8, NumberReads, Zenon
<1>6. CASE d.conv # "p"
  <2> DEFINE signed == Printer!Signed(d.conv)
             bits == IF d.qualifier \in {"l", "L"} THEN LongBits
                     ELSE IF d.qualifier = "h" THEN ShortBits ELSE IntBits
             word == Printer!Fetch(a, d.qualifier, signed)
             type == d.flags \cup (IF d.conv = "x" THEN {"SMALL"} ELSE {})
                             \cup (IF signed THEN {"SIGN"} ELSE {})
             v == Printer!Meant(d, a)
  <2>1. text = Printer!number(word, Printer!Base(d.conv), WidthAsked(d), d.precision, type)
    BY <1>2, <1>6, Zenon DEF Printer!Printed, WidthAsked
  <2>2. word = Cut(a, bits, signed)
    <3>1. "h" \notin {"l", "L"}
      OBVIOUS
    <3>2. CASE d.qualifier \in {"l", "L"}
      BY <3>1, <3>2, Zenon DEF Printer!Fetch, Cut, Q
    <3>3. CASE d.qualifier = "h"
      BY <3>1, <3>3, Zenon DEF Printer!Fetch, Cut, Q
    <3>4. CASE d.qualifier \notin {"l", "L"} /\ d.qualifier # "h"
      BY <3>4, Zenon DEF Printer!Fetch, Cut, Q
    <3> QED
      BY <3>2, <3>3, <3>4, Zenon
  <2>3. v = Printer!Low(a, bits, signed)
    BY <1>6, Zenon DEF Printer!Meant
  <2>4. bits \in 1 .. LongBits /\ signed \in BOOLEAN
    BY <1>1 DEF Printer!Signed
  <2>5. "SIGN" \in type <=> signed
    BY <1>4
  <2>6. /\ "LEFT" \in type <=> "LEFT" \in d.flags
        /\ "SPECIAL" \in type <=> "SPECIAL" \in d.flags
        /\ "SIGN" \in type /\ "SPACE" \in type <=> Spaced(d)
    BY <2>5 DEF Spaced
  <2> HIDE DEF bits, word, type, v, signed
  <2>7. /\ word \in Nat /\ v \in Int
        /\ word >= Q[LongBits - 1] /\ signed <=> v < 0
        /\ v < 0 => Q[LongBits] - word = -v
        /\ v >= 0 => word = v
    BY <1>3, <2>2, <2>3, <2>4, WordIsValue, Zenon
  <2>8. Negative(word, type) <=> v < 0
    BY <2>5, <2>7, Zenon DEF Negative
  <2>9. NumOf(word, type) = Magnitude(v)
    <3>1. CASE v < 0
      BY <2>7, <2>8, <3>1, Zenon DEF NumOf, Magnitude
    <3>2. CASE ~(v < 0)
      <4>1. word = v
        BY <2>7, <3>2
      <4> QED
        BY <2>8, <3>2, <4>1, Zenon DEF NumOf, Magnitude
    <3> QED
      BY <3>1, <3>2
  <2>10. PaddingRight(d) /\ NumberRight(d, v)
    BY <2>1, <2>6, <2>7, <2>8, <2>9, NumberReads, Zenon
  <2> QED
    BY <2>10 DEF v
<1> QED
  BY <1>5, <1>6

\* What Padded makes of a text.
LEMMA PaddedReads ==
    ASSUME NEW d \in Directives, d.conv \in {"c", "s"}, NEW T, Space \in T, NEW s \in Seq(T),
           Clear(s, Space), text = Printer!Padded(s, d)
    PROVE  PaddingRight(d) /\ Printer!Core = s
<1> DEFINE n == Len(s)
           w == d.width - n
           m == Printer!Most(w, 0)
<1>1. d.width \in Int /\ n \in Nat
  BY DirectivesAre, LenProperties
<1> HIDE DEF n
<1>2. w \in Int /\ m \in Nat /\ m + n >= d.width
  BY <1>1 DEF Printer!Most
<1>3. Printer!Times(Space, m) = Printer!Times(Space, w)
  <2>1. Printer!Times(Space, m + 0) = Printer!Times(Space, w)
    BY <1>2, TimesAgain
  <2>2. m + 0 = m
    BY <1>2
  <2> QED
    BY <2>1, <2>2, Zenon
<1>4. Printer!Times(Space, 0) = <<>>
  <2>1. Printer!Most(0, 0) = 0
    BY DEF Printer!Most
  <2>2. Printer!Times(Space, 0) \in Seq(T) /\ Len(Printer!Times(Space, 0)) = 0
    BY <2>1, TimesAre
  <2> QED
    BY <2>2, EmptySeq
<1>5. Printer!Times(Space, w) \in Seq(T)
  BY <1>2, TimesAre
<1>6. WidthAsked(d) = d.width /\ ~Spaced(d)
  <2>1. d.conv # "p" /\ d.conv # "d" /\ d.conv # "i"
    OBVIOUS
  <2> QED
    BY <2>1, Zenon DEF WidthAsked, Spaced, Printer!Signed
<1> HIDE DEF w, m
<1>7. CASE "LEFT" \in d.flags
  <2>1. text = Joint(s, Printer!Times(Space, w))
    BY <1>7, Zenon DEF Printer!Padded, Joint, Space, w, n
  <2>2. text = Joint(Joint(Printer!Times(Space, 0), s), Printer!Times(Space, m))
    BY <1>3, <1>4, <2>1, JointEmpty, Zenon
  <2>3. /\ Len(text) = 0 + n + m /\ Printer!Core = s
        /\ s # <<>> => Printer!First = 0 + 1
    <3>1. 0 \in Nat
      OBVIOUS
    <3> QED
      BY <1>2, <2>2, <3>1, TextReads, Zenon DEF n
  <2>4. Len(text) >= WidthAsked(d)
    BY <1>1, <1>2, <1>6, <2>3
  <2> QED
    BY <1>7, <2>3, <2>4, 0 + 1 = 1, Zenon DEF PaddingRight
<1>8. CASE "LEFT" \notin d.flags
  <2>1. text = Joint(Printer!Times(Space, w), s)
    BY <1>8, Zenon DEF Printer!Padded, Joint, Space, w, n
  <2>2. text = Joint(Joint(Printer!Times(Space, m), s), Printer!Times(Space, 0))
    <3>1. text \in Seq(T)
      BY <1>5, <2>1, ConcatProperties DEF Joint
    <3>2. Joint(text, <<>>) = text
      BY <3>1, JointEmpty
    <3> QED
      BY <1>3, <1>4, <2>1, <3>2, Zenon
  <2>3. /\ Len(text) = m + n + 0 /\ Printer!Core = s
        /\ s # <<>> => Printer!Last(text) # Space
    <3>1. 0 \in Nat /\ 0 = 0
      OBVIOUS
    <3> QED
      BY <1>2, <2>2, <3>1, TextReads, Zenon DEF n
  <2>4. Len(text) >= WidthAsked(d)
    BY <1>1, <1>2, <1>6, <2>3
  <2> QED
    BY <1>8, <2>3, <2>4, Zenon DEF PaddingRight
<1> QED
  BY <1>7, <1>8

LEMMA TextPrinted ==
    ASSUME NEW d \in Directives, NEW a, a \in Printer!ArgsOf(d), ~Printer!Numeric(d),
           text = Printer!Printed(d, a)
    PROVE  FieldRight(d, a)
<1>1. d.conv = "c" \/ d.conv = "s"
  BY DEF Printer!Numeric
<1>2. d.conv \in {"c", "s"} /\ d.precision \in Int
  BY <1>1, DirectivesAre
<1>3. CASE d.conv = "c"
  <2> DEFINE T == {a, Space}
             s == <<a>>
  <2>1. a # Space
    <3>1. a \in {"A"}
      BY <1>3, Zenon DEF Printer!ArgsOf
    <3> QED
      BY <3>1, Zenon DEF Space
  <2>2. Space \in T /\ s \in Seq(T) /\ Len(s) = 1 /\ s[1] = a
    OBVIOUS
  <2>3. text = Printer!Padded(s, d)
    BY <1>3, Zenon DEF Printer!Printed
  <2> HIDE DEF s, T
  <2>4. Clear(s, Space)
    BY <2>1, <2>2 DEF Clear
  <2>5. PaddingRight(d)
    BY <1>2, <2>2, <2>3, <2>4, PaddedReads, Zenon
  <2>6. d.conv # "s"
    BY <1>3
  <2> QED
    BY <2>5, <2>6, Zenon DEF FieldRight
<1>4. CASE d.conv = "s"
  <2> DEFINE S == STRING
             T == S \cup {Space}
             n == Len(a)
             p == d.precision
             s == CutTo(d, a)
  <2>1. a \in Seq(S) /\ \A k \in DOMAIN a : a[k] # Space
    <3>1. a \in Strings
      <4>1. d.conv # "c"
        BY <1>4
      <4> QED
        BY <1>4, <4>1, Zenon DEF Printer!ArgsOf
    <3> QED
      BY <3>1, FieldsAssumption, Zenon DEF Space
  <2> HIDE DEF S
  <2>2. n \in Nat /\ DOMAIN a = 1 .. n /\ a \in Seq(T) /\ Space \in T
    BY <2>1, LenProperties, SeqMonotonic
  <2> HIDE DEF n, T
  <2>3. s = IF p >= 0 /\ p < n THEN SubSeq(a, 1, p) ELSE a
    BY Zenon DEF CutTo, n
  <2>4. text = Printer!Padded(s, d)
    <3>1. text = Printer!Padded(IF p < 0 THEN a ELSE SubSeq(a, 1, IF n > p THEN p ELSE n), d)
      <4>1. d.conv # "c"
        BY <1>4
      <4> QED
        BY <1>4, <4>1, Zenon DEF Printer!Printed, n
    <3>2. SubSeq(a, 1, n) = a
      BY <2>2, SubSeqFull DEF n
    <3>3. (IF p < 0 THEN a ELSE SubSeq(a, 1, IF n > p THEN p ELSE n)) = s
      <4>1. CASE p < 0
        BY <1>2, <2>3, <4>1
      <4>2. CASE p >= 0 /\ p < n
        <5>1. ~(p < 0) /\ n > p
          BY <1>2, <2>2, <4>2
        <5> QED
          BY <2>3, <4>2, <5>1, Zenon
      <4>3. CASE p >= 0 /\ ~(p < n)
        <5>1. ~(p < 0) /\ ~(n > p)
          BY <1>2, <2>2, <4>3
        <5> QED
          BY <2>3, <3>2, <4>3, <5>1, Zenon
      <4> QED
        BY <1>2, <4>1, <4>2, <4>3
    <3> QED
      BY <3>1, <3>3, Zenon
  <2>5. s \in Seq(T) /\ Clear(s, Space)
    <3>1. CASE p >= 0 /\ p < n
      <4> DEFINE u == SubSeq(a, 1, p)
      <4>0. \A k \in 1 .. p : k \in 1 .. n /\ a[k] \in T
        <5>1. \A k \in 1 .. p : k \in 1 .. n
          BY <1>2, <2>2, <3>1
        <5> QED
          BY <2>2, <5>1, ElementOfSeq DEF n
      <4>1. /\ u \in Seq(T) /\ Len(u) = IF 1 <= p THEN p - 1 + 1 ELSE 0
            /\ \A k \in 1 .. p - 1 + 1 : u[k] = a[1 + k - 1]
        BY <1>2, <4>0, SubSeqProperties
      <4> HIDE DEF u
      <4>2. Len(u) = p /\ \A k \in 1 .. p : u[k] = a[k]
        BY <1>2, <3>1, <4>1
      <4>3. Clear(u, Space)
        BY <2>1, <2>2, <4>0, <4>2, Zenon DEF Clear
      <4>4. s = u
        BY <2>3, <3>1, Zenon DEF u
      <4> QED
        BY <4>1, <4>3, <4>4
    <3>2. CASE ~(p >= 0 /\ p < n)
      <4>1. s = a
        BY <2>3, <3>2, Zenon
      <4>2. Clear(a, Space)
        BY <2>1, <2>2, Zenon DEF Clear, n
      <4> QED
        BY <2>2, <4>1, <4>2
    <3> QED
      BY <3>1, <3>2
  <2> HIDE DEF s
  <2>6. PaddingRight(d) /\ Printer!Core = s
    BY <1>2, <2>2, <2>4, <2>5, PaddedReads, Zenon
  <2>7. ~Printer!Numeric(d)
    OBVIOUS
  <2> QED
    BY <2>6, <2>7, Zenon DEF FieldRight, s
<1> QED
  BY <1>1, <1>3, <1>4

\* The text is what Printed makes of the directive.
PrinterIInv ==
    \/ directive = <<>>
    \/ \E d \in Directives : \E a \in Printer!ArgsOf(d) :
         directive = <<d>> /\ arg = <<a>> /\ text = Printer!Printed(d, a)

LEMMA PrintedRight == PrinterIInv => Printer!FieldReadsBack
<1> SUFFICES ASSUME PrinterIInv, NEW k \in DOMAIN directive PROVE FieldRight(directive[k], arg[k])
  BY PropertyIs, Zenon
<1>1. directive # <<>>
  <2> SUFFICES ASSUME directive = <<>> PROVE FALSE
    OBVIOUS
  <2> QED
    OBVIOUS
<1>2. PICK d \in Directives : \E a \in Printer!ArgsOf(d) :
         directive = <<d>> /\ arg = <<a>> /\ text = Printer!Printed(d, a)
  BY <1>1, Zenon DEF PrinterIInv
<1>3. PICK a \in Printer!ArgsOf(d) :
         directive = <<d>> /\ arg = <<a>> /\ text = Printer!Printed(d, a)
  BY <1>2, Zenon
<1>4. directive[k] = d /\ arg[k] = a
  BY <1>3
<1>5. FieldRight(d, a)
  <2>1. CASE Printer!Numeric(d)
    <3>1. d.conv # "c" /\ d.conv # "s"
      BY <2>1 DEF Printer!Numeric
    <3>2. a \in Args
      BY <1>3, <3>1, Zenon DEF Printer!ArgsOf
    <3> QED
      BY <1>3, <2>1, <3>1, <3>2, NumberPrinted, Zenon DEF FieldRight
  <2>2. CASE ~Printer!Numeric(d)
    BY <1>3, <2>2, TextPrinted, Zenon
  <2> QED
    BY <2>1, <2>2
<1> QED
  BY <1>4, <1>5

LEMMA PrinterStep == PrinterIInv /\ [Printer!Next]_printer => PrinterIInv'
<1> SUFFICES ASSUME PrinterIInv, [Printer!Next]_printer PROVE PrinterIInv'
  OBVIOUS
<1>1. CASE UNCHANGED printer
  BY <1>1, Zenon DEF PrinterIInv, printer
<1>2. CASE Printer!myprintf
  BY <1>2, Zenon DEF PrinterIInv, Printer!myprintf
<1> QED
  BY <1>1, <1>2 DEF Printer!Next

LEMMA PrinterSteps ==
    (unit = "printer" => PrinterIInv) /\ [NextRoutines]_units
      => (unit = "printer" => PrinterIInv)'
<1> SUFFICES ASSUME unit = "printer" => PrinterIInv, [NextRoutines]_units,
                    unit' = "printer"
             PROVE  PrinterIInv'
  OBVIOUS
<1>1. unit' = unit /\ [Printer!Next]_printer
  BY DEF NextRoutines, MakeSymbols, MapPages, SetPmp, FillMemory, PrintField, RouteTraps,
         TraceCalls, units
<1> QED
  BY <1>1, PrinterStep

\* printk.c: for every width of long, int and short, a printed number reads
\* back as the value that its directive selects, whatever the flags, the
\* width and the precision are; a field is as wide as asked, a string is cut
\* to its precision only.
THEOREM FieldsReadBack == SpecRoutines => []FieldReadsBack
<1>1. InitRoutines => (unit = "printer" => PrinterIInv)
  BY DEF InitRoutines, PrinterIInv, Printer!Init
<1>2. (unit = "printer" => PrinterIInv) => FieldReadsBack
  BY PrintedRight DEF FieldReadsBack
<1>3. (unit = "printer" => PrinterIInv) /\ [NextRoutines]_units
        => (unit = "printer" => PrinterIInv)'
  BY PrinterSteps
<1> QED
  BY <1>1, <1>2, <1>3, PTL DEF SpecRoutines

-----------------------------------------------------------------------------
(* The page tables.                                                        *)
\* What the assumptions say of the numbers.
LEMMA TableNumbers ==
    /\ PAGE_SIZE \in Nat /\ PAGE_SIZE >= 1 /\ PTRS \in Nat /\ PTRS >= 2
    /\ PgDir \in Nat /\ TextBoot \in Nat /\ DdrEnd \in Nat /\ TextBoot < DdrEnd
    /\ PgDir \in TextBoot .. DdrEnd - 1 /\ PgDir + 1 \in TextBoot .. DdrEnd - 1
    /\ Tables!PMD_SIZE \in Nat /\ Tables!PMD_SIZE >= 1
    /\ Tables!PGDIR_SIZE \in Nat /\ Tables!PGDIR_SIZE >= 1
    /\ Tables!VaEnd \in Nat
<1>1. /\ PAGE_SIZE \in Nat /\ PAGE_SIZE >= 1 /\ PTRS \in Nat /\ PTRS >= 2
      /\ PgDir \in Nat /\ TextBoot \in Nat /\ DdrEnd \in Nat
      /\ PgDir \in TextBoot .. DdrEnd - 1 /\ PgDir + 1 \in TextBoot .. DdrEnd - 1
  BY TablesAssumption
<1>2. \A a, b \in Nat : a >= 1 /\ b >= 1 => a * b \in Nat /\ a * b >= 1
  OBVIOUS
<1>3. Tables!PMD_SIZE \in Nat /\ Tables!PMD_SIZE >= 1
  BY <1>1, <1>2 DEF Tables!PMD_SIZE
<1>4. Tables!PGDIR_SIZE \in Nat /\ Tables!PGDIR_SIZE >= 1
  BY <1>1, <1>2, <1>3 DEF Tables!PGDIR_SIZE
<1>5. Tables!VaEnd \in Nat
  BY <1>1, <1>2, <1>4 DEF Tables!VaEnd
<1> QED
  BY <1>1, <1>3, <1>4, <1>5

\* Dividing by a product is dividing twice.
Nests(a, p, k) ==
    /\ a \div (p * k) = (a \div p) \div k
    /\ a % (p * k) = ((a \div p) % k) * p + (a % p)

LEMMA DividedTwice ==
    ASSUME NEW a \in Nat, NEW p \in Nat, NEW k \in Nat, p >= 1, k >= 1
    PROVE  Nests(a, p, k)
<1>0. a \in Int /\ p \in Int /\ k \in Int
  OBVIOUS
<1>1. PICK q \in Int, r \in Int : Parts(a, p, q, r) /\ a \div p = q /\ a % p = r
  BY <1>0, Divided, Zenon
<1>2. PICK s \in Int, t \in Int : Parts(q, k, s, t) /\ q \div k = s /\ q % k = t
  BY <1>0, Divided, Zenon
<1>3. a = q * p + r /\ 0 <= r /\ r < p /\ q = s * k + t /\ 0 <= t /\ t < k
  BY <1>1, <1>2 DEF Parts
<1>4. t * p \in Int /\ p * k \in Int /\ s * (p * k) \in Int /\ s * k \in Int
  OBVIOUS
<1>5. q * p = s * (p * k) + t * p
  <2>1. (s * k + t) * p = (s * k) * p + t * p
    BY <1>4
  <2>2. (s * k) * p = s * (p * k)
    OBVIOUS
  <2> QED
    BY <1>3, <2>1, <2>2
<1>6. t * p >= 0 /\ t * p <= p * k - p
  <2>1. \A x, y \in Nat : x * y >= 0
    OBVIOUS
  <2>2. t * p >= 0
    BY <1>3, <2>1
  <2>3. (k - 1 - t) * p >= 0
    <3>1. k - 1 - t \in Nat
      BY <1>3
    <3> QED
      BY <2>1, <3>1
  <2>4. (k - 1 - t) * p = p * k - p - t * p
    OBVIOUS
  <2> QED
    BY <2>2, <2>3, <2>4, <1>4
<1>7. Parts(a, p * k, s, t * p + r)
  BY <1>3, <1>4, <1>5, <1>6 DEF Parts
<1>8. p * k >= 1
  OBVIOUS
<1>9. t * p + r \in Int
  BY <1>4
<1>10. a \div (p * k) = s /\ a % (p * k) = t * p + r
  <2> DEFINE d == p * k
             u == t * p + r
  <2>1. d \in Int /\ d >= 1 /\ u \in Int /\ Parts(a, d, s, u)
    BY <1>4, <1>7, <1>8, <1>9
  <2> HIDE DEF d, u
  <2>2. a \div d = s /\ a % d = u
    BY <2>1, Quotient
  <2> QED
    BY <2>2 DEF d, u
<1> QED
  BY <1>1, <1>2, <1>10, Zenon DEF Nests

\* Where a quotient lies, by the number that is divided.
LEMMA DividedBelow ==
    ASSUME NEW a \in Nat, NEW p \in Nat, NEW n \in Int, p >= 1
    PROVE  (a \div p < n <=> a < n * p) /\ (a \div p >= n <=> a >= n * p)
<1>1. PICK q \in Int, r \in Int : Parts(a, p, q, r) /\ a \div p = q /\ a % p = r
  <2>1. a \in Int /\ p \in Int
    OBVIOUS
  <2> QED
    BY <2>1, Divided, Zenon
<1>2. a = q * p + r /\ 0 <= r /\ r < p
  BY <1>1 DEF Parts
<1>3. n * p \in Int /\ q * p \in Int
  OBVIOUS
<1>4. CASE q < n
  <2>1. (n - 1 - q) * p >= 0
    <3>1. n - 1 - q \in Nat
      BY <1>4
    <3>2. \A x, y \in Nat : x * y >= 0
      OBVIOUS
    <3> QED
      BY <3>1, <3>2
  <2>2. (n - 1 - q) * p = n * p - p - q * p
    OBVIOUS
  <2>3. a < n * p
    BY <1>2, <1>3, <2>1, <2>2
  <2> QED
    BY <1>1, <1>3, <1>4, <2>3
<1>5. CASE q >= n
  <2>1. (q - n) * p >= 0
    <3>1. q - n \in Nat
      BY <1>5
    <3>2. \A x, y \in Nat : x * y >= 0
      OBVIOUS
    <3> QED
      BY <3>1, <3>2
  <2>2. (q - n) * p = q * p - n * p
    OBVIOUS
  <2>3. a >= n * p
    BY <1>2, <1>3, <2>1, <2>2
  <2> QED
    BY <1>1, <1>3, <1>5, <2>3
<1> QED
  BY <1>4, <1>5

LEMMA DividedNext ==
    ASSUME NEW a \in Nat, NEW p \in Nat, p >= 1
    PROVE  (a + p) \div p = a \div p + 1 /\ (a * p) \div p = a /\ a * p \in Nat
<1>1. PICK q \in Int, r \in Int : Parts(a, p, q, r) /\ a \div p = q /\ a % p = r
  <2>1. a \in Int /\ p \in Int
    OBVIOUS
  <2> QED
    BY <2>1, Divided, Zenon
<1>2. Parts(a + p, p, q + 1, r)
  <2>1. (q + 1) * p = q * p + p /\ q * p \in Int
    OBVIOUS
  <2> QED
    BY <1>1, <2>1 DEF Parts
<1>3. (a + p) \div p = q + 1
  BY <1>2, Quotient
<1>4. a * p \in Nat
  OBVIOUS
<1>5. (a * p) \div p = a
  <2> DEFINE b == a * p
  <2>1. b \in Int /\ Parts(b, p, a, 0)
    BY <1>4 DEF Parts
  <2> HIDE DEF b
  <2>2. b \div p = a
    BY <2>1, Quotient
  <2> QED
    BY <2>2 DEF b
<1> QED
  BY <1>1, <1>3, <1>4, <1>5

\* The pieces of a range: cut at the multiples of the span inside it.
Cuts(a, b, s) == (b - 1) \div s - a \div s + 1
Slice(a, b, s, k) == [addr |-> IF k = 1 THEN a ELSE (a \div s + (k - 1)) * s,
                    next |-> IF k = Cuts(a, b, s) THEN b ELSE (a \div s + k) * s]
Pieced(a, b, s) == [k \in 1 .. Cuts(a, b, s) |-> Slice(a, b, s, k)]

LEMMA EndIs ==
    ASSUME NEW a \in Nat, NEW b \in Nat, a < b, NEW s \in Nat, s >= 1
    PROVE  /\ Cuts(a, b, s) \in Nat /\ Cuts(a, b, s) >= 1
           /\ Cuts(a, b, s) = 1 => Tables!AddrEnd(a, b, s) = b
           /\ Cuts(a, b, s) > 1 => /\ Tables!AddrEnd(a, b, s) = (a \div s + 1) * s
                                   /\ (a \div s + 1) * s \in a + 1 .. b - 1
                                   /\ ((a \div s + 1) * s) \div s = a \div s + 1
<1> DEFINE d == a \div s
           e == (b - 1) \div s
           c == (d + 1) * s
<1>1. d \in Nat /\ e \in Nat /\ b - 1 \in Nat /\ d + 1 \in Nat
  OBVIOUS
<1>2. c \in Nat /\ c \div s = d + 1
  BY <1>1, DividedNext
<1>3. a < c
  BY <1>1, DividedBelow
<1>4. d <= e
  <2>1. ~(b - 1 < d * s)
    <3>1. a >= d * s
      BY <1>1, DividedBelow
    <3>2. d * s \in Nat
      BY <1>1, DividedNext
    <3> QED
      BY <3>1, <3>2
  <2>2. d \in Int
    BY <1>1
  <2>3. e < d <=> b - 1 < d * s
    BY <1>1, <2>2, DividedBelow
  <2> QED
    BY <1>1, <2>1, <2>3
<1>5. d + 1 \in Int /\ (e < d + 1 <=> b - 1 < c)
  BY <1>1, DividedBelow
<1>6. Tables!AddrEnd(a, b, s) = IF c - 1 < b - 1 THEN c ELSE b
  <2>1. Tables!AlignDown(a + s, s) = c
    BY DividedNext DEF Tables!AlignDown
  <2> QED
    BY <2>1, Zenon DEF Tables!AddrEnd
<1>7. Cuts(a, b, s) = e - d + 1
  BY DEF Cuts
<1> HIDE DEF c, d, e
<1>8. Cuts(a, b, s) \in Nat /\ Cuts(a, b, s) >= 1
  BY <1>1, <1>4, <1>7
<1>9. Cuts(a, b, s) = 1 => Tables!AddrEnd(a, b, s) = b
  BY <1>1, <1>2, <1>4, <1>5, <1>6, <1>7
<1>10. Cuts(a, b, s) > 1 => Tables!AddrEnd(a, b, s) = c /\ c \in a + 1 .. b - 1
  BY <1>1, <1>2, <1>3, <1>4, <1>5, <1>6, <1>7
<1> QED
  BY <1>2, <1>8, <1>9, <1>10 DEF c, d

\* The first piece and those of what it leaves.
LEMMA PiecedAgain ==
    ASSUME NEW a \in Nat, NEW b \in Nat, a < b, NEW s \in Nat, s >= 1
    PROVE  LET next == Tables!AddrEnd(a, b, s)
           IN  Pieced(a, b, s) = <<[addr |-> a, next |-> next]>>
                                   \o (IF next < b THEN Pieced(next, b, s) ELSE <<>>)
<1> DEFINE n == Cuts(a, b, s)
           next == Tables!AddrEnd(a, b, s)
           first == [addr |-> a, next |-> next]
<1>0. n \in Nat /\ n >= 1
  BY EndIs
<1>1. CASE n = 1
  <2>1. next = b
    BY <1>1, EndIs
  <2>2. \A k \in 1 .. n : k = 1
    BY <1>1
  <2>3. Pieced(a, b, s) = <<first>>
    <3>1. Slice(a, b, s, 1) = first
      BY <1>1, <2>1 DEF Slice
    <3>2. Pieced(a, b, s) = [k \in 1 .. 1 |-> first]
      BY <1>1, <2>2, <3>1, Zenon DEF Pieced
    <3> HIDE DEF first
    <3> QED
      BY <3>2
  <2>4. Pieced(a, b, s) = <<first>> \o <<>>
    <3> HIDE DEF first
    <3> QED
      BY <2>3
  <2> QED
    BY <2>1, <2>4
<1>2. CASE n # 1
  <2>0. n > 1
    BY <1>0, <1>2
  <2>1. /\ next = (a \div s + 1) * s /\ next \in a + 1 .. b - 1 /\ next \div s = a \div s + 1
    <3>1. /\ next = (a \div s + 1) * s /\ (a \div s + 1) * s \in a + 1 .. b - 1
          /\ ((a \div s + 1) * s) \div s = a \div s + 1
      BY <2>0, EndIs, Zenon
    <3> QED
      BY <3>1, Zenon
  <2>2. next \in Nat /\ next < b /\ a \div s \in Nat
    BY <2>1
  <2>3. Cuts(next, b, s) = n - 1
    <3>1. (b - 1) \div s \in Int
      OBVIOUS
    <3> QED
      BY <2>1, <2>2, <3>1 DEF Cuts
  <2> DEFINE rest == Pieced(next, b, s)
  <2>4. rest = [k \in 1 .. n - 1 |-> Slice(next, b, s, k)]
    BY <2>3, Zenon DEF Pieced
  <2>5. <<first>> \o rest = [k \in 1 .. n |-> IF k = 1 THEN first ELSE rest[k - 1]]
    <3>1. Len(rest) = n - 1
      BY <1>0, <2>0, <2>4
    <3>2. rest \in Seq({Slice(next, b, s, k) : k \in 1 .. n - 1})
      BY <1>0, <2>0, <2>4
    <3> HIDE DEF rest, first, n
    <3> QED
      BY <3>1, <3>2, <1>0
  <2>6. ASSUME NEW k \in 1 .. n
        PROVE  Slice(a, b, s, k) = IF k = 1 THEN first ELSE rest[k - 1]
    <3> HIDE DEF n
    <3>1. CASE k = 1
      BY <2>0, <2>1, <3>1 DEF Slice, n
    <3>2. CASE k # 1
      <4>1. k - 1 \in 1 .. n - 1
        BY <1>0, <3>2
      <4>2. rest[k - 1] = Slice(next, b, s, k - 1)
        BY <2>4, <4>1
      <4> DEFINE d == a \div s
      <4>3. /\ d + 1 + (k - 1) = d + k /\ d + 1 + ((k - 1) - 1) = d + (k - 1)
        BY <2>2
      <4>4. k - 1 = n - 1 <=> k = n
        BY <1>0
      <4>5. Slice(next, b, s, k - 1)
              = [addr |-> IF k - 1 = 1 THEN next ELSE (d + (k - 1)) * s,
                 next |-> IF k = n THEN b ELSE (d + k) * s]
        BY <2>1, <2>3, <4>3, <4>4 DEF Slice
      <4>6. k - 1 = 1 => (d + (k - 1)) * s = next
        BY <2>1
      <4>7. Slice(next, b, s, k - 1)
              = [addr |-> (d + (k - 1)) * s, next |-> IF k = n THEN b ELSE (d + k) * s]
        <5> HIDE DEF d, next
        <5> QED
          BY <4>5, <4>6, Zenon
      <4>8. Slice(a, b, s, k)
              = [addr |-> (d + (k - 1)) * s, next |-> IF k = n THEN b ELSE (d + k) * s]
        BY <3>2, Zenon DEF Slice, n
      <4> QED
        BY <3>2, <4>2, <4>7, <4>8
    <3> QED
      BY <3>1, <3>2
  <2>7. Pieced(a, b, s) = [k \in 1 .. n |-> IF k = 1 THEN first ELSE rest[k - 1]]
    <3>1. Pieced(a, b, s) = [k \in 1 .. n |-> Slice(a, b, s, k)]
      BY Zenon DEF Pieced
    <3> HIDE DEF rest, first, n
    <3> QED
      BY <2>6, <3>1, Zenon
  <2> HIDE DEF rest, first
  <2>8. Pieced(a, b, s) = <<first>> \o rest
    BY <2>5, <2>7, Zenon
  <2> QED
    BY <2>2, <2>8 DEF rest, first
<1> QED
  BY <1>1, <1>2

LEMMA PiecesAre ==
    ASSUME NEW a \in Nat, NEW b \in Nat, a < b, NEW s \in Nat, s >= 1
    PROVE  Tables!Pieces(a, b, s) = Pieced(a, b, s)
<1> DEFINE First(x) == <<[addr |-> x, next |-> Tables!AddrEnd(x, b, s)]>>
           IsFrom(f) == f = [x \in a .. b - 1 |->
                               First(x) \o (IF Tables!AddrEnd(x, b, s) < b
                                            THEN f[Tables!AddrEnd(x, b, s)] ELSE <<>>)]
           u == CHOOSE f : IsFrom(f)
           g == [x \in a .. b - 1 |-> Pieced(x, b, s)]
<1>1. Tables!Pieces(a, b, s) = u[a]
  BY Zenon DEF Tables!Pieces
<1>2. ASSUME NEW x \in a .. b - 1
      PROVE  /\ x \in Nat /\ x < b
             /\ Tables!AddrEnd(x, b, s) < b => Tables!AddrEnd(x, b, s) \in x + 1 .. b - 1
             /\ Pieced(x, b, s) = First(x) \o (IF Tables!AddrEnd(x, b, s) < b
                                    THEN Pieced(Tables!AddrEnd(x, b, s), b, s) ELSE <<>>)
  <2>1. x \in Nat /\ x < b
    OBVIOUS
  <2>2. Cuts(x, b, s) \in Nat /\ Cuts(x, b, s) >= 1
    BY <2>1, EndIs
  <2>3. Tables!AddrEnd(x, b, s) < b => Tables!AddrEnd(x, b, s) \in x + 1 .. b - 1
    <3>1. CASE Cuts(x, b, s) = 1
      <4>1. Tables!AddrEnd(x, b, s) = b
        BY <2>1, <3>1, EndIs
      <4> QED
        BY <4>1
    <3>2. CASE Cuts(x, b, s) > 1
      <4>1. /\ Tables!AddrEnd(x, b, s) = (x \div s + 1) * s
            /\ (x \div s + 1) * s \in x + 1 .. b - 1
        BY <2>1, <3>2, EndIs, Zenon
      <4> QED
        BY <4>1, Zenon
    <3> QED
      BY <2>2, <3>1, <3>2
  <2> QED
    BY <2>1, <2>3, PiecedAgain, Zenon
<1>3. IsFrom(g)
  <2>1. ASSUME NEW x \in a .. b - 1
        PROVE  g[x] = First(x) \o (IF Tables!AddrEnd(x, b, s) < b
                                   THEN g[Tables!AddrEnd(x, b, s)] ELSE <<>>)
    <3>1. Tables!AddrEnd(x, b, s) < b => Tables!AddrEnd(x, b, s) \in a .. b - 1
      <4>1. Tables!AddrEnd(x, b, s) < b => Tables!AddrEnd(x, b, s) \in x + 1 .. b - 1
        BY <1>2, Zenon
      <4> QED
        BY <4>1
    <3>2. Tables!AddrEnd(x, b, s) < b
            => g[Tables!AddrEnd(x, b, s)] = Pieced(Tables!AddrEnd(x, b, s), b, s)
      BY <3>1
    <3>3. g[x] = Pieced(x, b, s)
      OBVIOUS
    <3> HIDE DEF g, First
    <3> QED
      BY <1>2, <3>2, <3>3, Zenon
  <2>2. g = [x \in a .. b - 1 |-> g[x]]
    OBVIOUS
  <2> HIDE DEF g, First
  <2> QED
    BY <2>1, <2>2, Zenon
<1>4. IsFrom(u)
  <2> HIDE DEF g, IsFrom
  <2> QED
    BY <1>3, Zenon
<1> HIDE DEF u
<1>5. \A x \in a .. b - 1 : u[x] = First(x) \o (IF Tables!AddrEnd(x, b, s) < b
                                   THEN u[Tables!AddrEnd(x, b, s)] ELSE <<>>)
  BY <1>4, Zenon
<1> DEFINE Bad == {k \in Nat : k \in 1 .. b - a /\ u[b - k] # Pieced(b - k, b, s)}
<1>6. ASSUME Bad # {} PROVE FALSE
  <2>1. PICK k \in Bad : \A l \in Bad : k <= l
    <3>1. Bad \in SUBSET Nat
      OBVIOUS
    <3> HIDE DEF Bad
    <3> QED
      BY <1>6, <3>1, LeastNat
  <2> DEFINE x == b - k
             y == Tables!AddrEnd(x, b, s)
  <2>2. x \in a .. b - 1
    BY <2>1
  <2>3. y < b => y \in x + 1 .. b - 1
    BY <1>2, <2>2
  <2>4. y < b => u[y] = Pieced(y, b, s)
    <3> HIDE DEF y
    <3>1. SUFFICES ASSUME y < b PROVE u[y] = Pieced(y, b, s)
      OBVIOUS
    <3>2. y \in x + 1 .. b - 1
      BY <2>3, <3>1
    <3>3. b - y \in 1 .. b - a /\ ~(k <= b - y) /\ b - (b - y) = y
      BY <2>1, <2>2, <3>2
    <3>4. b - y \notin Bad
      BY <2>1, <3>3
    <3> QED
      BY <3>3, <3>4
  <2>5. u[x] = Pieced(x, b, s)
    <3> HIDE DEF x, First
    <3>1. u[x] = First(x) \o (IF y < b THEN u[y] ELSE <<>>)
      BY <1>5, <2>2, Zenon
    <3>2. Pieced(x, b, s) = First(x) \o (IF y < b THEN Pieced(y, b, s) ELSE <<>>)
      BY <1>2, <2>2, Zenon
    <3> HIDE DEF y
    <3> QED
      BY <2>4, <3>1, <3>2, Zenon
  <2> QED
    BY <2>1, <2>5
<1>7. u[a] = Pieced(a, b, s)
  <2>1. b - a \in 1 .. b - a /\ b - (b - a) = a /\ b - a \in Nat
    OBVIOUS
  <2> QED
    BY <1>6, <2>1
<1> QED
  BY <1>1, <1>7

\* The entries of the three levels by their numbers: the entry w of the last
\* level is that of the page w of the address space, under the entry w \div PTRS.
Pgds == 0 .. PTRS - 1
Pmds == {j \in Nat : j \div PTRS \in Pgds}
Ptes == {w \in Nat : w \div PTRS \in Pmds}
Ddr == DOMAIN Tables!SectionMapping
Slot1(i) == Tables!At(PgDir, i)
Slot2(f, j) == Tables!At(f[Slot1(j \div PTRS)].page, j % PTRS)
Slot3(f, w) == Tables!At(f[Slot2(f, w \div PTRS)].page, w % PTRS)
Has1(f, i) == f[Slot1(i)] # Tables!None
Has2(f, j) ==
  Has1(f, j \div PTRS) /\ f[Slot2(f, j)] # Tables!None /\ ~Tables!Leaf(f[Slot2(f, j)])

\* The leaf that the walk for the page w finds, with its own page of a section.
Hit(f, w) ==
  LET pmd == f[Slot2(f, w \div PTRS)]
  IN  IF ~Has1(f, (w \div PTRS) \div PTRS) \/ pmd = Tables!None THEN Tables!None
      ELSE IF Tables!Leaf(pmd) THEN [page |-> pmd.page + (w % PTRS), prot |-> pmd.prot]
      ELSE f[Slot3(f, w)]

\* Pages that hold tables, and the entries that boot.S makes.
Pool(n) == {PgDir + 1} \cup {FreePages[k] : k \in 1 .. n}
IsTable(e, n) == e.prot = Tables!PAGE_TABLE /\ e.page \in Pool(n)
InRange(j) == j \in Tables!BootStart \div Tables!PMD_SIZE .. Tables!BootEnd \div Tables!PMD_SIZE - 1
InBoot(j) == Tables!Kernel /\ InRange(j)

\* The memory is a tree: every entry is empty, leads to a table of its own in
\* the pool or is a leaf, a section only where boot.S puts one for the kernel; the rest of
\* memory is as it was.
Typed(f, n) ==
    /\ n \in 0 .. Len(FreePages) /\ DOMAIN f = Ddr
    /\ \A i \in Pgds : Has1(f, i) => IsTable(f[Slot1(i)], n)
    /\ \A j \in Pmds :
         Has1(f, j \div PTRS) =>
           \/ f[Slot2(f, j)] = Tables!None
           \/ IsTable(f[Slot2(f, j)], n)
           \/ Tables!Leaf(f[Slot2(f, j)]) /\ f[Slot2(f, j)].page \in Nat /\ InBoot(j)
    /\ \A w \in Ptes : Has2(f, w \div PTRS) =>
                         f[Slot3(f, w)] = Tables!None \/ Tables!Leaf(f[Slot3(f, w)])
OwnTables(f) ==
    /\ \A i, k \in Pgds : Has1(f, i) /\ Has1(f, k) /\ f[Slot1(i)].page = f[Slot1(k)].page
                            => i = k
    /\ \A j, k \in Pmds : Has2(f, j) /\ Has2(f, k) /\ f[Slot2(f, j)].page = f[Slot2(f, k)].page
                            => j = k
    /\ \A i \in Pgds, j \in Pmds : Has1(f, i) /\ Has2(f, j) => f[Slot1(i)].page # f[Slot2(f, j)].page
RestKept(f, n) ==
    \A a \in Ddr : a \div PTRS \notin {PgDir} \cup Pool(n) => f[a] = Tables!SectionMapping[a]
Tree(f, n) == Typed(f, n) /\ OwnTables(f) /\ RestKept(f, n)

LEMMA EntryKinds ==
    ASSUME NEW e, NEW n
    PROVE  /\ IsTable(e, n) => e # Tables!None /\ ~Tables!Leaf(e)
           /\ Tables!Leaf(e) => e # Tables!None
<1>1. Tables!None.prot = {}
  BY DEF Tables!None
<1>2. {"V"} # {} /\ {"V"} \cap {"R", "W", "X"} = {}
  OBVIOUS
<1> QED
  BY <1>1, <1>2 DEF IsTable, Tables!Leaf, Tables!PAGE_TABLE

\* Where the entries of a table lie.
LEMMA AtIs ==
    ASSUME NEW p \in Nat, NEW x \in Pgds
    PROVE  /\ Tables!At(p, x) \in Nat
           /\ Tables!At(p, x) \div PTRS = p /\ Tables!At(p, x) % PTRS = x
<1>1. PTRS \in Nat /\ PTRS >= 1 /\ PTRS \in Int
  BY TableNumbers
<1> DEFINE a == p * PTRS + x
<1>2. p * PTRS \in Nat
  BY <1>1
<1>3. a \in Nat /\ a \in Int /\ Parts(a, PTRS, p, x)
  BY <1>1, <1>2 DEF Parts, Pgds
<1> HIDE DEF a
<1>4. x \in Int /\ p \in Int
  BY DEF Pgds
<1>5. a \div PTRS = p /\ a % PTRS = x
  BY <1>1, <1>3, <1>4, Quotient
<1> QED
  BY <1>3, <1>5 DEF a, Tables!At

LEMMA DdrIs ==
    /\ Ddr = TextBoot * PTRS .. DdrEnd * PTRS - 1
    /\ \A a \in Nat : a \in Ddr <=> a \div PTRS \in TextBoot .. DdrEnd - 1
<1>1. /\ PTRS \in Nat /\ PTRS >= 1 /\ TextBoot \in Nat /\ DdrEnd \in Nat
      /\ TextBoot * PTRS \in Nat /\ DdrEnd * PTRS \in Nat
  <2>1. PTRS \in Nat /\ PTRS >= 1 /\ TextBoot \in Nat /\ DdrEnd \in Nat
    BY TableNumbers
  <2>2. TextBoot * PTRS \in Nat /\ DdrEnd * PTRS \in Nat
    BY <2>1
  <2> QED
    BY <2>1, <2>2
<1>2. Ddr = TextBoot * PTRS .. DdrEnd * PTRS - 1
  <2>1. TextBoot * PTRS + 0 = TextBoot * PTRS /\ DdrEnd * PTRS + 0 = DdrEnd * PTRS
    BY <1>1
  <2>2. Ddr = TextBoot * PTRS + 0 .. (DdrEnd * PTRS + 0) - 1
    BY Zenon DEF Ddr, Tables!SectionMapping, Tables!At
  <2> QED
    BY <2>1, <2>2, Zenon
<1>3. ASSUME NEW a \in Nat PROVE a \in Ddr <=> a \div PTRS \in TextBoot .. DdrEnd - 1
  <2>1. a \div PTRS \in Nat
    BY <1>1
  <2>2. TextBoot \in Int /\ DdrEnd \in Int
    BY <1>1
  <2>3. a \div PTRS >= TextBoot <=> a >= TextBoot * PTRS
    BY <1>1, <2>2, DividedBelow
  <2>4. a \div PTRS < DdrEnd <=> a < DdrEnd * PTRS
    BY <1>1, <2>2, DividedBelow
  <2> DEFINE q == a \div PTRS
             lo == TextBoot * PTRS
             hi == DdrEnd * PTRS
  <2>5. q \in Nat /\ lo \in Nat /\ hi \in Nat /\ TextBoot \in Nat /\ DdrEnd \in Nat
    BY <1>1, <2>1
  <2>6. a \in lo .. hi - 1 <=> a >= lo /\ a < hi
    BY <2>5
  <2>7. q \in TextBoot .. DdrEnd - 1 <=> q >= TextBoot /\ q < DdrEnd
    BY <2>5
  <2> QED
    BY <1>2, <2>3, <2>4, <2>6, <2>7
<1> QED
  BY <1>2, <1>3

\* The pool lies in the DDR, besides the first table; a free page is outside.
LEMMA PoolIs ==
    ASSUME NEW n \in 0 .. Len(FreePages)
    PROVE  /\ PgDir \notin Pool(n)
           /\ \A p \in Pool(n) : p \in Nat /\ p \in TextBoot .. DdrEnd - 1
           /\ n < Len(FreePages) =>
                /\ n + 1 \in 0 .. Len(FreePages)
                /\ FreePages[n + 1] \in Nat /\ FreePages[n + 1] \in TextBoot .. DdrEnd - 1
                /\ FreePages[n + 1] # PgDir /\ FreePages[n + 1] \notin Pool(n)
                /\ Pool(n + 1) = Pool(n) \cup {FreePages[n + 1]}
<1>1. /\ FreePages \in Seq((TextBoot .. DdrEnd - 1) \ {PgDir, PgDir + 1})
      /\ \A k, l \in DOMAIN FreePages : FreePages[k] = FreePages[l] => k = l
      /\ DOMAIN FreePages = 1 .. Len(FreePages) /\ Len(FreePages) \in Nat
  BY TablesAssumption
<1>2. \A k \in 1 .. Len(FreePages) :
        /\ FreePages[k] \in TextBoot .. DdrEnd - 1 /\ FreePages[k] # PgDir /\ FreePages[k] # PgDir + 1
  BY <1>1
<1>3. /\ PgDir \in Nat /\ TextBoot \in Nat /\ PgDir + 1 \in TextBoot .. DdrEnd - 1
      /\ DdrEnd \in Nat
  BY TableNumbers
<1>4. PgDir \notin Pool(n)
  BY <1>1, <1>2, <1>3 DEF Pool
<1>5. \A p \in Pool(n) : p \in Nat /\ p \in TextBoot .. DdrEnd - 1
  BY <1>1, <1>2, <1>3 DEF Pool
<1>6. ASSUME n < Len(FreePages)
      PROVE  /\ n + 1 \in 0 .. Len(FreePages)
             /\ FreePages[n + 1] \in Nat /\ FreePages[n + 1] \in TextBoot .. DdrEnd - 1
             /\ FreePages[n + 1] # PgDir /\ FreePages[n + 1] \notin Pool(n)
             /\ Pool(n + 1) = Pool(n) \cup {FreePages[n + 1]}
  <2>1. n + 1 \in 1 .. Len(FreePages)
    BY <1>1, <1>6
  <2>2. FreePages[n + 1] \notin Pool(n)
    BY <1>1, <1>2, <2>1 DEF Pool
  <2>3. 1 .. n + 1 = (1 .. n) \cup {n + 1}
    OBVIOUS
  <2>4. Pool(n + 1) = Pool(n) \cup {FreePages[n + 1]}
    BY <2>3, Zenon DEF Pool
  <2>5. n + 1 \in 0 .. Len(FreePages)
    BY <2>1
  <2>6. FreePages[n + 1] \in TextBoot .. DdrEnd - 1 /\ FreePages[n + 1] # PgDir
    BY <1>2, <2>1
  <2> QED
    BY <1>3, <2>2, <2>4, <2>5, <2>6
<1> QED
  BY <1>4, <1>5, <1>6

\* The slots of a tree lie in their tables.
LEMMA NumbersNest ==
    /\ \A j \in Pmds : j \in Nat /\ j \div PTRS \in Pgds /\ j % PTRS \in Pgds
    /\ \A w \in Ptes : w \in Nat /\ w \div PTRS \in Pmds /\ w % PTRS \in Pgds
<1>1. PTRS \in Nat /\ PTRS >= 1
  BY TableNumbers
<1>2. \A a \in Nat : a % PTRS \in Pgds
  BY <1>1 DEF Pgds
<1> QED
  BY <1>2, Zenon DEF Pmds, Ptes

LEMMA SlotsLie ==
    ASSUME NEW f, NEW n, Typed(f, n)
    PROVE  /\ \A i \in Pgds : /\ Slot1(i) \in Ddr /\ Slot1(i) \div PTRS = PgDir
                              /\ Slot1(i) % PTRS = i
           /\ \A j \in Pmds : Has1(f, j \div PTRS) =>
                /\ f[Slot1(j \div PTRS)].page \in Pool(n)
                /\ Slot2(f, j) \in Ddr /\ Slot2(f, j) \div PTRS = f[Slot1(j \div PTRS)].page
                /\ Slot2(f, j) % PTRS = j % PTRS
           /\ \A w \in Ptes : Has2(f, w \div PTRS) =>
                /\ f[Slot2(f, w \div PTRS)].page \in Pool(n)
                /\ Slot3(f, w) \in Ddr /\ Slot3(f, w) \div PTRS = f[Slot2(f, w \div PTRS)].page
                /\ Slot3(f, w) % PTRS = w % PTRS
<1>1. /\ n \in 0 .. Len(FreePages)
      /\ \A i \in Pgds : Has1(f, i) => IsTable(f[Slot1(i)], n)
      /\ \A j \in Pmds : Has2(f, j) => IsTable(f[Slot2(f, j)], n)
  BY Zenon DEF Typed, Has2
<1>2. \A p \in Pool(n) : p \in Nat /\ p \in TextBoot .. DdrEnd - 1
  BY <1>1, PoolIs
<1>3. ASSUME NEW p \in Nat, p \in TextBoot .. DdrEnd - 1, NEW x \in Pgds
      PROVE  /\ Tables!At(p, x) \in Ddr /\ Tables!At(p, x) \div PTRS = p
             /\ Tables!At(p, x) % PTRS = x
  <2>1. /\ Tables!At(p, x) \in Nat /\ Tables!At(p, x) \div PTRS = p
        /\ Tables!At(p, x) % PTRS = x
    BY <1>3, AtIs
  <2> QED
    BY <1>3, <2>1, DdrIs, Zenon
<1>4. PgDir \in Nat /\ PgDir \in TextBoot .. DdrEnd - 1
  BY TableNumbers
<1>5. ASSUME NEW i \in Pgds
      PROVE  Slot1(i) \in Ddr /\ Slot1(i) \div PTRS = PgDir /\ Slot1(i) % PTRS = i
  BY <1>3, <1>4, Zenon DEF Slot1
<1>6. ASSUME NEW j \in Pmds, Has1(f, j \div PTRS)
      PROVE  /\ f[Slot1(j \div PTRS)].page \in Pool(n)
             /\ Slot2(f, j) \in Ddr /\ Slot2(f, j) \div PTRS = f[Slot1(j \div PTRS)].page
             /\ Slot2(f, j) % PTRS = j % PTRS
  <2>1. j \div PTRS \in Pgds /\ j % PTRS \in Pgds
    BY NumbersNest, Zenon
  <2>2. f[Slot1(j \div PTRS)].page \in Pool(n)
    BY <1>1, <1>6, <2>1, Zenon DEF IsTable
  <2> QED
    BY <1>2, <1>3, <2>1, <2>2, Zenon DEF Slot2
<1>7. ASSUME NEW w \in Ptes, Has2(f, w \div PTRS)
      PROVE  /\ f[Slot2(f, w \div PTRS)].page \in Pool(n)
             /\ Slot3(f, w) \in Ddr /\ Slot3(f, w) \div PTRS = f[Slot2(f, w \div PTRS)].page
             /\ Slot3(f, w) % PTRS = w % PTRS
  <2>1. w \div PTRS \in Pmds /\ w % PTRS \in Pgds
    BY NumbersNest, Zenon
  <2>2. f[Slot2(f, w \div PTRS)].page \in Pool(n)
    BY <1>1, <1>7, <2>1, Zenon DEF IsTable
  <2> QED
    BY <1>2, <1>3, <2>1, <2>2, Zenon DEF Slot3
<1> QED
  BY <1>5, <1>6, <1>7, Zenon

\* A number is told by its two parts.
LEMMA ByParts ==
    ASSUME NEW a \in Nat, NEW b \in Nat, a \div PTRS = b \div PTRS, a % PTRS = b % PTRS
    PROVE  a = b
<1>1. PTRS \in Int /\ PTRS >= 1 /\ a \in Int /\ b \in Int
  BY TableNumbers
<1>2. PICK q \in Int, r \in Int : Parts(a, PTRS, q, r) /\ a \div PTRS = q /\ a % PTRS = r
  BY <1>1, Divided, Zenon
<1>3. PICK s \in Int, t \in Int : Parts(b, PTRS, s, t) /\ b \div PTRS = s /\ b % PTRS = t
  BY <1>1, Divided, Zenon
<1> QED
  BY <1>2, <1>3 DEF Parts

\* Memory with a table in the next free page, entered at p.
WithNext(f, n, p) ==
  [a \in Ddr |-> IF a = p THEN [page |-> FreePages[n + 1], prot |-> Tables!PAGE_TABLE]
                 ELSE IF a \div PTRS = FreePages[n + 1] THEN Tables!None ELSE f[a]]

\* A new table at an entry that leads to none, of the directory or of a table
\* of the second level, leaves all the others and what they map alone.
LEMMA PgdLinked ==
    ASSUME NEW f, NEW n, Tree(f, n), n < Len(FreePages), NEW i \in Pgds, ~Has1(f, i)
    PROVE  LET g == WithNext(f, n, Slot1(i))
           IN  /\ Tree(g, n + 1)
               /\ \A k \in Pgds : Has1(g, k) <=> Has1(f, k) \/ k = i
               /\ \A k \in Pgds : k # i => g[Slot1(k)] = f[Slot1(k)]
               /\ \A j \in Pmds : Has2(g, j) <=> Has2(f, j)
               /\ g[Slot1(i)].page = FreePages[n + 1]
               /\ \A w \in Ptes : Hit(g, w) = Hit(f, w)
<1> DEFINE g == WithNext(f, n, Slot1(i))
           N == FreePages[n + 1]
           new == [page |-> N, prot |-> Tables!PAGE_TABLE]
<1>1. Typed(f, n) /\ OwnTables(f) /\ RestKept(f, n)
  BY DEF Tree
<1>2. /\ n \in 0 .. Len(FreePages) /\ n + 1 \in 0 .. Len(FreePages)
      /\ N \in Nat /\ N \in TextBoot .. DdrEnd - 1 /\ N # PgDir /\ N \notin Pool(n)
      /\ Pool(n + 1) = Pool(n) \cup {N} /\ PgDir \notin Pool(n)
  BY <1>1, PoolIs DEF Typed
<1>3. /\ DOMAIN g = Ddr
      /\ \A a \in Ddr : g[a] = IF a = Slot1(i) THEN new
                               ELSE IF a \div PTRS = N THEN Tables!None ELSE f[a]
  BY Zenon DEF WithNext
<1>4. IsTable(new, n + 1)
  BY <1>2 DEF IsTable
<1>5. new # Tables!None /\ ~Tables!Leaf(Tables!None)
  BY <1>4, EntryKinds
<1> HIDE DEF g, new
<1>6. ASSUME NEW k \in Pgds PROVE g[Slot1(k)] = IF k = i THEN new ELSE f[Slot1(k)]
  BY <1>1, <1>2, <1>3, SlotsLie, Zenon
<1>7. \A k \in Pgds : Has1(g, k) <=> Has1(f, k) \/ k = i
  BY <1>5, <1>6, Zenon DEF Has1
<1>8. ASSUME NEW j \in Pmds, Has1(f, j \div PTRS)
      PROVE  Slot2(g, j) = Slot2(f, j) /\ g[Slot2(g, j)] = f[Slot2(f, j)]
  <2>1. j \div PTRS \in Pgds /\ j \div PTRS # i
    BY <1>8, NumbersNest
  <2>2. Slot2(g, j) = Slot2(f, j)
    BY <1>6, <2>1, Zenon DEF Slot2
  <2>3. /\ Slot2(f, j) \in Ddr /\ Slot2(f, j) \div PTRS \in Pool(n)
        /\ Slot1(i) \div PTRS = PgDir
    BY <1>1, <1>8, SlotsLie, Zenon
  <2>4. Slot2(f, j) # Slot1(i) /\ Slot2(f, j) \div PTRS # N
    BY <1>2, <2>3, Zenon
  <2> QED
    BY <1>3, <2>2, <2>3, <2>4, Zenon
<1>9. ASSUME NEW j \in Pmds, j \div PTRS = i
      PROVE  g[Slot2(g, j)] = Tables!None
  <2>1. j % PTRS \in Pgds
    BY NumbersNest
  <2>2. Slot2(g, j) = Tables!At(N, j % PTRS)
    <3>1. g[Slot1(i)].page = N
      BY <1>6 DEF new
    <3> QED
      BY <1>9, <3>1, Zenon DEF Slot2
  <2>3. Slot2(g, j) \in Nat /\ Slot2(g, j) \div PTRS = N
    BY <1>2, <2>1, <2>2, AtIs
  <2>4. Slot2(g, j) \in Ddr
    BY <1>2, <2>3, DdrIs, Zenon
  <2>5. Slot1(i) \div PTRS = PgDir
    BY <1>1, SlotsLie
  <2>6. Slot2(g, j) # Slot1(i)
    BY <1>2, <2>3, <2>5, Zenon
  <2> QED
    BY <1>3, <2>3, <2>4, <2>6, Zenon
<1>10. ASSUME NEW j \in Pmds PROVE Has2(g, j) <=> Has2(f, j)
  <2>1. j \div PTRS \in Pgds
    BY NumbersNest
  <2>2. CASE j \div PTRS = i
    BY <1>9, <2>2, Zenon DEF Has2
  <2>3. CASE j \div PTRS # i
    BY <1>7, <1>8, <2>1, <2>3, Zenon DEF Has2
  <2> QED
    BY <2>2, <2>3
<1>11. ASSUME NEW w \in Ptes, Has2(f, w \div PTRS)
       PROVE  Slot3(g, w) = Slot3(f, w) /\ g[Slot3(g, w)] = f[Slot3(f, w)]
  <2>1. w \div PTRS \in Pmds /\ Has1(f, (w \div PTRS) \div PTRS)
    BY <1>11, NumbersNest, Zenon DEF Has2
  <2>2. Slot3(g, w) = Slot3(f, w)
    BY <1>8, <2>1, Zenon DEF Slot3
  <2>3. Slot3(f, w) \in Ddr /\ Slot3(f, w) \div PTRS \in Pool(n) /\ Slot1(i) \div PTRS = PgDir
    BY <1>1, <1>11, SlotsLie, Zenon
  <2>4. Slot3(f, w) # Slot1(i) /\ Slot3(f, w) \div PTRS # N
    BY <1>2, <2>3, Zenon
  <2> QED
    BY <1>3, <2>2, <2>3, <2>4, Zenon
<1>12. \A e : IsTable(e, n) => IsTable(e, n + 1)
  BY <1>2 DEF IsTable
<1>13. Typed(g, n + 1)
  <2>1. ASSUME NEW k \in Pgds, Has1(g, k) PROVE IsTable(g[Slot1(k)], n + 1)
    BY <1>1, <1>4, <1>6, <1>7, <1>12, <2>1, Zenon DEF Typed
  <2>2. ASSUME NEW j \in Pmds, Has1(g, j \div PTRS)
        PROVE  \/ g[Slot2(g, j)] = Tables!None
               \/ IsTable(g[Slot2(g, j)], n + 1)
               \/ Tables!Leaf(g[Slot2(g, j)]) /\ g[Slot2(g, j)].page \in Nat /\ InBoot(j)
    <3>1. CASE j \div PTRS = i
      BY <1>9, <3>1, Zenon
    <3>2. CASE j \div PTRS # i
      <4>1. Has1(f, j \div PTRS)
        BY <1>7, <2>2, <3>2, NumbersNest, Zenon
      <4>2. g[Slot2(g, j)] = f[Slot2(f, j)]
        BY <1>8, <4>1, Zenon
      <4> QED
        BY <1>1, <1>12, <4>1, <4>2, Zenon DEF Typed
    <3> QED
      BY <3>1, <3>2
  <2>3. ASSUME NEW w \in Ptes, Has2(g, w \div PTRS)
        PROVE  g[Slot3(g, w)] = Tables!None \/ Tables!Leaf(g[Slot3(g, w)])
    <3>1. Has2(f, w \div PTRS)
      BY <1>10, <2>3, NumbersNest, Zenon
    <3> QED
      BY <1>1, <1>11, <3>1, Zenon DEF Typed
  <2> QED
    BY <1>2, <1>3, <2>1, <2>2, <2>3, Zenon DEF Typed
<1>14. /\ \A k \in Pgds : Has1(f, k) => f[Slot1(k)].page \in Pool(n)
       /\ \A j \in Pmds : Has2(f, j) => f[Slot2(f, j)].page \in Pool(n)
                                        /\ g[Slot2(g, j)] = f[Slot2(f, j)]
  BY <1>1, <1>8, Zenon DEF Typed, Has2, IsTable
<1>15. OwnTables(g)
  <2>1. ASSUME NEW k \in Pgds, NEW l \in Pgds, Has1(g, k), Has1(g, l),
               g[Slot1(k)].page = g[Slot1(l)].page
        PROVE  k = l
    <3>1. new.page = N
      BY DEF new
    <3>2. k # i => g[Slot1(k)].page \in Pool(n)
      BY <1>6, <1>7, <1>14, <2>1, Zenon
    <3>3. l # i => g[Slot1(l)].page \in Pool(n)
      BY <1>6, <1>7, <1>14, <2>1, Zenon
    <3> QED
      BY <1>1, <1>2, <1>6, <1>7, <2>1, <3>1, <3>2, <3>3, Zenon DEF OwnTables
  <2>2. ASSUME NEW j \in Pmds, NEW k \in Pmds, Has2(g, j), Has2(g, k),
               g[Slot2(g, j)].page = g[Slot2(g, k)].page
        PROVE  j = k
    BY <1>1, <1>10, <1>14, <2>2, Zenon DEF OwnTables
  <2>3. ASSUME NEW k \in Pgds, NEW j \in Pmds, Has1(g, k), Has2(g, j)
        PROVE  g[Slot1(k)].page # g[Slot2(g, j)].page
    <3>1. new.page = N
      BY DEF new
    <3>2. Has2(f, j) /\ g[Slot2(g, j)].page \in Pool(n)
      BY <1>10, <1>14, <2>3, Zenon
    <3>3. CASE k = i
      BY <1>2, <1>6, <3>1, <3>2, <3>3, Zenon
    <3>4. CASE k # i
      BY <1>1, <1>6, <1>7, <1>14, <2>3, <3>2, <3>4, Zenon DEF OwnTables
    <3> QED
      BY <3>3, <3>4
  <2> QED
    BY <2>1, <2>2, <2>3, Zenon DEF OwnTables
<1>16. RestKept(g, n + 1)
  <2>1. ASSUME NEW a \in Ddr, a \div PTRS \notin {PgDir} \cup Pool(n + 1)
        PROVE  g[a] = Tables!SectionMapping[a]
    <3>1. Slot1(i) \div PTRS = PgDir
      BY <1>1, SlotsLie
    <3>2. a # Slot1(i) /\ a \div PTRS # N /\ a \div PTRS \notin {PgDir} \cup Pool(n)
      BY <1>2, <2>1, <3>1, Zenon
    <3> QED
      BY <1>1, <1>3, <3>2, Zenon DEF RestKept
  <2> QED
    BY <2>1, Zenon DEF RestKept
<1>17. ASSUME NEW w \in Ptes PROVE Hit(g, w) = Hit(f, w)
  <2> DEFINE j == w \div PTRS
  <2>1. j \in Pmds /\ j \div PTRS \in Pgds
    BY NumbersNest, Zenon
  <2>2. CASE j \div PTRS = i
    BY <1>9, <2>1, <2>2, Zenon DEF Hit
  <2>3. CASE j \div PTRS # i /\ ~Has1(f, j \div PTRS)
    BY <1>7, <2>1, <2>3, Zenon DEF Hit
  <2>4. CASE j \div PTRS # i /\ Has1(f, j \div PTRS)
    <3>1. Has1(g, j \div PTRS) /\ g[Slot2(g, j)] = f[Slot2(f, j)]
      BY <1>7, <1>8, <2>1, <2>4, Zenon
    <3>2. CASE Has2(f, j)
      BY <1>11, <2>4, <3>1, <3>2, Zenon DEF Hit, Has2
    <3>3. CASE ~Has2(f, j)
      BY <2>4, <3>1, <3>3, Zenon DEF Hit, Has2
    <3> QED
      BY <3>2, <3>3
  <2> QED
    BY <2>2, <2>3, <2>4
<1>18. g[Slot1(i)].page = N
  BY <1>6 DEF new
<1>19. \A k \in Pgds : k # i => g[Slot1(k)] = f[Slot1(k)]
  BY <1>6, Zenon
<1>20. Tree(g, n + 1)
  BY <1>13, <1>15, <1>16 DEF Tree
<1> HIDE DEF N
<1>21. /\ Tree(g, n + 1)
       /\ \A k \in Pgds : Has1(g, k) <=> Has1(f, k) \/ k = i
       /\ \A k \in Pgds : k # i => g[Slot1(k)] = f[Slot1(k)]
       /\ \A j \in Pmds : Has2(g, j) <=> Has2(f, j)
       /\ g[Slot1(i)].page = N
       /\ \A w \in Ptes : Hit(g, w) = Hit(f, w)
  BY <1>7, <1>10, <1>17, <1>18, <1>19, <1>20, Zenon
<1> QED
  BY <1>21, Zenon DEF g, N

LEMMA PmdLinked ==
    ASSUME NEW f, NEW n, Tree(f, n), n < Len(FreePages), NEW j \in Pmds,
           Has1(f, j \div PTRS), f[Slot2(f, j)] = Tables!None
    PROVE  LET g == WithNext(f, n, Slot2(f, j))
           IN  /\ Tree(g, n + 1)
               /\ \A i \in Pgds : g[Slot1(i)] = f[Slot1(i)]
               /\ \A k \in Pmds : Has2(g, k) <=> Has2(f, k) \/ k = j
               /\ \A w \in Ptes : Hit(g, w) = Hit(f, w)
<1> DEFINE p == Slot2(f, j)
           g == WithNext(f, n, p)
           N == FreePages[n + 1]
           new == [page |-> N, prot |-> Tables!PAGE_TABLE]
<1>1. Typed(f, n) /\ OwnTables(f) /\ RestKept(f, n)
  BY DEF Tree
<1>2. /\ n \in 0 .. Len(FreePages) /\ n + 1 \in 0 .. Len(FreePages)
      /\ N \in Nat /\ N \in TextBoot .. DdrEnd - 1 /\ N # PgDir /\ N \notin Pool(n)
      /\ Pool(n + 1) = Pool(n) \cup {N} /\ PgDir \notin Pool(n)
  BY <1>1, PoolIs DEF Typed
<1>3. /\ DOMAIN g = Ddr
      /\ \A a \in Ddr : g[a] = IF a = p THEN new
                               ELSE IF a \div PTRS = N THEN Tables!None ELSE f[a]
  BY Zenon DEF WithNext
<1>4. IsTable(new, n + 1)
  BY <1>2 DEF IsTable
<1>5. /\ new # Tables!None /\ ~Tables!Leaf(Tables!None) /\ ~Tables!Leaf(new)
      /\ new.page = N
  BY <1>4, EntryKinds
<1>6. /\ p \in Ddr /\ p \div PTRS \in Pool(n) /\ p % PTRS = j % PTRS
      /\ p \div PTRS = f[Slot1(j \div PTRS)].page
  BY <1>1, SlotsLie, Zenon
<1>7. ~Has2(f, j)
  BY DEF Has2
<1> HIDE DEF g, new, p
<1>8. ASSUME NEW k \in Pgds PROVE g[Slot1(k)] = f[Slot1(k)] /\ (Has1(g, k) <=> Has1(f, k))
  <2>1. Slot1(k) \in Ddr /\ Slot1(k) # p /\ Slot1(k) \div PTRS # N
    BY <1>1, <1>2, <1>6, SlotsLie, Zenon
  <2> QED
    BY <1>3, <2>1, Zenon DEF Has1
<1>9. ASSUME NEW k \in Pmds, Has1(f, k \div PTRS)
      PROVE  /\ Slot2(g, k) = Slot2(f, k)
             /\ g[Slot2(g, k)] = IF k = j THEN new ELSE f[Slot2(f, k)]
  <2>1. k \div PTRS \in Pgds /\ j \div PTRS \in Pgds /\ k \in Nat /\ j \in Nat
    BY NumbersNest, Zenon
  <2>2. Slot2(g, k) = Slot2(f, k)
    BY <1>8, <2>1, Zenon DEF Slot2
  <2>3. /\ Slot2(f, k) \in Ddr /\ Slot2(f, k) \div PTRS \in Pool(n)
        /\ Slot2(f, k) \div PTRS = f[Slot1(k \div PTRS)].page
        /\ Slot2(f, k) % PTRS = k % PTRS
    BY <1>1, <1>9, SlotsLie, Zenon
  <2>4. ASSUME Slot2(f, k) = p PROVE k = j
    <3>1. k \div PTRS = j \div PTRS
      BY <1>1, <1>6, <1>9, <2>1, <2>3, <2>4, Zenon DEF OwnTables
    <3>2. k % PTRS = j % PTRS
      BY <1>6, <2>3, <2>4, Zenon
    <3> QED
      BY <2>1, <3>1, <3>2, ByParts, Zenon
  <2>5. Slot2(f, k) \div PTRS # N
    BY <1>2, <2>3, Zenon
  <2> QED
    BY <1>3, <2>2, <2>3, <2>4, <2>5, Zenon DEF p
<1>10. ASSUME NEW k \in Pmds PROVE Has2(g, k) <=> Has2(f, k) \/ k = j
  <2>1. k \div PTRS \in Pgds
    BY NumbersNest
  <2> QED
    BY <1>5, <1>8, <1>9, <2>1, Zenon DEF Has2
<1>11. ASSUME NEW w \in Ptes, Has2(f, w \div PTRS)
       PROVE  Slot3(g, w) = Slot3(f, w) /\ g[Slot3(g, w)] = f[Slot3(f, w)]
  <2>1. w \div PTRS \in Pmds /\ Has1(f, (w \div PTRS) \div PTRS) /\ w \div PTRS # j
    BY <1>7, <1>11, NumbersNest, Zenon DEF Has2
  <2>2. Slot3(g, w) = Slot3(f, w)
    BY <1>9, <2>1, Zenon DEF Slot3
  <2>3. /\ Slot3(f, w) \in Ddr /\ Slot3(f, w) \div PTRS \in Pool(n)
        /\ Slot3(f, w) \div PTRS = f[Slot2(f, w \div PTRS)].page
    BY <1>1, <1>11, SlotsLie, Zenon
  <2>4. j \div PTRS \in Pgds
    BY NumbersNest, Zenon
  <2>5. Slot3(f, w) # p
    BY <1>1, <1>6, <1>11, <2>1, <2>3, <2>4, Zenon DEF OwnTables
  <2>6. Slot3(f, w) \div PTRS # N
    BY <1>2, <2>3, Zenon
  <2> QED
    BY <1>3, <2>2, <2>3, <2>5, <2>6, Zenon
<1>12. ASSUME NEW w \in Ptes, w \div PTRS = j PROVE g[Slot3(g, w)] = Tables!None
  <2>1. w % PTRS \in Pgds
    BY NumbersNest
  <2>2. g[Slot2(g, j)].page = N
    BY <1>5, <1>9, Zenon
  <2>3. Slot3(g, w) = Tables!At(N, w % PTRS)
    BY <1>12, <2>2, Zenon DEF Slot3
  <2>4. Slot3(g, w) \in Nat /\ Slot3(g, w) \div PTRS = N
    BY <1>2, <2>1, <2>3, AtIs
  <2>5. Slot3(g, w) \in Ddr
    BY <1>2, <2>4, DdrIs, Zenon
  <2>6. Slot3(g, w) # p
    BY <1>2, <1>6, <2>4, Zenon
  <2> QED
    BY <1>3, <2>4, <2>5, <2>6, Zenon
<1>13. \A e : IsTable(e, n) => IsTable(e, n + 1)
  BY <1>2 DEF IsTable
<1>14. Typed(g, n + 1)
  <2>1. ASSUME NEW k \in Pgds, Has1(g, k) PROVE IsTable(g[Slot1(k)], n + 1)
    BY <1>1, <1>8, <1>13, <2>1, Zenon DEF Typed
  <2>2. ASSUME NEW k \in Pmds, Has1(g, k \div PTRS)
        PROVE  \/ g[Slot2(g, k)] = Tables!None
               \/ IsTable(g[Slot2(g, k)], n + 1)
               \/ Tables!Leaf(g[Slot2(g, k)]) /\ g[Slot2(g, k)].page \in Nat /\ InBoot(k)
    <3>1. Has1(f, k \div PTRS)
      BY <1>8, <2>2, NumbersNest, Zenon
    <3>2. CASE k = j
      BY <1>4, <1>9, <3>1, <3>2, Zenon
    <3>3. CASE k # j
      <4>1. g[Slot2(g, k)] = f[Slot2(f, k)]
        BY <1>9, <3>1, <3>3, Zenon
      <4> QED
        BY <1>1, <1>13, <3>1, <4>1, Zenon DEF Typed
    <3> QED
      BY <3>2, <3>3
  <2>3. ASSUME NEW w \in Ptes, Has2(g, w \div PTRS)
        PROVE  g[Slot3(g, w)] = Tables!None \/ Tables!Leaf(g[Slot3(g, w)])
    <3>1. Has2(f, w \div PTRS) \/ w \div PTRS = j
      BY <1>10, <2>3, NumbersNest, Zenon
    <3> QED
      BY <1>1, <1>11, <1>12, <3>1, Zenon DEF Typed
  <2> QED
    BY <1>2, <1>3, <2>1, <2>2, <2>3, Zenon DEF Typed
<1>15. /\ \A k \in Pgds : Has1(f, k) => f[Slot1(k)].page \in Pool(n)
       /\ \A k \in Pmds : Has2(f, k) => f[Slot2(f, k)].page \in Pool(n) /\ k # j
                                        /\ g[Slot2(g, k)] = f[Slot2(f, k)]
       /\ g[Slot2(g, j)].page = N
  BY <1>1, <1>5, <1>7, <1>9, Zenon DEF Typed, Has2, IsTable
<1>16. OwnTables(g)
  <2>1. ASSUME NEW k \in Pgds, NEW l \in Pgds, Has1(g, k), Has1(g, l),
               g[Slot1(k)].page = g[Slot1(l)].page
        PROVE  k = l
    BY <1>1, <1>8, <2>1, Zenon DEF OwnTables
  <2>2. ASSUME NEW l \in Pmds, NEW k \in Pmds, Has2(g, l), Has2(g, k),
               g[Slot2(g, l)].page = g[Slot2(g, k)].page
        PROVE  l = k
    <3>1. (Has2(f, l) \/ l = j) /\ (Has2(f, k) \/ k = j)
      BY <1>10, <2>2, Zenon
    <3> QED
      BY <1>1, <1>2, <1>15, <2>2, <3>1, Zenon DEF OwnTables
  <2>3. ASSUME NEW i \in Pgds, NEW k \in Pmds, Has1(g, i), Has2(g, k)
        PROVE  g[Slot1(i)].page # g[Slot2(g, k)].page
    <3>1. Has1(f, i) /\ g[Slot1(i)] = f[Slot1(i)] /\ (Has2(f, k) \/ k = j)
      BY <1>8, <1>10, <2>3, Zenon
    <3> QED
      BY <1>1, <1>2, <1>15, <3>1, Zenon DEF OwnTables
  <2> QED
    BY <2>1, <2>2, <2>3, Zenon DEF OwnTables
<1>17. RestKept(g, n + 1)
  <2>1. ASSUME NEW a \in Ddr, a \div PTRS \notin {PgDir} \cup Pool(n + 1)
        PROVE  g[a] = Tables!SectionMapping[a]
    <3>1. a # p /\ a \div PTRS # N /\ a \div PTRS \notin {PgDir} \cup Pool(n)
      BY <1>2, <1>6, <2>1, Zenon
    <3> QED
      BY <1>1, <1>3, <3>1, Zenon DEF RestKept
  <2> QED
    BY <2>1, Zenon DEF RestKept
<1>18. ASSUME NEW w \in Ptes PROVE Hit(g, w) = Hit(f, w)
  <2> DEFINE k == w \div PTRS
  <2>1. k \in Pmds /\ k \div PTRS \in Pgds
    BY NumbersNest, Zenon
  <2>2. CASE k = j
    <3>1. Hit(f, w) = Tables!None
      BY <2>2, Zenon DEF Hit
    <3>2. g[Slot2(g, k)] = new /\ Has1(g, k \div PTRS)
      BY <1>8, <1>9, <2>1, <2>2, Zenon
    <3> QED
      BY <1>5, <1>12, <2>2, <3>1, <3>2, Zenon DEF Hit
  <2>3. CASE k # j /\ ~Has1(f, k \div PTRS)
    BY <1>8, <2>1, <2>3, Zenon DEF Hit
  <2>4. CASE k # j /\ Has1(f, k \div PTRS)
    <3>1. Has1(g, k \div PTRS) /\ g[Slot2(g, k)] = f[Slot2(f, k)]
      BY <1>8, <1>9, <2>1, <2>4, Zenon
    <3>2. CASE Has2(f, k)
      BY <1>11, <2>4, <3>1, <3>2, Zenon DEF Hit, Has2
    <3>3. CASE ~Has2(f, k)
      BY <2>4, <3>1, <3>3, Zenon DEF Hit, Has2
    <3> QED
      BY <3>2, <3>3
  <2> QED
    BY <2>2, <2>3, <2>4
<1>19. Tree(g, n + 1)
  BY <1>14, <1>16, <1>17 DEF Tree
<1>20. \A i \in Pgds : g[Slot1(i)] = f[Slot1(i)]
  BY <1>8, Zenon
<1> HIDE DEF N
<1>21. /\ Tree(g, n + 1)
       /\ \A i \in Pgds : g[Slot1(i)] = f[Slot1(i)]
       /\ \A k \in Pmds : Has2(g, k) <=> Has2(f, k) \/ k = j
       /\ \A w \in Ptes : Hit(g, w) = Hit(f, w)
  BY <1>10, <1>18, <1>19, <1>20, Zenon
<1> QED
  BY <1>21, Zenon DEF g, p

\* Between two numbers of one table.
LEMMA SameTable ==
    ASSUME NEW x \in Nat, NEW w \in Nat, NEW z \in Nat, NEW s \in Nat, s >= 1,
           x <= w, w <= z, x \div s = z \div s
    PROVE  w \div s = x \div s /\ w % s = (x % s) + (w - x)
<1>1. s \in Int /\ x \in Int /\ w \in Int /\ z \in Int
  OBVIOUS
<1>2. PICK q \in Int, r \in Int : Parts(x, s, q, r) /\ x \div s = q /\ x % s = r
  BY <1>1, Divided, Zenon
<1>3. PICK p \in Int, t \in Int : Parts(z, s, p, t) /\ z \div s = p /\ z % s = t
  BY <1>1, Divided, Zenon
<1>4. p = q /\ q * s \in Int
  BY <1>2, <1>3
<1>5. Parts(w, s, q, r + (w - x))
  BY <1>2, <1>3, <1>4 DEF Parts
<1>6. r + (w - x) \in Int
  OBVIOUS
<1>7. w \div s = q /\ w % s = r + (w - x)
  BY <1>1, <1>5, <1>6, Quotient
<1> QED
  BY <1>2, <1>7

\* Memory with the entries of the pages x to y - 1, of one table, for the
\* pages from q on.
WithPtes(f, x, y, q, prot) ==
  [a \in Ddr |-> IF a \in Slot3(f, x) .. Slot3(f, x) + (y - x) - 1
                 THEN [page |-> q + (a - Slot3(f, x)), prot |-> prot] ELSE f[a]]
IsLeaf(prot) == "V" \in prot /\ prot \cap {"R", "W", "X"} # {}

LEMMA PtesWritten ==
    ASSUME NEW f, NEW n, Tree(f, n), NEW x \in Ptes, NEW y \in Nat, x < y, Has2(f, x \div PTRS),
           (y - 1) \div PTRS = x \div PTRS, NEW q \in Nat, NEW prot, IsLeaf(prot)
    PROVE  LET g == WithPtes(f, x, y, q, prot)
           IN  /\ Tree(g, n)
               /\ \A i \in Pgds : g[Slot1(i)] = f[Slot1(i)]
               /\ \A k \in Pmds : Has2(g, k) <=> Has2(f, k)
               /\ \A w \in Ptes : Hit(g, w) = IF w \in x .. y - 1
                                              THEN [page |-> q + (w - x), prot |-> prot]
                                              ELSE Hit(f, w)
<1> DEFINE p == Slot3(f, x)
           j == x \div PTRS
           t == f[Slot2(f, j)].page
           g == WithPtes(f, x, y, q, prot)
           new(b) == [page |-> q + b, prot |-> prot]
<1>1. Typed(f, n) /\ OwnTables(f) /\ RestKept(f, n)
  BY DEF Tree
<1>2. PgDir \notin Pool(n) /\ \A a \in Pool(n) : a \in Nat
  BY <1>1, PoolIs DEF Typed
<1>3. /\ DOMAIN g = Ddr
      /\ \A a \in Ddr : g[a] = IF a \in p .. p + (y - x) - 1 THEN new(a - p) ELSE f[a]
  BY Zenon DEF WithPtes
<1>4. ASSUME NEW b PROVE /\ new(b) # Tables!None /\ Tables!Leaf(new(b)) /\ ~Tables!Leaf(Tables!None)
  <2>1. Tables!Leaf(new(b))
    BY DEF Tables!Leaf, IsLeaf
  <2> HIDE DEF new
  <2>2. ~Tables!Leaf(Tables!None)
    BY DEF Tables!Leaf, Tables!None
  <2> QED
    BY <2>1, <2>2, Zenon
<1>5. /\ j \in Pmds /\ x \in Nat /\ x % PTRS \in Pgds /\ t \in Pool(n) /\ t \in Nat
      /\ p = Tables!At(t, x % PTRS)
  <2>1. j \in Pmds /\ x \in Nat /\ x % PTRS \in Pgds
    BY NumbersNest
  <2>2. t \in Pool(n) /\ p = Tables!At(t, x % PTRS)
    BY <1>1, SlotsLie, Zenon DEF Slot3
  <2> QED
    BY <1>2, <2>1, <2>2
<1>6. PTRS \in Nat /\ PTRS >= 1
  BY TableNumbers
<1> HIDE DEF g, new, j, t
\* The entries that are written are those of the pages from x to y - 1.
<1>7. ASSUME NEW w \in x .. y - 1
      PROVE  /\ w \in Ptes /\ w \div PTRS = j /\ Slot3(f, w) = p + (w - x)
  <2>1. w \in Nat /\ y - 1 \in Nat /\ x <= w /\ w <= y - 1
    BY <1>5
  <2>2. w \div PTRS = j /\ w % PTRS = (x % PTRS) + (w - x)
    BY <1>5, <1>6, <2>1, SameTable DEF j
  <2>3. w \in Ptes
    BY <1>5, <2>1, <2>2 DEF Ptes
  <2>4. Slot3(f, w) = Tables!At(t, w % PTRS)
    BY <2>2, Zenon DEF Slot3, t
  <2>5. t * PTRS \in Int /\ x % PTRS \in Int
    BY <1>5, <1>6 DEF Pgds
  <2>6. Tables!At(t, w % PTRS) = Tables!At(t, x % PTRS) + (w - x)
    BY <1>5, <2>1, <2>2, <2>5 DEF Tables!At
  <2> QED
    BY <1>5, <2>2, <2>3, <2>4, <2>6
<1>8. p \in Nat
  BY <1>5, AtIs
<1>9. ASSUME NEW a \in Ddr, a \in p .. p + (y - x) - 1
      PROVE  x + (a - p) \in x .. y - 1 /\ a = Slot3(f, x + (a - p))
  <2> DEFINE w == x + (a - p)
  <2>1. w \in x .. y - 1 /\ a = p + (w - x)
    BY <1>5, <1>8, <1>9
  <2> QED
    BY <1>7, <2>1
<1>10. ASSUME NEW a \in Ddr, a \in p .. p + (y - x) - 1 PROVE a \div PTRS = t
  <2> DEFINE w == x + (a - p)
  <2>1. w \in Ptes /\ w \div PTRS = j /\ a = Slot3(f, w)
    BY <1>7, <1>9, <1>10
  <2> HIDE DEF w
  <2>2. Has2(f, w \div PTRS)
    BY <2>1, Zenon DEF j
  <2>3. a \div PTRS = f[Slot2(f, w \div PTRS)].page
    BY <1>1, <2>1, <2>2, SlotsLie, Zenon
  <2> QED
    BY <2>1, <2>3, Zenon DEF t
<1> HIDE DEF p
<1>11. ASSUME NEW k \in Pgds PROVE g[Slot1(k)] = f[Slot1(k)] /\ (Has1(g, k) <=> Has1(f, k))
  <2>1. Slot1(k) \in Ddr /\ Slot1(k) \div PTRS # t
    BY <1>1, <1>2, <1>5, SlotsLie, Zenon
  <2> QED
    BY <1>3, <1>10, <2>1, Zenon DEF Has1
<1>12. ASSUME NEW k \in Pmds, Has1(f, k \div PTRS)
       PROVE  Slot2(g, k) = Slot2(f, k) /\ g[Slot2(g, k)] = f[Slot2(f, k)]
  <2>1. k \div PTRS \in Pgds
    BY NumbersNest, Zenon
  <2>2. Slot2(g, k) = Slot2(f, k)
    BY <1>11, <2>1, Zenon DEF Slot2
  <2>3. Slot2(f, k) \in Ddr /\ Slot2(f, k) \div PTRS = f[Slot1(k \div PTRS)].page
    BY <1>1, <1>12, SlotsLie, Zenon
  <2>4. Slot2(f, k) \div PTRS # t
    BY <1>1, <1>5, <1>12, <2>1, <2>3, Zenon DEF OwnTables, t, j
  <2> QED
    BY <1>3, <1>10, <2>2, <2>3, <2>4, Zenon
<1>13. ASSUME NEW k \in Pmds PROVE Has2(g, k) <=> Has2(f, k)
  <2>1. k \div PTRS \in Pgds
    BY NumbersNest
  <2> QED
    BY <1>11, <1>12, <2>1, Zenon DEF Has2
<1>14. ASSUME NEW w \in Ptes, Has2(f, w \div PTRS)
       PROVE  /\ Slot3(g, w) = Slot3(f, w)
              /\ g[Slot3(g, w)] = IF w \in x .. y - 1 THEN new(w - x) ELSE f[Slot3(f, w)]
  <2>1. w \div PTRS \in Pmds /\ Has1(f, (w \div PTRS) \div PTRS) /\ w \in Nat
    BY <1>14, NumbersNest, Zenon DEF Has2
  <2>2. Slot3(g, w) = Slot3(f, w)
    BY <1>12, <2>1, Zenon DEF Slot3
  <2>3. /\ Slot3(f, w) \in Ddr /\ Slot3(f, w) % PTRS = w % PTRS
        /\ Slot3(f, w) \div PTRS = f[Slot2(f, w \div PTRS)].page
    BY <1>1, <1>14, SlotsLie, Zenon
  <2>4. CASE w \in x .. y - 1
    <3>1. Slot3(f, w) = p + (w - x)
      BY <1>7, <2>4
    <3>2. Slot3(f, w) \in p .. p + (y - x) - 1 /\ Slot3(f, w) - p = w - x
      BY <1>5, <1>8, <2>4, <3>1
    <3> QED
      BY <1>3, <2>2, <2>3, <2>4, <3>2, Zenon
  <2>5. CASE w \notin x .. y - 1
    <3>1. Slot3(f, w) \notin p .. p + (y - x) - 1
      <4>1. SUFFICES ASSUME Slot3(f, w) \in p .. p + (y - x) - 1 PROVE FALSE
        OBVIOUS
      <4>2. PICK v \in x .. y - 1 : Slot3(f, w) = Slot3(f, v)
        BY <1>9, <2>3, <4>1, Zenon
      <4>3. v \in Ptes /\ v \div PTRS = j /\ v \in Nat
        BY <1>7, NumbersNest
      <4>4. /\ Slot3(f, v) % PTRS = v % PTRS
            /\ Slot3(f, v) \div PTRS = f[Slot2(f, v \div PTRS)].page
        BY <1>1, <4>3, SlotsLie, Zenon DEF j
      <4>5. w \div PTRS = v \div PTRS
        BY <1>1, <1>5, <1>14, <2>1, <2>3, <4>2, <4>3, <4>4, Zenon DEF OwnTables, j
      <4>6. w = v
        BY <2>1, <2>3, <4>2, <4>3, <4>4, <4>5, ByParts, Zenon
      <4> QED
        BY <2>5, <4>6
    <3> QED
      BY <1>3, <2>2, <2>3, <2>5, <3>1, Zenon
  <2> QED
    BY <2>4, <2>5
<1>15. Typed(g, n)
  <2>1. ASSUME NEW k \in Pgds, Has1(g, k) PROVE IsTable(g[Slot1(k)], n)
    BY <1>1, <1>11, <2>1, Zenon DEF Typed
  <2>2. ASSUME NEW k \in Pmds, Has1(g, k \div PTRS)
        PROVE  \/ g[Slot2(g, k)] = Tables!None
               \/ IsTable(g[Slot2(g, k)], n)
               \/ Tables!Leaf(g[Slot2(g, k)]) /\ g[Slot2(g, k)].page \in Nat /\ InBoot(k)
    <3>1. Has1(f, k \div PTRS)
      BY <1>11, <2>2, NumbersNest, Zenon
    <3>2. g[Slot2(g, k)] = f[Slot2(f, k)]
      BY <1>12, <3>1, Zenon
    <3> QED
      BY <1>1, <3>1, <3>2, Zenon DEF Typed
  <2>3. ASSUME NEW w \in Ptes, Has2(g, w \div PTRS)
        PROVE  g[Slot3(g, w)] = Tables!None \/ Tables!Leaf(g[Slot3(g, w)])
    <3>1. Has2(f, w \div PTRS)
      BY <1>13, <2>3, NumbersNest, Zenon
    <3> QED
      BY <1>1, <1>4, <1>14, <3>1, Zenon DEF Typed
  <2> QED
    BY <1>1, <1>3, <2>1, <2>2, <2>3, Zenon DEF Typed
<1>16. \A k \in Pmds : Has2(f, k) => g[Slot2(g, k)] = f[Slot2(f, k)]
  BY <1>12, Zenon DEF Has2
<1>17. OwnTables(g)
  <2>1. ASSUME NEW k \in Pgds, NEW l \in Pgds, Has1(g, k), Has1(g, l),
               g[Slot1(k)].page = g[Slot1(l)].page
        PROVE  k = l
    BY <1>1, <1>11, <2>1, Zenon DEF OwnTables
  <2>2. ASSUME NEW l \in Pmds, NEW k \in Pmds, Has2(g, l), Has2(g, k),
               g[Slot2(g, l)].page = g[Slot2(g, k)].page
        PROVE  l = k
    BY <1>1, <1>13, <1>16, <2>2, Zenon DEF OwnTables
  <2>3. ASSUME NEW i \in Pgds, NEW k \in Pmds, Has1(g, i), Has2(g, k)
        PROVE  g[Slot1(i)].page # g[Slot2(g, k)].page
    BY <1>1, <1>11, <1>13, <1>16, <2>3, Zenon DEF OwnTables
  <2> QED
    BY <2>1, <2>2, <2>3, Zenon DEF OwnTables
<1>18. RestKept(g, n)
  <2>1. ASSUME NEW a \in Ddr, a \div PTRS \notin {PgDir} \cup Pool(n)
        PROVE  g[a] = Tables!SectionMapping[a]
    <3>1. a \div PTRS # t
      BY <1>5, <2>1, Zenon
    <3> QED
      BY <1>1, <1>3, <1>10, <2>1, <3>1, Zenon DEF RestKept
  <2> QED
    BY <2>1, Zenon DEF RestKept
<1>19. ASSUME NEW w \in Ptes
       PROVE  Hit(g, w) = IF w \in x .. y - 1 THEN new(w - x) ELSE Hit(f, w)
  <2> DEFINE k == w \div PTRS
  <2>1. k \in Pmds /\ k \div PTRS \in Pgds
    BY NumbersNest, Zenon
  <2>2. w \in x .. y - 1 => Has2(f, k)
    BY <1>7, Zenon DEF j
  <2>3. CASE ~Has1(f, k \div PTRS)
    <3>1. ~Has1(g, k \div PTRS) /\ w \notin x .. y - 1
      BY <1>11, <2>1, <2>2, <2>3, Zenon DEF Has2
    <3> QED
      BY <2>3, <3>1, Zenon DEF Hit
  <2>4. CASE Has1(f, k \div PTRS)
    <3>1. Has1(g, k \div PTRS) /\ g[Slot2(g, k)] = f[Slot2(f, k)]
      BY <1>11, <1>12, <2>1, <2>4, Zenon
    <3>2. CASE Has2(f, k)
      <4>1. Hit(g, w) = g[Slot3(g, w)] /\ Hit(f, w) = f[Slot3(f, w)]
        BY <2>4, <3>1, <3>2, Zenon DEF Hit, Has2
      <4> QED
        BY <1>14, <3>2, <4>1, Zenon
    <3>3. CASE ~Has2(f, k)
      BY <2>2, <2>4, <3>1, <3>3, Zenon DEF Hit, Has2
    <3> QED
      BY <3>2, <3>3
  <2> QED
    BY <2>3, <2>4
<1>20. Tree(g, n)
  BY <1>15, <1>17, <1>18 DEF Tree
<1>21. \A i \in Pgds : g[Slot1(i)] = f[Slot1(i)]
  BY <1>11, Zenon
<1>22. /\ Tree(g, n)
       /\ \A i \in Pgds : g[Slot1(i)] = f[Slot1(i)]
       /\ \A k \in Pmds : Has2(g, k) <=> Has2(f, k)
       /\ \A w \in Ptes : Hit(g, w) = IF w \in x .. y - 1 THEN new(w - x) ELSE Hit(f, w)
  BY <1>13, <1>19, <1>20, <1>21, Zenon
<1> QED
  BY <1>22, Zenon DEF g, new

\* The entries that lead to a table from the allocator.  Each of them is on
\* the way to a page of some call, so that the allocator never runs dry.
Held(f) ==
  {<<"pgd", i>> : i \in {k \in Pgds : Has1(f, k) /\ f[Slot1(k)].page # PgDir + 1}}
    \cup {<<"pmd", j>> : j \in {k \in Pmds : Has2(f, k)}}
Counted(f, n) == Held(f) \subseteq Needed /\ Cardinality(Held(f)) = n

Sound(m) ==
    /\ m = [taken |-> m.taken, entry |-> m.entry]
    /\ Tree(m.entry, m.taken) /\ Counted(m.entry, m.taken)

\* r is m with the pages from x to y - 1 mapped to those from q on.
Became(m, r, x, y, q, prot) ==
    /\ Sound(r)
    /\ \A i \in Pgds : Has1(m.entry, i) => r.entry[Slot1(i)] = m.entry[Slot1(i)]
    /\ \A w \in Ptes : Hit(r.entry, w) = IF w \in x .. y - 1
                                         THEN [page |-> q + (w - x), prot |-> prot]
                                         ELSE Hit(m.entry, w)

LEMMA NeededIsFinite ==
    /\ IsFiniteSet(Needed) /\ Cardinality(Needed) \in Nat /\ Cardinality(Needed) <= Len(FreePages)
<1> DEFINE spanned == UNION {Tables!Covered(c) : c \in Mappings}
           V == Tables!VaEnd
           all == {"pgd", "pmd"} \X (0 .. V)
<1>1. V \in Nat /\ Tables!PGDIR_SIZE \in Nat /\ Tables!PGDIR_SIZE >= 1
      /\ Tables!PMD_SIZE \in Nat /\ Tables!PMD_SIZE >= 1
  BY TableNumbers
<1>2. \A va \in spanned : va \in Nat /\ va < V
  <2>1. \A c \in Mappings : Tables!Covered(c) \subseteq 0 .. V - 1
    BY TablesAssumption, Zenon
  <2> HIDE DEF V
  <2> QED
    BY <1>1, <2>1
<1>3. ASSUME NEW va \in Nat, va < V, NEW s \in Nat, s >= 1 PROVE va \div s \in 0 .. V
  <2>1. va \div s \in Nat
    BY <1>3
  <2>2. va \div s <= va
    <3>1. (va + 1) * s >= va + 1
      BY <1>3
    <3>2. va \div s < va + 1 <=> va < (va + 1) * s
      BY <1>3, DividedBelow
    <3>3. (va + 1) * s \in Int
      OBVIOUS
    <3> QED
      BY <2>1, <3>1, <3>2, <3>3
  <2> HIDE DEF V
  <2> QED
    BY <1>1, <1>3, <2>1, <2>2
<1>4. Needed \subseteq all
  <2>1. /\ Needed = {<<"pgd", va \div Tables!PGDIR_SIZE>> : va \in spanned}
                      \cup {<<"pmd", va \div Tables!PMD_SIZE>> : va \in spanned}
    BY Zenon DEF Needed
  <2> HIDE DEF spanned, V
  <2>2. \A va \in spanned : va \div Tables!PGDIR_SIZE \in 0 .. V /\ va \div Tables!PMD_SIZE \in 0 .. V
    BY <1>1, <1>2, <1>3
  <2> QED
    BY <2>1, <2>2
<1>5. IsFiniteSet(all)
  <2>1. IsFiniteSet({"pgd", "pmd"})
    <3>1. IsFiniteSet({"pmd"})
      BY FS_Singleton
    <3>2. {"pgd", "pmd"} = {"pmd"} \cup {"pgd"}
      OBVIOUS
    <3> QED
      BY <3>1, <3>2, FS_AddElement
  <2>2. IsFiniteSet(0 .. V)
    BY <1>1, FS_Interval
  <2> QED
    BY <2>1, <2>2, FS_Product
<1>6. IsFiniteSet(Needed)
  BY <1>4, <1>5, FS_Subset
<1> QED
  BY <1>6, FS_CardinalityType, TablesAssumption

\* One more entry leads to a table.
LEMMA CountedAgain ==
    ASSUME NEW f, NEW n, NEW g, NEW key \in Needed, key \notin Held(f), Counted(f, n),
           n \in 0 .. Len(FreePages)
    PROVE  /\ n < Len(FreePages)
           /\ Held(g) = Held(f) \cup {key} => Counted(g, n + 1)
<1>1. Held(f) \subseteq Needed /\ Cardinality(Held(f)) = n
  BY DEF Counted
<1>2. IsFiniteSet(Held(f))
  BY <1>1, NeededIsFinite, FS_Subset
<1>3. IsFiniteSet(Held(f) \cup {key}) /\ Cardinality(Held(f) \cup {key}) = n + 1
  BY <1>1, <1>2, FS_AddElement
<1>4. Cardinality(Held(f) \cup {key}) <= Cardinality(Needed)
  <2>1. Held(f) \cup {key} \subseteq Needed
    BY <1>1
  <2> QED
    BY <2>1, NeededIsFinite, FS_Subset
<1>5. n + 1 <= Len(FreePages)
  BY <1>3, <1>4, NeededIsFinite
<1>6. Len(FreePages) \in Nat
  BY TablesAssumption
<1>7. n < Len(FreePages)
  BY <1>5, <1>6
<1>8. Held(g) = Held(f) \cup {key} => Counted(g, n + 1)
  BY <1>1, <1>3, Zenon DEF Counted
<1> QED
  BY <1>7, <1>8

\* __create_pgd_mapping and alloc_init_pmd: a table for the entry if it has none.
LEMMA PgdEnsured ==
    ASSUME NEW m, Sound(m), NEW i \in Pgds, <<"pgd", i>> \in Needed
    PROVE  LET t == Tables!WithTable(m, Slot1(i))
           IN  /\ Sound(t) /\ Has1(t.entry, i)
               /\ \A k \in Pgds : Has1(m.entry, k) => t.entry[Slot1(k)] = m.entry[Slot1(k)]
               /\ \A w \in Ptes : Hit(t.entry, w) = Hit(m.entry, w)
<1> DEFINE t == Tables!WithTable(m, Slot1(i))
           f == m.entry
           n == m.taken
           g == WithNext(f, n, Slot1(i))
<1>1. Tree(f, n) /\ Counted(f, n) /\ n \in 0 .. Len(FreePages) /\ DOMAIN f = Ddr
      /\ m = [taken |-> n, entry |-> f]
  BY Zenon DEF Sound, Tree, Typed
<1>2. CASE Has1(f, i)
  <2>1. t = m
    BY <1>2, Zenon DEF Tables!WithTable, Has1
  <2> QED
    BY <1>2, <2>1, Zenon
<1>3. CASE ~Has1(f, i)
  <2>1. t = [taken |-> n + 1, entry |-> g]
    BY <1>1, <1>3, Zenon DEF Tables!WithTable, Has1, WithNext
  <2>2. <<"pgd", i>> \notin Held(f)
    BY <1>3 DEF Held
  <2>3. n < Len(FreePages)
    BY <1>1, <2>2, CountedAgain, Zenon
  <2>4. /\ Tree(g, n + 1)
        /\ \A k \in Pgds : Has1(g, k) <=> Has1(f, k) \/ k = i
        /\ \A k \in Pgds : k # i => g[Slot1(k)] = f[Slot1(k)]
        /\ \A j \in Pmds : Has2(g, j) <=> Has2(f, j)
        /\ g[Slot1(i)].page = FreePages[n + 1]
        /\ \A w \in Ptes : Hit(g, w) = Hit(f, w)
    <3> HIDE DEF f, n
    <3> QED
      BY <1>1, <1>3, <2>3, PgdLinked
  <2>5. FreePages[n + 1] # PgDir + 1
    BY <1>1, <2>3, PoolIs DEF Pool
  <2> HIDE DEF g, f, n, t
  <2>6. Held(g) = Held(f) \cup {<<"pgd", i>>}
    <3>1. {k \in Pgds : Has1(g, k) /\ g[Slot1(k)].page # PgDir + 1}
            = {k \in Pgds : Has1(f, k) /\ f[Slot1(k)].page # PgDir + 1} \cup {i}
      BY <1>3, <2>4, <2>5, Zenon
    <3>2. {k \in Pmds : Has2(g, k)} = {k \in Pmds : Has2(f, k)}
      BY <2>4, Zenon
    <3> DEFINE A == {k \in Pgds : Has1(f, k) /\ f[Slot1(k)].page # PgDir + 1}
               B == {k \in Pmds : Has2(f, k)}
    <3>3. /\ Held(f) = {<<"pgd", k>> : k \in A} \cup {<<"pmd", k>> : k \in B}
          /\ Held(g) = {<<"pgd", k>> : k \in A \cup {i}} \cup {<<"pmd", k>> : k \in B}
      BY <3>1, <3>2, Zenon DEF Held
    <3> HIDE DEF A, B
    <3> QED
      BY <3>3
  <2>7. Counted(g, n + 1)
    BY <1>1, <2>2, <2>6, CountedAgain, Zenon
  <2>8. t.entry = g /\ t.taken = n + 1 /\ t = [taken |-> t.taken, entry |-> t.entry]
    BY <2>1
  <2>9. Sound(t)
    BY <2>4, <2>7, <2>8, Zenon DEF Sound
  <2>10. \A k \in Pgds : Has1(f, k) => g[Slot1(k)] = f[Slot1(k)]
    BY <1>3, <2>4, Zenon
  <2>11. /\ Sound(t) /\ Has1(t.entry, i)
         /\ \A k \in Pgds : Has1(f, k) => t.entry[Slot1(k)] = f[Slot1(k)]
         /\ \A w \in Ptes : Hit(t.entry, w) = Hit(f, w)
    BY <2>4, <2>8, <2>9, <2>10, Zenon
  <2> QED
    BY <2>11, Zenon DEF t, f
<1> QED
  BY <1>2, <1>3

LEMMA PmdEnsured ==
    ASSUME NEW m, Sound(m), NEW j \in Pmds, <<"pmd", j>> \in Needed,
           Has1(m.entry, j \div PTRS), ~InBoot(j)
    PROVE  LET t == Tables!WithTable(m, Slot2(m.entry, j))
           IN  /\ Sound(t) /\ Has2(t.entry, j)
               /\ \A k \in Pgds : t.entry[Slot1(k)] = m.entry[Slot1(k)]
               /\ \A w \in Ptes : Hit(t.entry, w) = Hit(m.entry, w)
<1> DEFINE f == m.entry
           n == m.taken
           p == Slot2(f, j)
           t == Tables!WithTable(m, p)
           g == WithNext(f, n, p)
<1>1. Tree(f, n) /\ Counted(f, n) /\ n \in 0 .. Len(FreePages) /\ DOMAIN f = Ddr
      /\ m = [taken |-> n, entry |-> f] /\ Typed(f, n)
  BY Zenon DEF Sound, Tree, Typed
<1>2. CASE f[p] # Tables!None
  <2>1. t = m
    BY <1>2, Zenon DEF Tables!WithTable
  <2>2. IsTable(f[p], n)
    BY <1>1, <1>2, Zenon DEF Typed
  <2>3. Has2(f, j)
    BY <1>2, <2>2, EntryKinds, Zenon DEF Has2
  <2> QED
    BY <2>1, <2>3, Zenon
<1>3. CASE f[p] = Tables!None
  <2>1. t = [taken |-> n + 1, entry |-> g]
    BY <1>1, <1>3, Zenon DEF Tables!WithTable, WithNext
  <2>2. <<"pmd", j>> \notin Held(f)
    BY <1>3 DEF Held, Has2
  <2>3. n < Len(FreePages)
    BY <1>1, <2>2, CountedAgain, Zenon
  <2>4. /\ Tree(g, n + 1)
        /\ \A k \in Pgds : g[Slot1(k)] = f[Slot1(k)]
        /\ \A k \in Pmds : Has2(g, k) <=> Has2(f, k) \/ k = j
        /\ \A w \in Ptes : Hit(g, w) = Hit(f, w)
    <3>1. Has1(f, j \div PTRS) /\ f[Slot2(f, j)] = Tables!None
      BY <1>3
    <3> HIDE DEF f, n
    <3> QED
      BY <1>1, <2>3, <3>1, PmdLinked
  <2> HIDE DEF g, f, n, t, p
  <2>6. Held(g) = Held(f) \cup {<<"pmd", j>>}
    <3>1. {k \in Pgds : Has1(g, k) /\ g[Slot1(k)].page # PgDir + 1}
            = {k \in Pgds : Has1(f, k) /\ f[Slot1(k)].page # PgDir + 1}
      BY <2>4, Zenon DEF Has1
    <3>2. {k \in Pmds : Has2(g, k)} = {k \in Pmds : Has2(f, k)} \cup {j}
      BY <2>4, Zenon
    <3> DEFINE A == {k \in Pgds : Has1(f, k) /\ f[Slot1(k)].page # PgDir + 1}
               B == {k \in Pmds : Has2(f, k)}
    <3>3. /\ Held(f) = {<<"pgd", k>> : k \in A} \cup {<<"pmd", k>> : k \in B}
          /\ Held(g) = {<<"pgd", k>> : k \in A} \cup {<<"pmd", k>> : k \in B \cup {j}}
      BY <3>1, <3>2, Zenon DEF Held
    <3> HIDE DEF A, B
    <3> QED
      BY <3>3
  <2>7. Counted(g, n + 1)
    BY <1>1, <2>2, <2>6, CountedAgain, Zenon
  <2>8. t.entry = g /\ t.taken = n + 1 /\ t = [taken |-> t.taken, entry |-> t.entry]
    BY <2>1
  <2>9. Sound(t)
    BY <2>4, <2>7, <2>8, Zenon DEF Sound
  <2>10. /\ Sound(t) /\ Has2(t.entry, j)
         /\ \A k \in Pgds : t.entry[Slot1(k)] = f[Slot1(k)]
         /\ \A w \in Ptes : Hit(t.entry, w) = Hit(f, w)
    BY <2>4, <2>8, <2>9, Zenon
  <2> QED
    BY <2>10, Zenon DEF t, f, p
<1> QED
  BY <1>2, <1>3

\* What a piece is: it lies in one span and begins where the one before ends.
LEMMA SliceIs ==
    ASSUME NEW x \in Nat, NEW y \in Nat, x < y, NEW s \in Nat, s >= 1, NEW k \in 1 .. Cuts(x, y, s)
    PROVE  LET p == Slice(x, y, s, k)
           IN  /\ p.addr \in Nat /\ p.next \in Nat
               /\ x <= p.addr /\ p.addr < p.next /\ p.next <= y
               /\ p.addr \div s = x \div s + k - 1 /\ (p.next - 1) \div s = x \div s + k - 1
               /\ k = 1 => p.addr = x
               /\ k > 1 => p.addr = Slice(x, y, s, k - 1).next
               /\ k = Cuts(x, y, s) => p.next = y
<1> DEFINE d == x \div s
           e == (y - 1) \div s
           n == Cuts(x, y, s)
           lo == IF k = 1 THEN x ELSE (d + (k - 1)) * s
           hi == IF k = n THEN y ELSE (d + k) * s
<1>1. Slice(x, y, s, k) = [addr |-> lo, next |-> hi]
  BY Zenon DEF Slice
<1>2. d \in Nat /\ e \in Nat /\ n = e - d + 1 /\ k \in Nat /\ k >= 1 /\ k <= n
  <2>1. d \in Nat /\ e \in Nat
    OBVIOUS
  <2> QED
    BY <2>1 DEF Cuts
<1>3. ASSUME NEW c \in Nat, c >= 1 PROVE c * s \in Nat /\ (c * s) \div s = c /\ (c * s - 1) \div s = c - 1
  <2>1. c * s \in Nat /\ (c * s) \div s = c
    BY <1>3, DividedNext
  <2>2. Parts(c * s - 1, s, c - 1, s - 1) /\ c * s - 1 \in Int
    <3>1. (c - 1) * s = c * s - s
      OBVIOUS
    <3> QED
      BY <2>1, <3>1 DEF Parts
  <2> DEFINE a == c * s - 1
  <2>3. a \in Int /\ Parts(a, s, c - 1, s - 1) /\ c - 1 \in Int /\ s - 1 \in Int
    BY <2>2
  <2> HIDE DEF a
  <2>4. a \div s = c - 1
    BY <2>3, Quotient
  <2> QED
    BY <2>1, <2>4 DEF a
<1>5. ASSUME NEW c \in Nat, c >= 1 PROVE (d < c <=> x < c * s) /\ (c <= e <=> c * s <= y - 1)
  <2>1. c \in Int /\ y - 1 \in Nat
    BY <1>5
  <2>2. (d < c <=> x < c * s) /\ (e >= c <=> y - 1 >= c * s)
    BY <1>5, <2>1, DividedBelow
  <2>3. c * s \in Nat
    BY <1>5, <1>3
  <2> QED
    BY <1>2, <2>1, <2>2, <2>3
<1>6. ASSUME NEW c \in Nat, NEW b \in Nat, c < b PROVE c * s < b * s
  <2>1. (b - c) * s >= 1
    BY <1>6
  <2>2. (b - c) * s = b * s - c * s
    OBVIOUS
  <2>3. b * s \in Int /\ c * s \in Int
    OBVIOUS
  <2> QED
    BY <2>1, <2>2, <2>3
<1>7. k # 1 => /\ lo = (d + (k - 1)) * s /\ lo \in Nat /\ lo \div s = d + k - 1 /\ x < lo /\ lo <= y - 1
  <2>1. SUFFICES ASSUME k # 1 PROVE lo \in Nat /\ lo \div s = d + k - 1 /\ x < lo /\ lo <= y - 1
    OBVIOUS
  <2> DEFINE c == d + (k - 1)
  <2>2. c \in Nat /\ c >= 1 /\ d < c /\ c <= e /\ c = d + k - 1
    BY <1>2, <2>1
  <2> HIDE DEF c, d, e
  <2>3. c * s \in Nat /\ (c * s) \div s = c /\ x < c * s /\ c * s <= y - 1
    BY <1>3, <1>5, <2>2
  <2>4. lo = c * s
    BY <2>1 DEF c
  <2> QED
    BY <2>2, <2>3, <2>4
<1>8. k # n => /\ hi = (d + k) * s /\ hi \in Nat /\ (hi - 1) \div s = d + k - 1 /\ x < hi /\ hi <= y - 1
  <2>1. SUFFICES ASSUME k # n PROVE hi \in Nat /\ (hi - 1) \div s = d + k - 1 /\ x < hi /\ hi <= y - 1
    OBVIOUS
  <2> DEFINE c == d + k
  <2>2. c \in Nat /\ c >= 1 /\ d < c /\ c <= e /\ c - 1 = d + k - 1
    BY <1>2, <2>1
  <2> HIDE DEF c, d, e, n
  <2>3. c * s \in Nat /\ (c * s - 1) \div s = c - 1 /\ x < c * s /\ c * s <= y - 1
    BY <1>3, <1>5, <2>2
  <2>4. hi = c * s
    BY <2>1 DEF c
  <2> QED
    BY <2>2, <2>3, <2>4
<1>9. /\ k = 1 => lo = x /\ lo \div s = d + k - 1
      /\ k = n => hi = y /\ (hi - 1) \div s = d + k - 1
  <2>1. k = 1 => lo = x /\ lo \div s = d + k - 1
    BY <1>2
  <2>2. k = n => hi = y /\ e = d + k - 1
    BY <1>2
  <2> QED
    BY <2>1, <2>2
<1>10. k # 1 /\ k # n => lo < hi
  <2>1. d + (k - 1) \in Nat /\ d + k \in Nat /\ d + (k - 1) < d + k
    BY <1>2
  <2>2. (d + (k - 1)) * s < (d + k) * s
    BY <1>6, <2>1
  <2> QED
    BY <2>2, Zenon
<1>11. k > 1 => Slice(x, y, s, k - 1).next = lo
  <2>1. SUFFICES ASSUME k > 1 PROVE Slice(x, y, s, k - 1).next = lo
    OBVIOUS
  <2>2. k - 1 # n /\ k # 1
    BY <1>2, <2>1
  <2>3. Slice(x, y, s, k - 1).next = (d + (k - 1)) * s
    BY <2>2, Zenon DEF Slice
  <2> QED
    BY <2>2, <2>3
<1> HIDE DEF lo, hi, d, e, n
<1>12. lo \in Nat /\ hi \in Nat /\ x <= lo /\ hi <= y
  BY <1>7, <1>8, <1>9
<1>13. lo < hi
  BY <1>7, <1>8, <1>9, <1>10
<1>14. lo \div s = d + k - 1 /\ (hi - 1) \div s = d + k - 1
  BY <1>7, <1>8, <1>9
<1>15. k > 1 \/ k = 1
  BY <1>2
<1> QED
  BY <1>1, <1>9, <1>11, <1>12, <1>13, <1>14 DEF d, n

\* The pieces of a range of whole pages, counted in pages.
LEMMA Scaled ==
    ASSUME NEW x \in Nat, NEW y \in Nat, x < y, NEW s \in Nat, s >= 1
    PROVE  LET pieces == Tables!Pieces(x * PAGE_SIZE, y * PAGE_SIZE, PAGE_SIZE * s)
               n == Cuts(x, y, s)
           IN  /\ Len(pieces) = n /\ n \in Nat /\ n >= 1
               /\ \A k \in 1 .. n : /\ pieces[k].addr = Slice(x, y, s, k).addr * PAGE_SIZE
                                    /\ pieces[k].next = Slice(x, y, s, k).next * PAGE_SIZE
<1> DEFINE p == PAGE_SIZE
           a == x * p
           b == y * p
           t == p * s
           n == Cuts(x, y, s)
<1>1. p \in Nat /\ p >= 1 /\ t \in Nat /\ t >= 1 /\ a \in Nat /\ b \in Nat /\ a < b
  <2>1. p \in Nat /\ p >= 1
    BY TableNumbers
  <2>2. (y - x) * p >= 1 /\ (y - x) * p = b - a
    BY <2>1
  <2>3. a \in Nat /\ b \in Nat /\ t \in Nat /\ t >= 1
    BY <2>1
  <2> QED
    BY <2>1, <2>2, <2>3
<1> HIDE DEF p
<1>2. a \div t = x \div s
  <2>1. a \div t = (a \div p) \div s
    <3>1. Nests(a, p, s)
      BY <1>1, DividedTwice
    <3> QED
      BY <3>1, Zenon DEF Nests
  <2>2. a \div p = x
    BY <1>1, DividedNext
  <2> QED
    BY <2>1, <2>2
<1>3. (b - 1) \div t = (y - 1) \div s
  <2>1. b - 1 \in Nat
    BY <1>1
  <2> DEFINE c == b - 1
  <2>2. c \in Nat /\ c \in Int /\ Parts(c, p, y - 1, p - 1)
    <3>1. (y - 1) * p = b - p
      BY <1>1
    <3> QED
      BY <1>1, <2>1, <3>1 DEF Parts
  <2> HIDE DEF c, b
  <2>3. c \div t = (c \div p) \div s
    <3>1. Nests(c, p, s)
      BY <1>1, <2>2, DividedTwice
    <3> QED
      BY <3>1, Zenon DEF Nests
  <2>4. y - 1 \in Int /\ p - 1 \in Int
    BY <1>1
  <2>5. c \div p = y - 1
    BY <1>1, <2>2, <2>4, Quotient
  <2> QED
    BY <2>3, <2>5 DEF c
<1>4. Cuts(a, b, t) = n
  BY <1>2, <1>3, Zenon DEF Cuts
<1>5. n \in Nat /\ n >= 1
  BY EndIs
<1> DEFINE pieces == Tables!Pieces(a, b, t)
<1>6. pieces = [k \in 1 .. n |-> Slice(a, b, t, k)]
  <2>1. pieces = Pieced(a, b, t)
    <3> HIDE DEF a, b, t
    <3> QED
      BY <1>1, PiecesAre
  <2> QED
    BY <1>4, <2>1, Zenon DEF Pieced
<1>7. ASSUME NEW k \in 1 .. n
      PROVE  /\ Slice(a, b, t, k).addr = Slice(x, y, s, k).addr * p
             /\ Slice(a, b, t, k).next = Slice(x, y, s, k).next * p
  <2> DEFINE d == x \div s
  <2>1. /\ Slice(a, b, t, k).addr = IF k = 1 THEN a ELSE (d + (k - 1)) * t
        /\ Slice(a, b, t, k).next = IF k = n THEN b ELSE (d + k) * t
    <3>1. Slice(a, b, t, k) = [addr |-> IF k = 1 THEN a ELSE (d + (k - 1)) * t,
                             next |-> IF k = n THEN b ELSE (d + k) * t]
      BY <1>2, <1>4, Zenon DEF Slice
    <3> HIDE DEF a, b, t, d, n
    <3> QED
      BY <3>1
  <2>2. /\ Slice(x, y, s, k).addr = IF k = 1 THEN x ELSE (d + (k - 1)) * s
        /\ Slice(x, y, s, k).next = IF k = n THEN y ELSE (d + k) * s
    <3>1. Slice(x, y, s, k) = [addr |-> IF k = 1 THEN x ELSE (d + (k - 1)) * s,
                             next |-> IF k = n THEN y ELSE (d + k) * s]
      BY Zenon DEF Slice
    <3> HIDE DEF d, n
    <3> QED
      BY <3>1
  <2>3. \A c \in Int : c * t = (c * s) * p
    BY <1>1
  <2>4. d + (k - 1) \in Int /\ d + k \in Int
    BY <1>5
  <2>5. (d + (k - 1)) * t = ((d + (k - 1)) * s) * p /\ (d + k) * t = ((d + k) * s) * p
    BY <2>3, <2>4, Zenon
  <2>6. k = 1 => Slice(a, b, t, k).addr = Slice(x, y, s, k).addr * p
    BY <2>1, <2>2
  <2>7. k # 1 => Slice(a, b, t, k).addr = Slice(x, y, s, k).addr * p
    <3> HIDE DEF t, d
    <3> QED
      BY <2>1, <2>2, <2>5, Zenon
  <2>8. k = n => Slice(a, b, t, k).next = Slice(x, y, s, k).next * p
    BY <2>1, <2>2
  <2>9. k # n => Slice(a, b, t, k).next = Slice(x, y, s, k).next * p
    <3> HIDE DEF t, d, n
    <3> QED
      BY <2>1, <2>2, <2>5, Zenon
  <2> QED
    BY <2>6, <2>7, <2>8, <2>9
<1>8. Len(pieces) = n /\ \A k \in 1 .. n : pieces[k] = Slice(a, b, t, k)
  <2> HIDE DEF n, a, b, t, pieces
  <2> QED
    BY <1>5, <1>6
<1>9. \A k \in 1 .. n : /\ pieces[k].addr = Slice(x, y, s, k).addr * p
                        /\ pieces[k].next = Slice(x, y, s, k).next * p
  BY <1>7, <1>8, Zenon
<1> HIDE DEF pieces, n, a, b, t
<1>10. /\ Len(pieces) = n /\ n \in Nat /\ n >= 1
       /\ \A k \in 1 .. n : /\ pieces[k].addr = Slice(x, y, s, k).addr * p
                            /\ pieces[k].next = Slice(x, y, s, k).next * p
  BY <1>5, <1>8, <1>9, Zenon
<1> QED
  BY <1>10, Zenon DEF pieces, n, a, b, t, p

LEMMA BecameJoin ==
    ASSUME NEW m, NEW r, NEW s, NEW x \in Int, NEW y \in Int, NEW z \in Int, x <= y, y <= z,
           NEW q \in Int, NEW prot, NEW b, b = q + (y - x),
           Became(m, r, x, y, q, prot), Became(r, s, y, z, b, prot)
    PROVE  Became(m, s, x, z, q, prot)
<1> DEFINE At1(w) == [page |-> q + (w - x), prot |-> prot]
           At2(w) == [page |-> b + (w - y), prot |-> prot]
           At3(w) == [page |-> q + (w - x), prot |-> prot]
<1>1. \A w \in Ptes : /\ Hit(r.entry, w) = IF w \in x .. y - 1 THEN At1(w) ELSE Hit(m.entry, w)
                      /\ Hit(s.entry, w) = IF w \in y .. z - 1 THEN At2(w) ELSE Hit(r.entry, w)
  BY Zenon DEF Became
<1>2. \A w \in Ptes : w \in Nat
  BY NumbersNest
<1>3. ASSUME NEW w \in Ptes
      PROVE  Hit(s.entry, w) = IF w \in x .. z - 1 THEN At3(w) ELSE Hit(m.entry, w)
  <2>1. CASE w \in y .. z - 1
    <3>1. w \in x .. z - 1
      BY <2>1
    <3>2. b + (w - y) = q + (w - x)
      BY <1>2
    <3>3. At2(w) = At3(w)
      BY <3>2, Zenon
    <3> HIDE DEF At1, At2, At3
    <3> QED
      BY <1>1, <2>1, <3>1, <3>3, Zenon
  <2>2. CASE w \in x .. y - 1
    <3>1. w \in x .. z - 1 /\ w \notin y .. z - 1
      BY <2>2
    <3> QED
      BY <1>1, <2>2, <3>1, Zenon
  <2>3. CASE w \notin x .. y - 1 /\ w \notin y .. z - 1
    <3>1. w \notin x .. z - 1
      BY <1>2, <2>3
    <3> QED
      BY <1>1, <2>3, <3>1, Zenon
  <2> QED
    BY <2>1, <2>2, <2>3
<1>4. \A i \in Pgds : Has1(m.entry, i) => s.entry[Slot1(i)] = m.entry[Slot1(i)]
  BY Zenon DEF Became, Has1
<1> QED
  BY <1>3, <1>4, Zenon DEF Became

LEMMA BecameSame ==
    ASSUME NEW m, NEW r, NEW x \in Int, NEW q, NEW prot, Sound(r),
           \A i \in Pgds : Has1(m.entry, i) => r.entry[Slot1(i)] = m.entry[Slot1(i)],
           \A w \in Ptes : Hit(r.entry, w) = Hit(m.entry, w)
    PROVE  Became(m, r, x, x, q, prot)
<1>1. \A w : w \notin x .. x - 1
  OBVIOUS
<1> QED
  BY <1>1, Zenon DEF Became

\* alloc_init_pte: the pages from x to y - 1, all under one entry.
LEMMA PtesBecome ==
    ASSUME NEW m, Sound(m), NEW x \in Ptes, NEW y \in Nat, x < y,
           (y - 1) \div PTRS = x \div PTRS, Has1(m.entry, (x \div PTRS) \div PTRS),
           ~InBoot(x \div PTRS), <<"pmd", x \div PTRS>> \in Needed,
           NEW q \in Nat, NEW prot, IsLeaf(prot)
    PROVE  Became(m, Tables!AllocInitPte(m, Slot2(m.entry, x \div PTRS), x * PAGE_SIZE,
                                         y * PAGE_SIZE, q * PAGE_SIZE, prot), x, y, q, prot)
<1> DEFINE j == x \div PTRS
           p == Slot2(m.entry, j)
           t == Tables!WithTable(m, p)
           f == t.entry
           g == WithPtes(f, x, y, q, prot)
           r == Tables!AllocInitPte(m, p, x * PAGE_SIZE, y * PAGE_SIZE, q * PAGE_SIZE, prot)
<1>1. j \in Pmds /\ j \div PTRS \in Pgds /\ x \in Nat
  BY NumbersNest
<1>2. /\ Sound(t) /\ Has2(f, j)
      /\ \A k \in Pgds : f[Slot1(k)] = m.entry[Slot1(k)]
      /\ \A w \in Ptes : Hit(f, w) = Hit(m.entry, w)
  <2>1. Has1(m.entry, j \div PTRS) /\ ~InBoot(j) /\ <<"pmd", j>> \in Needed
    OBVIOUS
  <2> HIDE DEF j
  <2> QED
    BY <1>1, <2>1, PmdEnsured
<1>3. Slot2(f, j) = p
  BY <1>1, <1>2, Zenon DEF Slot2
<1>4. /\ (x * PAGE_SIZE) \div PAGE_SIZE = x /\ (q * PAGE_SIZE) \div PAGE_SIZE = q
      /\ (y * PAGE_SIZE - x * PAGE_SIZE) \div PAGE_SIZE = y - x
  <2>1. PAGE_SIZE \in Nat /\ PAGE_SIZE >= 1
    BY TableNumbers
  <2>2. y - x \in Nat /\ y * PAGE_SIZE - x * PAGE_SIZE = (y - x) * PAGE_SIZE
    BY <1>1, <2>1
  <2>3. ((y - x) * PAGE_SIZE) \div PAGE_SIZE = y - x
    BY <2>1, <2>2, DividedNext
  <2>4. (x * PAGE_SIZE) \div PAGE_SIZE = x /\ (q * PAGE_SIZE) \div PAGE_SIZE = q
    BY <1>1, <2>1, DividedNext
  <2> QED
    BY <2>2, <2>3, <2>4, Zenon
<1>5. Tables!PtepFromPmdp(f, p, x * PAGE_SIZE) = Slot3(f, x)
  BY <1>3, <1>4, Zenon DEF Tables!PtepFromPmdp, Tables!Index, Slot3
<1>6. /\ t = [taken |-> t.taken, entry |-> f] /\ DOMAIN f = Ddr /\ Tree(f, t.taken)
      /\ Counted(f, t.taken)
  BY <1>2, Zenon DEF Sound, Tree, Typed
<1>7. r = [taken |-> t.taken, entry |-> g]
  <2>1. r = [t EXCEPT !.entry = [a \in DOMAIN f |->
               IF a \in Slot3(f, x) .. Slot3(f, x) + (y - x) - 1
               THEN [page |-> q + (a - Slot3(f, x)), prot |-> prot] ELSE f[a]]]
    BY <1>4, <1>5, Zenon DEF Tables!AllocInitPte
  <2>2. r = [t EXCEPT !.entry = g]
    BY <1>6, <2>1, Zenon DEF WithPtes
  <2> HIDE DEF g, f, r, t
  <2>3. t = [taken |-> t.taken, entry |-> f]
    BY <1>6
  <2> QED
    BY <2>2, <2>3
<1>8. /\ Tree(g, t.taken)
      /\ \A i \in Pgds : g[Slot1(i)] = f[Slot1(i)]
      /\ \A k \in Pmds : Has2(g, k) <=> Has2(f, k)
      /\ \A w \in Ptes : Hit(g, w) = IF w \in x .. y - 1
                                     THEN [page |-> q + (w - x), prot |-> prot]
                                     ELSE Hit(f, w)
  <2> DEFINE n == t.taken
  <2>1. Tree(f, n) /\ Has2(f, x \div PTRS)
    BY <1>2, <1>6, Zenon
  <2> HIDE DEF f, t, n
  <2>2. Tree(g, n)
      /\ (\A i \in Pgds : g[Slot1(i)] = f[Slot1(i)])
      /\ (\A k \in Pmds : Has2(g, k) <=> Has2(f, k))
      /\ (\A w \in Ptes : Hit(g, w) = IF w \in x .. y - 1
                                     THEN [page |-> q + (w - x), prot |-> prot]
                                     ELSE Hit(f, w))
    BY <2>1, PtesWritten
  <2> QED
    BY <2>2, Zenon DEF n
<1> HIDE DEF g, f, t, r, p, j
<1>9. Counted(g, t.taken)
  <2>1. /\ \A i \in Pgds : Has1(g, i) <=> Has1(f, i)
        /\ \A i \in Pgds : g[Slot1(i)].page = f[Slot1(i)].page
    BY <1>8, Zenon DEF Has1
  <2>2. /\ {k \in Pgds : Has1(g, k) /\ g[Slot1(k)].page # PgDir + 1}
             = {k \in Pgds : Has1(f, k) /\ f[Slot1(k)].page # PgDir + 1}
        /\ {k \in Pmds : Has2(g, k)} = {k \in Pmds : Has2(f, k)}
    BY <1>8, <2>1, Zenon
  <2>3. Held(g) = Held(f)
    BY <2>2, Zenon DEF Held
  <2> QED
    BY <1>6, <2>3, Zenon DEF Counted
<1>10. r.entry = g /\ r.taken = t.taken /\ r = [taken |-> r.taken, entry |-> r.entry]
  BY <1>7
<1>11. Sound(r)
  BY <1>8, <1>9, <1>10, Zenon DEF Sound
<1>12. \A i \in Pgds : r.entry[Slot1(i)] = m.entry[Slot1(i)]
  BY <1>2, <1>8, <1>10, Zenon
<1>13. \A w \in Ptes : Hit(r.entry, w) = IF w \in x .. y - 1
                                     THEN [page |-> q + (w - x), prot |-> prot]
                                     ELSE Hit(m.entry, w)
  BY <1>2, <1>8, <1>10, Zenon
<1>14. Became(m, r, x, y, q, prot)
  BY <1>11, <1>12, <1>13, Zenon DEF Became
<1> QED
  BY <1>14, Zenon DEF r, p, j

\* The rounds of the two loops.
PteRound(u, k, p, a, pieces, phys, prot) ==
  Tables!AllocInitPte(u, p + k - 1, pieces[k].addr, pieces[k].next, phys + pieces[k].addr - a, prot)
PteRounds(g, n, t, p, a, pieces, phys, prot) ==
  g = [k \in 0 .. n |-> IF k = 0 THEN t ELSE PteRound(g[k - 1], k, p, a, pieces, phys, prot)]
PmdRound(u, k, p, a, pieces, phys, prot) ==
  Tables!AllocInitPmd(u, p + k - 1, pieces[k].addr, pieces[k].next, phys + pieces[k].addr - a, prot)
PmdRounds(g, n, t, p, a, pieces, phys, prot) ==
  g = [k \in 0 .. n |-> IF k = 0 THEN t ELSE PmdRound(g[k - 1], k, p, a, pieces, phys, prot)]

LEMMA PteRoundsExist ==
    ASSUME NEW n \in Nat, NEW t, NEW p, NEW a, NEW pieces, NEW phys, NEW prot
    PROVE  \E g : PteRounds(g, n, t, p, a, pieces, phys, prot)
<1> DEFINE Bad == {k \in Nat : ~ \E g : PteRounds(g, k, t, p, a, pieces, phys, prot)}
           Next1(u, k) == PteRound(u, k, p, a, pieces, phys, prot)
<1> HIDE DEF Next1
<1> SUFFICES ASSUME Bad # {} PROVE FALSE
  OBVIOUS
<1>1. PICK i \in Bad : \A k \in Bad : i <= k
  BY LeastNat
<1>2. CASE i = 0
  <2> DEFINE g == [k \in 0 .. 0 |-> t]
  <2>1. \A k \in 0 .. 0 : k = 0
    OBVIOUS
  <2>2. g = [k \in 0 .. 0 |-> IF k = 0 THEN t ELSE Next1(g[k - 1], k)]
    BY <2>1, Zenon
  <2>3. PteRounds(g, 0, t, p, a, pieces, phys, prot)
    BY <2>2, Zenon DEF PteRounds, Next1
  <2> QED
    BY <1>1, <1>2, <2>3, Zenon
<1>3. CASE i # 0
  <2>1. PICK g : PteRounds(g, i - 1, t, p, a, pieces, phys, prot)
    BY <1>1, <1>3
  <2> DEFINE new == [k \in 0 .. i |-> IF k = i THEN Next1(g[i - 1], i) ELSE g[k]]
  <2>2. \A k \in 0 .. i - 1 : g[k] = IF k = 0 THEN t ELSE Next1(g[k - 1], k)
    BY <2>1, Zenon DEF PteRounds, Next1
  <2>3. ASSUME NEW k \in 0 .. i PROVE new[k] = IF k = 0 THEN t ELSE Next1(new[k - 1], k)
    BY <1>3, <2>2
  <2>4. new = [k \in 0 .. i |-> new[k]]
    OBVIOUS
  <2>5. PteRounds(new, i, t, p, a, pieces, phys, prot)
    <3> HIDE DEF new
    <3> QED
      BY <2>3, <2>4, Zenon DEF PteRounds, Next1
  <2> QED
    BY <1>1, <2>5
<1> QED
  BY <1>2, <1>3

LEMMA PmdRoundsExist ==
    ASSUME NEW n \in Nat, NEW t, NEW p, NEW a, NEW pieces, NEW phys, NEW prot
    PROVE  \E g : PmdRounds(g, n, t, p, a, pieces, phys, prot)
<1> DEFINE Bad == {k \in Nat : ~ \E g : PmdRounds(g, k, t, p, a, pieces, phys, prot)}
           Next1(u, k) == PmdRound(u, k, p, a, pieces, phys, prot)
<1> HIDE DEF Next1
<1> SUFFICES ASSUME Bad # {} PROVE FALSE
  OBVIOUS
<1>1. PICK i \in Bad : \A k \in Bad : i <= k
  BY LeastNat
<1>2. CASE i = 0
  <2> DEFINE g == [k \in 0 .. 0 |-> t]
  <2>1. \A k \in 0 .. 0 : k = 0
    OBVIOUS
  <2>2. g = [k \in 0 .. 0 |-> IF k = 0 THEN t ELSE Next1(g[k - 1], k)]
    BY <2>1, Zenon
  <2>3. PmdRounds(g, 0, t, p, a, pieces, phys, prot)
    BY <2>2, Zenon DEF PmdRounds, Next1
  <2> QED
    BY <1>1, <1>2, <2>3, Zenon
<1>3. CASE i # 0
  <2>1. PICK g : PmdRounds(g, i - 1, t, p, a, pieces, phys, prot)
    BY <1>1, <1>3
  <2> DEFINE new == [k \in 0 .. i |-> IF k = i THEN Next1(g[i - 1], i) ELSE g[k]]
  <2>2. \A k \in 0 .. i - 1 : g[k] = IF k = 0 THEN t ELSE Next1(g[k - 1], k)
    BY <2>1, Zenon DEF PmdRounds, Next1
  <2>3. ASSUME NEW k \in 0 .. i PROVE new[k] = IF k = 0 THEN t ELSE Next1(new[k - 1], k)
    BY <1>3, <2>2
  <2>4. new = [k \in 0 .. i |-> new[k]]
    OBVIOUS
  <2>5. PmdRounds(new, i, t, p, a, pieces, phys, prot)
    <3> HIDE DEF new
    <3> QED
      BY <2>3, <2>4, Zenon DEF PmdRounds, Next1
  <2> QED
    BY <1>1, <2>5
<1> QED
  BY <1>2, <1>3

\* What alloc_init_pmd and __create_pgd_mapping end with.
PmdEnd(m, p, a, b, phys, prot) ==
  LET t == Tables!WithTable(m, p)
      pieces == Tables!Pieces(a, b, Tables!PMD_SIZE)
  IN  Len(pieces) \in Nat =>
        \E g : /\ PteRounds(g, Len(pieces), t, Tables!PmdpFromPgdp(t.entry, p, a), a,
                            pieces, phys, prot)
              /\ Tables!AllocInitPmd(m, p, a, b, phys, prot) = g[Len(pieces)]
PgdEnd(m, c) ==
  LET a == Tables!AlignDown(c.virt, PAGE_SIZE)
      b == Tables!AlignUp(c.virt + c.size, PAGE_SIZE)
      pieces == Tables!Pieces(a, b, Tables!PGDIR_SIZE)
  IN  Len(pieces) \in Nat =>
        \E g : /\ PmdRounds(g, Len(pieces), m, Tables!PgdOffset(c.virt), a, pieces,
                            Tables!AlignDown(c.phys, PAGE_SIZE), c.prot)
              /\ Tables!CreatePgdMapping(m, c) = g[Len(pieces)]

LEMMA PmdAllocated ==
    ASSUME NEW m, NEW p, NEW a, NEW b, NEW phys, NEW prot
    PROVE  PmdEnd(m, p, a, b, phys, prot)
<1> DEFINE t == Tables!WithTable(m, p)
           pieces == Tables!Pieces(a, b, Tables!PMD_SIZE)
           n == Len(pieces)
           first == Tables!PmdpFromPgdp(t.entry, p, a)
           Is(g) == g = [k \in 0 .. n |-> IF k = 0 THEN t
                                          ELSE Tables!AllocInitPte(g[k - 1], first + k - 1,
                                                 pieces[k].addr, pieces[k].next,
                                                 phys + pieces[k].addr - a, prot)]
<1>1. Tables!AllocInitPmd(m, p, a, b, phys, prot) = (CHOOSE g : Is(g))[n]
  BY Zenon DEF Tables!AllocInitPmd
<1>2. \A g : Is(g) <=> PteRounds(g, n, t, first, a, pieces, phys, prot)
  BY Zenon DEF PteRounds, PteRound
<1> HIDE DEF n, pieces, t, first, Is
<1>3. SUFFICES ASSUME n \in Nat
               PROVE  \E g : /\ PteRounds(g, n, t, first, a, pieces, phys, prot)
                             /\ Tables!AllocInitPmd(m, p, a, b, phys, prot) = g[n]
  BY Zenon DEF PmdEnd, n, pieces, t, first
<1>4. \E g : Is(g)
  BY <1>2, <1>3, PteRoundsExist, Zenon
<1>5. Is(CHOOSE g : Is(g))
  BY <1>4, Zenon
<1> QED
  BY <1>1, <1>2, <1>5, Zenon

LEMMA PgdCreated ==
    ASSUME NEW m, NEW c
    PROVE  PgdEnd(m, c)
<1> DEFINE a == Tables!AlignDown(c.virt, PAGE_SIZE)
           b == Tables!AlignUp(c.virt + c.size, PAGE_SIZE)
           phys == Tables!AlignDown(c.phys, PAGE_SIZE)
           pieces == Tables!Pieces(a, b, Tables!PGDIR_SIZE)
           n == Len(pieces)
           first == Tables!PgdOffset(c.virt)
           Is(g) == g = [k \in 0 .. n |-> IF k = 0 THEN m
                                          ELSE Tables!AllocInitPmd(g[k - 1], first + k - 1,
                                                 pieces[k].addr, pieces[k].next,
                                                 phys + pieces[k].addr - a, c.prot)]
<1>1. Tables!CreatePgdMapping(m, c) = (CHOOSE g : Is(g))[n]
  BY Zenon DEF Tables!CreatePgdMapping
<1>2. \A g : Is(g) <=> PmdRounds(g, n, m, first, a, pieces, phys, c.prot)
  BY Zenon DEF PmdRounds, PmdRound
<1> HIDE DEF n, pieces, a, b, phys, first, Is
<1>3. SUFFICES ASSUME n \in Nat
               PROVE  \E g : /\ PmdRounds(g, n, m, first, a, pieces, phys, c.prot)
                             /\ Tables!CreatePgdMapping(m, c) = g[n]
  BY Zenon DEF PgdEnd, n, pieces, a, b, phys, first
<1>4. \E g : Is(g)
  BY <1>2, <1>3, PmdRoundsExist, Zenon
<1>5. Is(CHOOSE g : Is(g))
  BY <1>4, Zenon
<1> QED
  BY <1>1, <1>2, <1>5, Zenon

\* A page that a call maps.
Wanted(w) ==
    /\ w \in Ptes /\ ~InBoot(w \div PTRS)
    /\ <<"pmd", w \div PTRS>> \in Needed /\ <<"pgd", (w \div PTRS) \div PTRS>> \in Needed

\* The numbers of a page by its address.
LEMMA PageNumbers ==
    ASSUME NEW a \in Nat
    PROVE  LET w == a \div PAGE_SIZE
           IN  /\ w \in Nat /\ a \div Tables!PMD_SIZE = w \div PTRS
               /\ a \div Tables!PGDIR_SIZE = (w \div PTRS) \div PTRS
               /\ Tables!Index(a, PAGE_SIZE) = w % PTRS
               /\ Tables!Index(a, Tables!PMD_SIZE) = (w \div PTRS) % PTRS
               /\ Tables!Index(a, Tables!PGDIR_SIZE) = ((w \div PTRS) \div PTRS) % PTRS
               /\ a % Tables!PMD_SIZE = (w % PTRS) * PAGE_SIZE + (a % PAGE_SIZE)
<1> DEFINE w == a \div PAGE_SIZE
<1>1. PAGE_SIZE \in Nat /\ PAGE_SIZE >= 1 /\ PTRS \in Nat /\ PTRS >= 1
  BY TableNumbers
<1>2. Tables!PMD_SIZE \in Nat /\ Tables!PMD_SIZE >= 1
  BY TableNumbers
<1>3. Nests(a, PAGE_SIZE, PTRS)
  BY <1>1, DividedTwice
<1>4. a \div Tables!PMD_SIZE = w \div PTRS /\ a % Tables!PMD_SIZE = (w % PTRS) * PAGE_SIZE + (a % PAGE_SIZE)
  BY <1>3, Zenon DEF Nests, Tables!PMD_SIZE
<1>5. Nests(a, Tables!PMD_SIZE, PTRS)
  BY <1>1, <1>2, DividedTwice
<1>6. a \div Tables!PGDIR_SIZE = (a \div Tables!PMD_SIZE) \div PTRS
  BY <1>5, Zenon DEF Nests, Tables!PGDIR_SIZE
<1>7. w \in Nat
  BY <1>1
<1> QED
  BY <1>4, <1>6, <1>7, Zenon DEF Tables!Index

LEMMA PmdBecomes ==
    ASSUME NEW m, Sound(m), NEW x \in Nat, NEW y \in Nat, x < y,
           \A w \in x .. y - 1 : Wanted(w),
           ((y - 1) \div PTRS) \div PTRS = (x \div PTRS) \div PTRS,
           NEW q \in Nat, NEW prot, IsLeaf(prot)
    PROVE  Became(m, Tables!AllocInitPmd(m, Slot1((x \div PTRS) \div PTRS), x * PAGE_SIZE,
                                         y * PAGE_SIZE, q * PAGE_SIZE, prot), x, y, q, prot)
<1> DEFINE P1 == PAGE_SIZE
           j0 == x \div PTRS
           i == j0 \div PTRS
           t == Tables!WithTable(m, Slot1(i))
           first == Tables!PmdpFromPgdp(t.entry, Slot1(i), x * P1)
           n == Cuts(x, y, PTRS)
           pieces == Tables!Pieces(x * P1, y * P1, Tables!PMD_SIZE)
           r == Tables!AllocInitPmd(m, Slot1(i), x * P1, y * P1, q * P1, prot)
           E(k) == IF k = 0 THEN x ELSE Slice(x, y, PTRS, k).next
<1>1. P1 \in Nat /\ P1 >= 1 /\ PTRS \in Nat /\ PTRS >= 1
  BY TableNumbers
<1>2. Wanted(x)
  <2>1. x \in x .. y - 1
    OBVIOUS
  <2> QED
    BY <2>1, Zenon
<1>3. j0 \in Pmds /\ i \in Pgds /\ j0 \in Nat /\ <<"pgd", i>> \in Needed
  BY <1>2, NumbersNest, Zenon DEF Wanted
<1>4. /\ Sound(t) /\ Has1(t.entry, i) /\ Became(m, t, x, x, q, prot)
  <2>1. /\ Sound(t) /\ Has1(t.entry, i)
        /\ \A k \in Pgds : Has1(m.entry, k) => t.entry[Slot1(k)] = m.entry[Slot1(k)]
        /\ \A w \in Ptes : Hit(t.entry, w) = Hit(m.entry, w)
    <3> HIDE DEF i, j0
    <3> QED
      BY <1>3, PgdEnsured
  <2> HIDE DEF i, j0, t
  <2>2. x \in Int
    OBVIOUS
  <2> QED
    BY <2>1, <2>2, BecameSame, Zenon
<1>5. first = Slot2(t.entry, j0)
  <2>1. x * P1 \in Nat /\ (x * P1) \div P1 = x
    BY <1>1, DividedNext
  <2>2. Tables!Index(x * P1, Tables!PMD_SIZE) = j0 % PTRS
    <3> DEFINE a == x * P1
    <3>1. a \in Nat /\ a \div PAGE_SIZE = x
      BY <2>1
    <3> HIDE DEF a
    <3>2. Tables!Index(a, Tables!PMD_SIZE) = ((a \div PAGE_SIZE) \div PTRS) % PTRS
      BY <3>1, PageNumbers
    <3> QED
      BY <3>1, <3>2 DEF a
  <2> QED
    BY <2>2, Zenon DEF Tables!PmdpFromPgdp, Slot2
<1>6. /\ Len(pieces) = n /\ n \in Nat /\ n >= 1
      /\ \A k \in 1 .. n : /\ pieces[k].addr = Slice(x, y, PTRS, k).addr * P1
                           /\ pieces[k].next = Slice(x, y, PTRS, k).next * P1
  BY <1>1, Scaled DEF Tables!PMD_SIZE
<1>7. PICK g : /\ PteRounds(g, n, t, first, x * P1, pieces, q * P1, prot)
               /\ r = g[n]
  <2>1. Len(pieces) \in Nat
    BY <1>6
  <2>2. \E g : /\ PteRounds(g, Len(pieces), t, first, x * P1, pieces, q * P1, prot)
               /\ r = g[Len(pieces)]
    <3>1. PmdEnd(m, Slot1(i), x * P1, y * P1, q * P1, prot)
      BY PmdAllocated, Zenon
    <3> QED
      BY <2>1, <3>1, Zenon DEF PmdEnd
  <2> QED
    BY <1>6, <2>2, Zenon
<1>8. /\ g[0] = t
      /\ \A k \in 1 .. n : g[k] = PteRound(g[k - 1], k, first, x * P1, pieces, q * P1, prot)
  <2>1. \A k \in 0 .. n : g[k] = IF k = 0 THEN t
                                 ELSE PteRound(g[k - 1], k, first, x * P1, pieces, q * P1, prot)
    BY <1>7, Zenon DEF PteRounds
  <2>2. 0 \in 0 .. n /\ \A k \in 1 .. n : k \in 0 .. n /\ k # 0
    BY <1>6
  <2> QED
    BY <2>1, <2>2, Zenon
<1> HIDE DEF pieces, t, first, r
<1>9. ASSUME NEW k \in 1 .. n, Became(t, g[k - 1], x, E(k - 1), q, prot)
      PROVE  Became(t, g[k], x, E(k), q, prot)
  <2> DEFINE lo == Slice(x, y, PTRS, k).addr
             hi == Slice(x, y, PTRS, k).next
             u == g[k - 1]
             j == lo \div PTRS
  <2>1. /\ lo \in Nat /\ hi \in Nat /\ x <= lo /\ lo < hi /\ hi <= y
        /\ j = j0 + k - 1 /\ (hi - 1) \div PTRS = j0 + k - 1
        /\ k = 1 => lo = x
        /\ k > 1 => lo = Slice(x, y, PTRS, k - 1).next
    <3> HIDE DEF n
    <3> QED
      BY <1>1, SliceIs DEF n
  <2>2. E(k - 1) = lo /\ E(k) = hi
    <3>1. k \in Nat /\ k # 0
      BY <1>6
    <3>2. E(k) = hi
      BY <3>1, Zenon
    <3>3. k = 1 => E(k - 1) = lo
      BY <2>1
    <3>4. k # 1 => E(k - 1) = lo
      <4>1. k # 1 => k - 1 # 0 /\ k > 1
        BY <3>1
      <4> HIDE DEF lo
      <4> QED
        BY <2>1, <4>1, Zenon
    <3> QED
      BY <3>2, <3>3, <3>4
  <2>3. (y - 1) \div PTRS \in Nat /\ j \in Nat /\ j0 <= j /\ j <= (y - 1) \div PTRS
    <3>1. (y - 1) \div PTRS \in Nat
      BY <1>1
    <3>2. n = (y - 1) \div PTRS - j0 + 1
      BY Zenon DEF Cuts
    <3> HIDE DEF n, j0, lo, hi
    <3> QED
      BY <1>3, <1>6, <2>1, <3>1, <3>2
  <2>4. j \div PTRS = i /\ j % PTRS = (j0 % PTRS) + (k - 1)
    <3> DEFINE z == (y - 1) \div PTRS
    <3>1. z \in Nat /\ j \in Nat /\ j0 \in Nat /\ j0 <= j /\ j <= z /\ j0 \div PTRS = z \div PTRS
      BY <1>3, <2>3, Zenon
    <3>2. j - j0 = k - 1
      <4> HIDE DEF j, j0
      <4> QED
        BY <1>3, <2>1, <2>3
    <3> HIDE DEF j, j0, z
    <3>3. j \div PTRS = j0 \div PTRS /\ j % PTRS = (j0 % PTRS) + (j - j0)
      BY <1>1, <3>1, SameTable
    <3> QED
      BY <3>2, <3>3 DEF j0
  <2>5. /\ Sound(u) /\ u.entry[Slot1(i)] = t.entry[Slot1(i)] /\ Has1(u.entry, i)
    BY <1>3, <1>4, <1>9, Zenon DEF Became, Has1
  <2>6. Slot2(u.entry, j) = first + k - 1
    <3>1. Slot2(u.entry, j) = Tables!At(t.entry[Slot1(i)].page, (j0 % PTRS) + (k - 1))
      BY <2>4, <2>5, Zenon DEF Slot2
    <3>2. first = Tables!At(t.entry[Slot1(i)].page, j0 % PTRS)
      BY <1>5, Zenon DEF Slot2
    <3>3. t.entry[Slot1(i)].page \in Nat
      <4>1. Typed(t.entry, t.taken)
        BY <1>4, Zenon DEF Sound, Tree
      <4>2. t.entry[Slot1(i)].page \in Pool(t.taken) /\ t.taken \in 0 .. Len(FreePages)
        BY <1>3, <1>4, <4>1, Zenon DEF Typed, IsTable
      <4> QED
        BY <4>2, PoolIs, Zenon
    <3>4. j0 % PTRS \in Nat
      BY <1>1, <1>3
    <3> DEFINE c == t.entry[Slot1(i)].page
               b == j0 % PTRS
    <3>5. c * PTRS \in Nat /\ b \in Nat
      BY <1>1, <3>3, <3>4
    <3> HIDE DEF c, b
    <3>6. c * PTRS + (b + (k - 1)) = (c * PTRS + b) + k - 1
      BY <3>5
    <3> QED
      BY <3>1, <3>2, <3>6, Zenon DEF Tables!At, c, b
  <2>7. Wanted(lo)
    <3>1. lo \in x .. y - 1
      BY <2>1
    <3> QED
      BY <3>1, Zenon
  <2>8. g[k] = Tables!AllocInitPte(u, Slot2(u.entry, j), lo * P1, hi * P1, (q + (lo - x)) * P1, prot)
    <3>1. g[k] = Tables!AllocInitPte(u, first + k - 1, pieces[k].addr, pieces[k].next,
                                     q * P1 + pieces[k].addr - x * P1, prot)
      BY <1>8, Zenon DEF PteRound
    <3>2. pieces[k].addr = lo * P1 /\ pieces[k].next = hi * P1
      BY <1>6, Zenon
    <3>3. q * P1 + lo * P1 - x * P1 = (q + (lo - x)) * P1
      <4>1. lo \in Int /\ q \in Int /\ x \in Int /\ P1 \in Int
        BY <1>1, <2>1
      <4> HIDE DEF lo, P1
      <4> QED
        BY <4>1
    <3> HIDE DEF lo, hi, u, j, P1
    <3> QED
      BY <2>6, <3>1, <3>2, <3>3, Zenon
  <2>9. Became(u, g[k], lo, hi, q + (lo - x), prot)
    <3>1. lo \in Ptes /\ ~InBoot(j) /\ <<"pmd", j>> \in Needed
      BY <2>7, Zenon DEF Wanted
    <3>2. (hi - 1) \div PTRS = j /\ Has1(u.entry, j \div PTRS) /\ q + (lo - x) \in Nat
      <4>1. (hi - 1) \div PTRS = j /\ Has1(u.entry, j \div PTRS)
        BY <2>1, <2>4, <2>5, Zenon
      <4>2. q + (lo - x) \in Nat
        <5> HIDE DEF lo, hi
        <5> QED
          BY <2>1
      <4> QED
        BY <4>1, <4>2
    <3>3. lo \in Nat /\ hi \in Nat /\ lo < hi
      BY <2>1
    <3> DEFINE qq == q + (lo - x)
    <3> HIDE DEF u, lo, hi, qq
    <3>4. Became(u, Tables!AllocInitPte(u, Slot2(u.entry, j), lo * PAGE_SIZE, hi * PAGE_SIZE,
                                        qq * PAGE_SIZE, prot), lo, hi, qq, prot)
      BY <2>5, <3>1, <3>2, <3>3, PtesBecome DEF qq
    <3> QED
      BY <2>8, <3>4, Zenon DEF qq
  <2>10. Became(t, u, x, lo, q, prot)
    BY <1>9, <2>2, Zenon
  <2>11. x \in Int /\ lo \in Int /\ hi \in Int /\ x <= lo /\ lo <= hi /\ q \in Int
    BY <2>1
  <2> HIDE DEF lo, hi, u, E
  <2>12. Became(t, g[k], x, hi, q, prot)
    BY <2>9, <2>10, <2>11, BecameJoin, Zenon
  <2> QED
    BY <2>2, <2>12, Zenon
<1>10. Became(t, t, x, x, q, prot)
  BY <1>4, BecameSame
<1> DEFINE Bad == {k \in Nat : k \in 0 .. n /\ ~Became(t, g[k], x, E(k), q, prot)}
<1>11. ASSUME Bad # {} PROVE FALSE
  <2>1. PICK k \in Bad : \A l \in Bad : k <= l
    <3>1. Bad \in SUBSET Nat
      OBVIOUS
    <3> HIDE DEF Bad
    <3> QED
      BY <1>11, <3>1, LeastNat
  <2>2. k # 0
    <3>1. Became(t, g[0], x, E(0), q, prot)
      BY <1>8, <1>10, Zenon
    <3> QED
      BY <2>1, <3>1
  <2> HIDE DEF E, n
  <2>3. k \in 1 .. n /\ k - 1 \in Nat /\ k - 1 \in 0 .. n /\ ~(k <= k - 1)
    BY <1>6, <2>1, <2>2
  <2>4. Became(t, g[k - 1], x, E(k - 1), q, prot)
    <3>1. k - 1 \notin Bad
      <4> HIDE DEF Bad
      <4> QED
        BY <2>1, <2>3
    <3> QED
      BY <2>3, <3>1, Zenon
  <2> QED
    BY <1>9, <2>1, <2>3, <2>4
<1>12. Became(t, g[n], x, E(n), q, prot)
  BY <1>6, <1>11
<1>13. E(n) = y
  <2>1. n \in 1 .. n /\ n # 0
    BY <1>6
  <2>2. Slice(x, y, PTRS, n).next = y
    BY <1>1, <2>1, SliceIs
  <2> QED
    BY <2>1, <2>2
<1>14. Became(t, r, x, y, q, prot)
  BY <1>7, <1>12, <1>13
<1>15. Became(m, r, x, y, q, prot)
  <2>1. x \in Int /\ y \in Int /\ q \in Int /\ x <= x /\ x <= y /\ q = q + (x - x)
    OBVIOUS
  <2> QED
    BY <1>4, <1>14, <2>1, BecameJoin, Zenon
<1> QED
  BY <1>15, Zenon DEF r

\* The call c in pages: those it maps, and what to.
FirstPage(c) == c.virt \div PAGE_SIZE
PastPage(c) == (c.virt + c.size + PAGE_SIZE - 1) \div PAGE_SIZE
ToPage(c) == c.phys \div PAGE_SIZE

LEMMA CallInPages ==
    ASSUME NEW c, c.virt \in Nat, c.phys \in Nat, c.size \in Nat, c.size > 0
    PROVE  /\ FirstPage(c) \in Nat /\ PastPage(c) \in Nat /\ ToPage(c) \in Nat
           /\ FirstPage(c) < PastPage(c)
           /\ Tables!AlignDown(c.virt, PAGE_SIZE) = FirstPage(c) * PAGE_SIZE
           /\ Tables!AlignUp(c.virt + c.size, PAGE_SIZE) = PastPage(c) * PAGE_SIZE
           /\ Tables!AlignDown(c.phys, PAGE_SIZE) = ToPage(c) * PAGE_SIZE
           /\ \A va \in Nat : va \in Tables!Covered(c)
                                <=> va \div PAGE_SIZE \in FirstPage(c) .. PastPage(c) - 1
<1> DEFINE p == PAGE_SIZE
           v == c.virt
           s == c.size
           x == FirstPage(c)
           y == PastPage(c)
<1>1. p \in Nat /\ p >= 1 /\ v \in Nat /\ s \in Nat /\ s >= 1
  BY TableNumbers
<1>2. x = v \div p /\ y = (v + s + p - 1) \div p
  BY DEF FirstPage, PastPage
<1>3. x \in Nat /\ y \in Nat /\ ToPage(c) \in Nat
  <2>1. \A a \in Nat : a \div p \in Nat
    BY <1>1
  <2> HIDE DEF p, v, s
  <2>2. v + s + p - 1 \in Nat
    BY <1>1
  <2>3. c.phys \in Nat
    OBVIOUS
  <2> QED
    BY <1>1, <1>2, <2>1, <2>2, <2>3 DEF ToPage, p
<1>4. x < y
  <2> HIDE DEF p, v, s, x, y
  <2> DEFINE a == v + s + p - 1
  <2>1. a \in Nat /\ x \in Int /\ x + 1 \in Int
    BY <1>1, <1>3
  <2>2. v >= x * p
    BY <1>1, <1>2, <2>1, DividedBelow
  <2>3. x * p \in Int /\ (x + 1) * p = x * p + p
    BY <1>1, <1>3
  <2>4. a >= (x + 1) * p
    BY <1>1, <2>2, <2>3
  <2>5. a \div p >= x + 1
    <3> HIDE DEF a
    <3> QED
      BY <1>1, <2>1, <2>4, DividedBelow
  <2> QED
    BY <1>2, <1>3, <2>5
<1>5. /\ Tables!AlignDown(c.virt, PAGE_SIZE) = x * PAGE_SIZE
      /\ Tables!AlignDown(c.phys, PAGE_SIZE) = ToPage(c) * PAGE_SIZE
      /\ Tables!AlignUp(c.virt + c.size, PAGE_SIZE) = y * PAGE_SIZE
  BY Zenon DEF Tables!AlignDown, Tables!AlignUp, FirstPage, PastPage, ToPage
<1>6. ASSUME NEW va \in Nat PROVE va \in Tables!Covered(c) <=> va \div p \in x .. y - 1
  <2>1. va \in Tables!Covered(c) <=> va \in x * p .. y * p - 1
    BY <1>5, Zenon DEF Tables!Covered
  <2> HIDE DEF p, x, y
  <2>2. x \in Int /\ y \in Int /\ x * p \in Int /\ y * p \in Int
    BY <1>1, <1>3
  <2>3. (va \div p < y <=> va < y * p) /\ (va \div p >= x <=> va >= x * p)
    BY <1>1, <2>2, DividedBelow
  <2>4. va \div p \in Int
    BY <1>1
  <2> QED
    BY <2>1, <2>2, <2>3, <2>4
<1> QED
  BY <1>3, <1>4, <1>5, <1>6, Zenon

\* The section part of the address space, in entries of the second level.
LEMMA BootNumbers ==
    /\ Tables!BootStart \in Nat /\ Tables!BootEnd \in Nat
    /\ \A a \in Nat : InRange(a \div Tables!PMD_SIZE) <=> a \in Tables!BootStart .. Tables!BootEnd - 1
<1> DEFINE M == Tables!PMD_SIZE
           b == TextBoot * PAGE_SIZE
           e == DdrEnd * PAGE_SIZE + M - 1
           s == b \div M
           t == e \div M
<1>1. /\ M \in Nat /\ M >= 1 /\ b \in Nat /\ e \in Nat
  <2>1. /\ M \in Nat /\ M >= 1 /\ TextBoot \in Nat /\ DdrEnd \in Nat
        /\ PAGE_SIZE \in Nat
    BY TableNumbers
  <2>2. TextBoot * PAGE_SIZE \in Nat /\ DdrEnd * PAGE_SIZE \in Nat
    BY <2>1
  <2> QED
    BY <2>1, <2>2
<1>2. Tables!BootStart = s * M /\ Tables!BootEnd = t * M
  BY Zenon DEF Tables!BootStart, Tables!BootEnd, Tables!AlignDown, Tables!AlignUp
<1> HIDE DEF b, e, M
<1>3. s \in Nat /\ t \in Nat
  BY <1>1
<1> HIDE DEF s, t
<1>4. /\ s * M \in Nat /\ (s * M) \div M = s /\ t * M \in Nat /\ (t * M) \div M = t
  BY <1>1, <1>3, DividedNext
<1>5. ASSUME NEW a \in Nat PROVE a \div M \in s .. t - 1 <=> a \in s * M .. t * M - 1
  <2>1. s \in Int /\ t \in Int
    BY <1>3
  <2>2. (a \div M < t <=> a < t * M) /\ (a \div M >= s <=> a >= s * M)
    BY <1>1, <2>1, DividedBelow
  <2>3. a \div M \in Int
    BY <1>1
  <2> QED
    BY <1>4, <2>1, <2>2, <2>3
<1>6. \A a \in Nat : InRange(a \div M) <=> a \div M \in s .. t - 1
  BY <1>2, <1>4, Zenon DEF InRange, M
<1> QED
  BY <1>2, <1>4, <1>5, <1>6, Zenon DEF M

LEMMA CallIsWanted ==
    ASSUME NEW c \in Tables!Requested
    PROVE  /\ c.virt \in Nat /\ c.phys \in Nat /\ c.size \in Nat /\ c.size > 0 /\ IsLeaf(c.prot)
           /\ \A w \in FirstPage(c) .. PastPage(c) - 1 : Wanted(w)
<1>1. /\ c.virt \in Nat /\ c.phys \in Nat /\ c.size \in Nat /\ c.size > 0 /\ IsLeaf(c.prot)
      /\ Tables!Covered(c) \subseteq 0 .. Tables!VaEnd - 1
      /\ c \in Mappings
  BY TablesAssumption DEF IsLeaf, Tables!Requested
<1>2. PAGE_SIZE \in Nat /\ PAGE_SIZE >= 1 /\ PTRS \in Nat /\ PTRS >= 1
      /\ Tables!PGDIR_SIZE \in Nat /\ Tables!PGDIR_SIZE >= 1
  BY TableNumbers
<1>3. ASSUME NEW w \in FirstPage(c) .. PastPage(c) - 1 PROVE Wanted(w)
  <2> DEFINE va == w * PAGE_SIZE
             j == w \div PTRS
             i == j \div PTRS
  <2>1. FirstPage(c) \in Nat /\ PastPage(c) \in Nat
    BY <1>1, CallInPages
  <2>2. w \in Nat
    BY <2>1
  <2>3. va \in Nat /\ va \div PAGE_SIZE = w
    BY <1>2, <2>2, DividedNext
  <2>4. va \in Tables!Covered(c)
    BY <1>1, <2>3, CallInPages, Zenon
  <2>5. va \div Tables!PMD_SIZE = j /\ va \div Tables!PGDIR_SIZE = i
    <3> HIDE DEF va
    <3> QED
      BY <2>3, PageNumbers
  <2>6. <<"pmd", j>> \in Needed /\ <<"pgd", i>> \in Needed
    <3> DEFINE spanned == UNION {Tables!Covered(d) : d \in Mappings}
    <3>1. va \in spanned
      BY <1>1, <2>4, Zenon
    <3>2. Needed = {<<"pgd", a \div Tables!PGDIR_SIZE>> : a \in spanned}
                      \cup {<<"pmd", a \div Tables!PMD_SIZE>> : a \in spanned}
      BY Zenon DEF Needed
    <3> HIDE DEF spanned, va, i, j
    <3> QED
      BY <2>5, <3>1, <3>2, Zenon
  <2>7. ~InBoot(j)
    <3>1. Tables!Kernel => va \notin Tables!BootStart .. Tables!BootEnd - 1
      <4> HIDE DEF va
      <4> QED
        BY <2>4 DEF Tables!Requested
    <3>2. InRange(j) => va \in Tables!BootStart .. Tables!BootEnd - 1
      BY <2>3, <2>5, BootNumbers, Zenon
    <3> QED
      BY <3>1, <3>2, Zenon DEF InBoot
  <2>8. w \in Ptes
    <3>1. va < PTRS * Tables!PGDIR_SIZE
      <4>1. va \in 0 .. Tables!VaEnd - 1
        BY <1>1, <2>4, Zenon
      <4>2. Tables!VaEnd = PTRS * Tables!PGDIR_SIZE /\ Tables!VaEnd \in Nat
        BY <1>2, TableNumbers DEF Tables!VaEnd
      <4> HIDE DEF va
      <4> QED
        BY <4>1, <4>2
    <3>2. i < PTRS
      <4>1. PTRS \in Int
        BY <1>2
      <4>2. va \div Tables!PGDIR_SIZE < PTRS <=> va < PTRS * Tables!PGDIR_SIZE
        <5> HIDE DEF va
        <5> QED
          BY <1>2, <2>3, <4>1, DividedBelow
      <4> QED
        BY <2>5, <3>1, <4>2, Zenon
    <3>3. j \in Nat /\ i \in Nat
      BY <1>2, <2>2
    <3> HIDE DEF i, j
    <3>4. i \in Pgds
      BY <1>2, <3>2, <3>3 DEF Pgds
    <3> QED
      BY <2>2, <3>3, <3>4, Zenon DEF Ptes, Pmds, i, j
  <2> QED
    BY <2>6, <2>7, <2>8, Zenon DEF Wanted
<1> QED
  BY <1>1, <1>3, Zenon

LEMMA PgdBecomes ==
    ASSUME NEW m, Sound(m), NEW c \in Tables!Requested
    PROVE  Became(m, Tables!CreatePgdMapping(m, c), FirstPage(c), PastPage(c), ToPage(c), c.prot)
<1> DEFINE x == FirstPage(c)
           y == PastPage(c)
           q == ToPage(c)
           B == PTRS * PTRS
           i0 == x \div B
           first == Tables!PgdOffset(c.virt)
           n == Cuts(x, y, B)
           pieces == Tables!Pieces(x * PAGE_SIZE, y * PAGE_SIZE, Tables!PGDIR_SIZE)
           r == Tables!CreatePgdMapping(m, c)
           E(k) == IF k = 0 THEN x ELSE Slice(x, y, B, k).next
<1>1. PAGE_SIZE \in Nat /\ PAGE_SIZE >= 1 /\ PTRS \in Nat /\ PTRS >= 1 /\ B \in Nat /\ B >= 1
  BY TableNumbers
<1>2. /\ c.virt \in Nat /\ x \in Nat /\ y \in Nat /\ q \in Nat /\ x < y /\ IsLeaf(c.prot)
      /\ \A w \in x .. y - 1 : Wanted(w)
      /\ Tables!AlignDown(c.virt, PAGE_SIZE) = x * PAGE_SIZE
      /\ Tables!AlignUp(c.virt + c.size, PAGE_SIZE) = y * PAGE_SIZE
      /\ Tables!AlignDown(c.phys, PAGE_SIZE) = q * PAGE_SIZE
  BY CallIsWanted, CallInPages
<1>3. ASSUME NEW w \in Nat PROVE w \div B = (w \div PTRS) \div PTRS
  <2>1. Nests(w, PTRS, PTRS)
    BY <1>1, DividedTwice
  <2> QED
    BY <2>1, Zenon DEF Nests
<1>4. i0 \in Pgds /\ i0 \in Nat /\ first = Slot1(i0)
  <2>1. x \in x .. y - 1
    BY <1>2
  <2>2. i0 \in Pgds
    <3>1. x \in Ptes
      BY <1>2, <2>1, Zenon DEF Wanted
    <3> QED
      BY <1>2, <1>3, <3>1, NumbersNest, Zenon
  <2>3. i0 % PTRS = i0 /\ i0 \in Nat
    <3> HIDE DEF i0
    <3> QED
      BY <1>1, <2>2 DEF Pgds
  <2>4. Tables!Index(c.virt, Tables!PGDIR_SIZE) = ((x \div PTRS) \div PTRS) % PTRS
    BY <1>2, PageNumbers, Zenon DEF FirstPage
  <2>5. i0 = (x \div PTRS) \div PTRS
    BY <1>2, <1>3, Zenon
  <2> QED
    BY <2>2, <2>3, <2>4, <2>5, Zenon DEF Tables!PgdOffset, Slot1
<1>5. /\ Len(pieces) = n /\ n \in Nat /\ n >= 1
      /\ \A k \in 1 .. n : /\ pieces[k].addr = Slice(x, y, B, k).addr * PAGE_SIZE
                           /\ pieces[k].next = Slice(x, y, B, k).next * PAGE_SIZE
  <2>1. Tables!PGDIR_SIZE = PAGE_SIZE * B
    BY <1>1 DEF Tables!PGDIR_SIZE, Tables!PMD_SIZE
  <2> HIDE DEF x, y, B
  <2> QED
    BY <1>1, <1>2, <2>1, Scaled
<1>6. PICK g : /\ PmdRounds(g, n, m, first, x * PAGE_SIZE, pieces, q * PAGE_SIZE, c.prot)
               /\ r = g[n]
  <2>1. Len(pieces) \in Nat
    BY <1>5
  <2>2. PgdEnd(m, c)
    BY PgdCreated, Zenon
  <2>3. \E g : /\ PmdRounds(g, Len(pieces), m, first, x * PAGE_SIZE, pieces, q * PAGE_SIZE, c.prot)
               /\ r = g[Len(pieces)]
    BY <1>2, <2>1, <2>2, Zenon DEF PgdEnd
  <2> QED
    BY <1>5, <2>3, Zenon
<1>7. /\ g[0] = m
      /\ \A k \in 1 .. n : g[k] = PmdRound(g[k - 1], k, first, x * PAGE_SIZE, pieces,
                                           q * PAGE_SIZE, c.prot)
  <2>1. \A k \in 0 .. n : g[k] = IF k = 0 THEN m
                                 ELSE PmdRound(g[k - 1], k, first, x * PAGE_SIZE, pieces,
                                               q * PAGE_SIZE, c.prot)
    BY <1>6, Zenon DEF PmdRounds
  <2>2. 0 \in 0 .. n /\ \A k \in 1 .. n : k \in 0 .. n /\ k # 0
    BY <1>5
  <2> QED
    BY <2>1, <2>2, Zenon
<1> HIDE DEF pieces, first, r, x, y, q, B
<1>8. ASSUME NEW k \in 1 .. n, Became(m, g[k - 1], x, E(k - 1), q, c.prot)
      PROVE  Became(m, g[k], x, E(k), q, c.prot)
  <2> DEFINE lo == Slice(x, y, B, k).addr
             hi == Slice(x, y, B, k).next
             u == g[k - 1]
             i == (lo \div PTRS) \div PTRS
  <2>1. /\ lo \in Nat /\ hi \in Nat /\ x <= lo /\ lo < hi /\ hi <= y
        /\ lo \div B = i0 + k - 1 /\ (hi - 1) \div B = i0 + k - 1
        /\ k = 1 => lo = x
        /\ k > 1 => lo = Slice(x, y, B, k - 1).next
    <3> HIDE DEF n
    <3> QED
      BY <1>1, <1>2, SliceIs DEF n
  <2>2. E(k - 1) = lo /\ E(k) = hi
    <3>1. k \in Nat /\ k # 0
      BY <1>5
    <3>2. E(k) = hi
      BY <3>1, Zenon
    <3>3. k = 1 => E(k - 1) = lo
      BY <2>1
    <3>4. k # 1 => E(k - 1) = lo
      <4>1. k # 1 => k - 1 # 0 /\ k > 1
        BY <3>1
      <4> HIDE DEF lo
      <4> QED
        BY <2>1, <4>1, Zenon
    <3> QED
      BY <3>2, <3>3, <3>4
  <2>3. i = i0 + k - 1 /\ ((hi - 1) \div PTRS) \div PTRS = i
    <3>1. hi - 1 \in Nat
      <4> HIDE DEF lo, hi
      <4> QED
        BY <2>1
    <3>2. lo \div B = i /\ (hi - 1) \div B = ((hi - 1) \div PTRS) \div PTRS
      BY <1>3, <2>1, <3>1, Zenon
    <3> QED
      BY <2>1, <3>2, Zenon
  <2>4. Slot1(i) = first + k - 1
    <3>1. PgDir * PTRS \in Nat
      BY <1>1, TableNumbers
    <3> HIDE DEF i, i0
    <3>2. PgDir * PTRS + i = (PgDir * PTRS + i0) + k - 1
      BY <1>4, <2>3, <3>1
    <3> QED
      BY <1>4, <3>2, Zenon DEF Slot1, Tables!At
  <2>5. g[k] = Tables!AllocInitPmd(u, Slot1(i), lo * PAGE_SIZE, hi * PAGE_SIZE,
                                   (q + (lo - x)) * PAGE_SIZE, c.prot)
    <3>1. g[k] = Tables!AllocInitPmd(u, first + k - 1, pieces[k].addr, pieces[k].next,
                                     q * PAGE_SIZE + pieces[k].addr - x * PAGE_SIZE, c.prot)
      BY <1>7, Zenon DEF PmdRound
    <3>2. pieces[k].addr = lo * PAGE_SIZE /\ pieces[k].next = hi * PAGE_SIZE
      BY <1>5, Zenon
    <3>3. q * PAGE_SIZE + lo * PAGE_SIZE - x * PAGE_SIZE = (q + (lo - x)) * PAGE_SIZE
      <4>1. lo \in Int /\ q \in Int /\ x \in Int /\ PAGE_SIZE \in Int
        BY <1>1, <1>2, <2>1
      <4> HIDE DEF lo
      <4> QED
        BY <4>1
    <3> HIDE DEF lo, hi, u, i
    <3> QED
      BY <2>4, <3>1, <3>2, <3>3, Zenon
  <2>6. Became(u, g[k], lo, hi, q + (lo - x), c.prot)
    <3>1. q + (lo - x) \in Nat /\ \A w \in lo .. hi - 1 : w \in x .. y - 1
      <4> HIDE DEF lo, hi
      <4> QED
        BY <1>2, <2>1
    <3>2. \A w \in lo .. hi - 1 : Wanted(w)
      BY <1>2, <3>1, Zenon
    <3>3. Sound(u)
      BY <1>8, Zenon DEF Became
    <3> DEFINE qq == q + (lo - x)
               p == c.prot
    <3>4. lo \in Nat /\ hi \in Nat /\ lo < hi /\ IsLeaf(p)
          /\ ((hi - 1) \div PTRS) \div PTRS = (lo \div PTRS) \div PTRS
      BY <1>2, <2>1, <2>3, Zenon
    <3> HIDE DEF u, lo, hi, qq, p
    <3>5. Became(u, Tables!AllocInitPmd(u, Slot1((lo \div PTRS) \div PTRS), lo * PAGE_SIZE,
                                        hi * PAGE_SIZE, qq * PAGE_SIZE, p), lo, hi, qq, p)
      BY <3>1, <3>2, <3>3, <3>4, PmdBecomes DEF qq
    <3> QED
      BY <2>5, <3>5, Zenon DEF qq, p
  <2>7. Became(m, u, x, lo, q, c.prot)
    BY <1>8, <2>2, Zenon
  <2>8. x \in Int /\ lo \in Int /\ hi \in Int /\ x <= lo /\ lo <= hi /\ q \in Int
    BY <1>2, <2>1
  <2> HIDE DEF lo, hi, u, E
  <2>9. Became(m, g[k], x, hi, q, c.prot)
    BY <2>6, <2>7, <2>8, BecameJoin, Zenon
  <2> QED
    BY <2>2, <2>9, Zenon
<1>9. Became(m, m, x, x, q, c.prot)
  BY <1>2, BecameSame
<1> DEFINE Bad == {k \in Nat : k \in 0 .. n /\ ~Became(m, g[k], x, E(k), q, c.prot)}
<1>10. ASSUME Bad # {} PROVE FALSE
  <2>1. PICK k \in Bad : \A l \in Bad : k <= l
    <3>1. Bad \in SUBSET Nat
      OBVIOUS
    <3> HIDE DEF Bad
    <3> QED
      BY <1>10, <3>1, LeastNat
  <2>2. k # 0
    <3>1. Became(m, g[0], x, E(0), q, c.prot)
      BY <1>7, <1>9, Zenon
    <3> QED
      BY <2>1, <3>1
  <2> HIDE DEF E, n
  <2>3. k \in 1 .. n /\ k - 1 \in Nat /\ k - 1 \in 0 .. n /\ ~(k <= k - 1)
    BY <1>5, <2>1, <2>2
  <2>4. Became(m, g[k - 1], x, E(k - 1), q, c.prot)
    <3>1. k - 1 \notin Bad
      <4> HIDE DEF Bad
      <4> QED
        BY <2>1, <2>3
    <3> QED
      BY <2>3, <3>1, Zenon
  <2> QED
    BY <1>8, <2>1, <2>3, <2>4
<1>11. Became(m, g[n], x, E(n), q, c.prot)
  BY <1>5, <1>10
<1>12. E(n) = y
  <2>1. n \in 1 .. n /\ n # 0
    BY <1>5
  <2>2. Slice(x, y, B, n).next = y
    BY <1>1, <1>2, <2>1, SliceIs
  <2> QED
    BY <2>1, <2>2
<1>13. Became(m, r, x, y, q, c.prot)
  BY <1>6, <1>11, <1>12
<1> QED
  BY <1>13, Zenon DEF r, x, y, q

\* The directory entry that boot.S makes, and the pages below it.
BootPgd == Tables!BootStart \div Tables!PGDIR_SIZE

\* An address of the sections, by its entry of the second level.
LEMMA BootAddress ==
    /\ BootPgd \in Pgds
    /\ \A va \in Tables!BootStart .. Tables!BootEnd - 1 :
         /\ va \in Nat /\ va \div Tables!PMD_SIZE \in Nat
         /\ (va \div Tables!PMD_SIZE) \div PTRS = BootPgd
    /\ \A j \in Pmds : InRange(j) => /\ j \div PTRS = BootPgd
                                    /\ j * Tables!PMD_SIZE \in Tables!BootStart .. Tables!BootEnd - 1
                                    /\ (j * Tables!PMD_SIZE) \div Tables!PMD_SIZE = j
<1> DEFINE G == Tables!PGDIR_SIZE
           M == Tables!PMD_SIZE
           b == Tables!BootStart
           e == Tables!BootEnd
<1>1. /\ G \in Nat /\ G >= 1 /\ M \in Nat /\ M >= 1 /\ PTRS \in Nat /\ PTRS >= 1
      /\ b \in Nat /\ e \in Nat
  BY TableNumbers, BootNumbers
<1>2. b < e
  <2> DEFINE t == TextBoot * PAGE_SIZE
             d == DdrEnd * PAGE_SIZE
  <2>1. t \in Nat /\ d \in Nat /\ t < d
    <3>1. /\ TextBoot \in Nat /\ DdrEnd \in Nat /\ TextBoot + 1 <= DdrEnd
          /\ PAGE_SIZE \in Nat /\ PAGE_SIZE >= 1
      BY TableNumbers
    <3>2. (TextBoot + 1) * PAGE_SIZE <= DdrEnd * PAGE_SIZE
      BY <3>1
    <3>3. (TextBoot + 1) * PAGE_SIZE = t + PAGE_SIZE /\ t \in Nat /\ d \in Nat
      BY <3>1
    <3> QED
      BY <3>1, <3>2, <3>3
  <2>2. b = (t \div M) * M /\ e = ((d + M - 1) \div M) * M
    BY Zenon DEF Tables!BootStart, Tables!BootEnd, Tables!AlignDown, Tables!AlignUp
  <2> HIDE DEF t, d, M, b, e
  <2>3. b <= t
    <3>1. t \div M \in Int
      BY <1>1, <2>1
    <3>2. t >= b
      BY <1>1, <2>1, <2>2, <3>1, DividedBelow
    <3> QED
      BY <1>1, <2>1, <3>2
  <2>4. e > d - 1
    <3> DEFINE z == d + M - 1
               q == z \div M
    <3>1. z \in Nat
      BY <1>1, <2>1
    <3> HIDE DEF z
    <3>2. q \in Nat
      BY <1>1, <3>1
    <3>3. q < q + 1 /\ q + 1 \in Int
      BY <3>2
    <3>4. z < (q + 1) * M
      BY <1>1, <3>1, <3>3, DividedBelow
    <3>5. (q + 1) * M = q * M + M /\ q * M \in Nat
      BY <1>1, <3>2
    <3>6. e = q * M
      BY <2>2 DEF z
    <3> HIDE DEF q
    <3> QED
      BY <1>1, <2>1, <3>4, <3>5, <3>6 DEF z
  <2> QED
    BY <1>1, <2>1, <2>3, <2>4
<1>3. (e - 1) \div G = BootPgd /\ e <= Tables!VaEnd
  BY TablesAssumption DEF BootPgd
<1>4. BootPgd \in Pgds
  <2>1. Tables!VaEnd = G * PTRS
    BY DEF Tables!VaEnd
  <2>2. PTRS * G = G * PTRS
    BY <1>1
  <2>3. b < PTRS * G
    <3>1. PTRS * G \in Nat
      BY <1>1
    <3> HIDE DEF G, b, e
    <3> QED
      BY <1>1, <1>2, <1>3, <2>1, <2>2, <3>1
  <2>4. b \div G < PTRS
    <3>1. PTRS \in Int
      BY <1>1
    <3> HIDE DEF G, b
    <3> QED
      BY <1>1, <2>3, <3>1, DividedBelow
  <2>5. b \div G \in Nat
    <3> HIDE DEF G, b
    <3> QED
      BY <1>1
  <2> QED
    BY <1>1, <2>4, <2>5 DEF BootPgd, Pgds
<1>5. ASSUME NEW va \in b .. e - 1
      PROVE  va \in Nat /\ va \div M \in Nat /\ (va \div M) \div PTRS = BootPgd
  <2>1. va \in Nat /\ b <= va /\ va <= e - 1 /\ e - 1 \in Nat
    <3> HIDE DEF b, e
    <3> QED
      BY <1>1
  <2>2. b \div G = (e - 1) \div G
    BY <1>3 DEF BootPgd
  <2>3. va \div G = b \div G
    <3> DEFINE z == e - 1
    <3>1. b \div G = z \div G /\ b <= va /\ va <= z /\ z \in Nat
      BY <2>1, <2>2
    <3> HIDE DEF b, G, z
    <3>2. va \div G = b \div G /\ va % G = (b % G) + (va - b)
      BY <1>1, <2>1, <3>1, SameTable
    <3> QED
      BY <3>2
  <2>4. Nests(va, M, PTRS)
    <3> HIDE DEF b, e, M
    <3> QED
      BY <1>1, <2>1, DividedTwice
  <2>5. va \div G = (va \div M) \div PTRS
    BY <2>4, Zenon DEF Nests, Tables!PGDIR_SIZE
  <2>6. va \div M \in Nat
    <3> HIDE DEF b, e, M
    <3> QED
      BY <1>1, <2>1
  <2> QED
    BY <2>1, <2>3, <2>5, <2>6, Zenon DEF BootPgd
<1>6. ASSUME NEW j \in Pmds, InRange(j)
      PROVE  j \div PTRS = BootPgd /\ j * M \in b .. e - 1 /\ (j * M) \div M = j
  <2>1. j \in Nat
    BY NumbersNest
  <2>2. j * M \in Nat /\ (j * M) \div M = j
    <3> HIDE DEF M
    <3> QED
      BY <1>1, <2>1, DividedNext
  <2>3. j * M \in b .. e - 1
    BY <1>6, <2>2, BootNumbers, Zenon
  <2>4. ((j * M) \div M) \div PTRS = BootPgd
    BY <1>5, <2>3, Zenon
  <2> QED
    BY <2>2, <2>3, <2>4, Zenon
<1> QED
  BY <1>4, <1>5, <1>6, Zenon

\* The entries of the sections and of the empty tables.
LEMMA SectionsAre ==
    LET f == Tables!SectionMapping
    IN  /\ DOMAIN f = Ddr
        /\ \A i \in Pgds : f[Slot1(i)] = IF i = BootPgd
                                         THEN [page |-> PgDir + 1, prot |-> Tables!PAGE_TABLE]
                                         ELSE Tables!None
        /\ \A j \in Pmds : j \div PTRS = BootPgd =>
             f[Tables!At(PgDir + 1, j % PTRS)] =
               IF InRange(j) THEN [page |-> j * PTRS, prot |-> Tables!SECTION_KERNEL_RWX]
               ELSE Tables!None
<1> DEFINE f == Tables!SectionMapping
           M == Tables!PMD_SIZE
           b == Tables!BootStart
           e == Tables!BootEnd
           Sectioned(x) == \E va \in b .. e - 1 : Tables!Index(va, M) = x
<1>1. /\ PAGE_SIZE \in Nat /\ PAGE_SIZE >= 1 /\ PTRS \in Nat /\ PTRS >= 1 /\ PgDir \in Nat
      /\ PgDir + 1 \in Nat /\ PgDir # PgDir + 1 /\ M \in Nat /\ M >= 1
      /\ PgDir \in TextBoot .. DdrEnd - 1 /\ PgDir + 1 \in TextBoot .. DdrEnd - 1
  BY TableNumbers
<1>2. /\ DOMAIN f = Ddr
      /\ \A a \in Ddr : f[a] =
           IF a = Tables!PgdOffset(b) THEN [page |-> PgDir + 1, prot |-> Tables!PAGE_TABLE]
           ELSE IF a \div PTRS = PgDir + 1 /\ Sectioned(a % PTRS)
           THEN [page |-> Tables!AlignDown(Tables!BootPmd(a % PTRS), M) \div PAGE_SIZE,
                 prot |-> Tables!SECTION_KERNEL_RWX]
           ELSE IF a \div PTRS \in {PgDir, PgDir + 1} THEN Tables!None
           ELSE [page |-> TextBoot, prot |-> Tables!PAGE_KERNEL]
  <2>1. Ddr = Tables!At(TextBoot, 0) .. Tables!At(DdrEnd, 0) - 1
    BY Zenon DEF Ddr, Tables!SectionMapping
  <2> QED
    BY <2>1, Zenon DEF Tables!SectionMapping
<1>3. \A x \in Pgds, p \in {PgDir, PgDir + 1} :
        /\ Tables!At(p, x) \in Ddr /\ Tables!At(p, x) \div PTRS = p /\ Tables!At(p, x) % PTRS = x
  <2>1. ASSUME NEW x \in Pgds, NEW p \in {PgDir, PgDir + 1}
        PROVE  /\ Tables!At(p, x) \in Ddr /\ Tables!At(p, x) \div PTRS = p
               /\ Tables!At(p, x) % PTRS = x
    <3>1. p \in Nat /\ p \in TextBoot .. DdrEnd - 1
      BY <1>1
    <3>2. /\ Tables!At(p, x) \in Nat /\ Tables!At(p, x) \div PTRS = p
          /\ Tables!At(p, x) % PTRS = x
      BY <3>1, AtIs
    <3> QED
      BY <3>1, <3>2, DdrIs, Zenon
  <2> QED
    BY <2>1, Zenon
<1>4. Tables!PgdOffset(b) = Slot1(BootPgd) /\ BootPgd \in Pgds
  <2>1. BootPgd \in Pgds
    BY BootAddress
  <2>2. BootPgd % PTRS = BootPgd
    BY <1>1, <2>1 DEF Pgds
  <2> QED
    BY <2>1, <2>2, Zenon DEF Tables!PgdOffset, Tables!Index, Slot1, BootPgd
<1> HIDE DEF f
<1>5. ASSUME NEW i \in Pgds
      PROVE  f[Slot1(i)] = IF i = BootPgd THEN [page |-> PgDir + 1, prot |-> Tables!PAGE_TABLE]
                           ELSE Tables!None
  <2>1. /\ Slot1(i) \in Ddr /\ Slot1(i) \div PTRS = PgDir /\ Slot1(i) % PTRS = i
        /\ Slot1(BootPgd) % PTRS = BootPgd
    BY <1>3, <1>4, Zenon DEF Slot1
  <2>2. i # BootPgd => Slot1(i) # Slot1(BootPgd)
    BY <2>1, Zenon
  <2>3. PgDir \in {PgDir, PgDir + 1}
    OBVIOUS
  <2> HIDE DEF Sectioned
  <2> QED
    BY <1>1, <1>2, <1>4, <2>1, <2>2, <2>3, Zenon
<1>6. ASSUME NEW va \in b .. e - 1, NEW j \in Pmds, j \div PTRS = BootPgd,
             Tables!Index(va, M) = j % PTRS
      PROVE  va \div M = j
  <2>1. va \div M \in Nat /\ (va \div M) \div PTRS = BootPgd /\ j \in Nat
    BY BootAddress, NumbersNest
  <2>2. (va \div M) % PTRS = j % PTRS
    BY <1>6, Zenon DEF Tables!Index
  <2>3. (va \div M) \div PTRS = j \div PTRS
    BY <1>6, <2>1
  <2> HIDE DEF M
  <2> QED
    BY <2>1, <2>2, <2>3, ByParts
<1>7. ASSUME NEW j \in Pmds, j \div PTRS = BootPgd
      PROVE  f[Tables!At(PgDir + 1, j % PTRS)] =
               IF InRange(j) THEN [page |-> j * PTRS, prot |-> Tables!SECTION_KERNEL_RWX]
               ELSE Tables!None
  <2> DEFINE x == j % PTRS
             a == Tables!At(PgDir + 1, x)
  <2>1. /\ a \in Ddr /\ a \div PTRS = PgDir + 1 /\ a % PTRS = x
    BY <1>3, NumbersNest
  <2>2. a # Slot1(BootPgd)
    <3>1. Slot1(BootPgd) \div PTRS = PgDir
      BY <1>3, <1>4, Zenon DEF Slot1
    <3> QED
      BY <1>1, <2>1, <3>1
  <2> HIDE DEF a
  <2>3. CASE InRange(j)
    <3>1. j * M \in b .. e - 1 /\ Tables!Index(j * M, M) = x
      <4>1. j * M \in b .. e - 1 /\ (j * M) \div M = j
        BY <2>3, BootAddress
      <4> QED
        BY <4>1, Zenon DEF Tables!Index
    <3>2. Sectioned(x)
      BY <3>1, Zenon
    <3> DEFINE va == Tables!BootPmd(x)
    <3>3. va \in b .. e - 1 /\ Tables!Index(va, M) = x
      BY <3>1, Zenon DEF Tables!BootPmd
    <3> HIDE DEF va
    <3>4. va \div M = j
      BY <1>6, <1>7, <3>3, Zenon
    <3>5. Tables!AlignDown(va, M) = (j * PTRS) * PAGE_SIZE
      <4>1. Tables!AlignDown(va, M) = j * (PAGE_SIZE * PTRS)
        BY <3>4, Zenon DEF Tables!AlignDown, Tables!PMD_SIZE
      <4>2. j \in Nat
        BY NumbersNest
      <4>3. j * (PAGE_SIZE * PTRS) = (j * PTRS) * PAGE_SIZE
        BY <1>1, <4>2
      <4> QED
        BY <4>1, <4>3, Zenon
    <3>6. ((j * PTRS) * PAGE_SIZE) \div PAGE_SIZE = j * PTRS
      <4>1. j * PTRS \in Nat
        BY <1>1, NumbersNest
      <4> QED
        BY <1>1, <4>1, DividedNext
    <3>7. f[a] = [page |-> Tables!AlignDown(va, M) \div PAGE_SIZE,
                  prot |-> Tables!SECTION_KERNEL_RWX]
      <4> HIDE DEF Sectioned, x
      <4> QED
        BY <1>2, <1>4, <2>1, <2>2, <3>2, Zenon DEF va
    <3> QED
      BY <2>3, <3>5, <3>6, <3>7, Zenon DEF a
  <2>4. CASE ~InRange(j)
    <3>1. ~Sectioned(x)
      <4> SUFFICES ASSUME NEW va \in b .. e - 1, Tables!Index(va, M) = x
                   PROVE  FALSE
        BY Zenon
      <4>1. va \div M = j
        BY <1>6, <1>7, Zenon
      <4>2. va \in Nat
        BY BootAddress, Zenon
      <4> QED
        BY <2>4, <4>1, <4>2, BootNumbers, Zenon
    <3>2. PgDir + 1 \in {PgDir, PgDir + 1}
      OBVIOUS
    <3>3. f[a] = Tables!None
      <4> HIDE DEF Sectioned, x
      <4> QED
        BY <1>2, <1>4, <2>1, <2>2, <3>1, <3>2, Zenon
    <3> QED
      BY <2>4, <3>3, Zenon DEF a
  <2> QED
    BY <2>3, <2>4
<1> QED
  BY <1>2, <1>5, <1>7, Zenon DEF f

\* What boot.S leaves: the sections and no table from the allocator.
LEMMA NothingHeld ==
    ASSUME NEW f, \A i \in Pgds : Has1(f, i) => f[Slot1(i)].page = PgDir + 1,
           \A j \in Pmds : ~Has2(f, j)
    PROVE  Counted(f, 0)
<1>1. Held(f) = {}
  <2>1. {k \in Pgds : Has1(f, k) /\ f[Slot1(k)].page # PgDir + 1} = {}
    BY Zenon
  <2>2. {k \in Pmds : Has2(f, k)} = {}
    BY Zenon
  <2> DEFINE A == {k \in Pgds : Has1(f, k) /\ f[Slot1(k)].page # PgDir + 1}
             B == {k \in Pmds : Has2(f, k)}
  <2>3. Held(f) = {<<"pgd", i>> : i \in A} \cup {<<"pmd", j>> : j \in B}
    BY Zenon DEF Held
  <2> HIDE DEF A, B
  <2>4. A = {} /\ B = {}
    BY <2>1, <2>2, Zenon DEF A, B
  <2> QED
    BY <2>3, <2>4
<1> QED
  BY <1>1, FS_EmptySet DEF Counted

LEMMA BootIsSound ==
    LET f == Tables!SectionMapping
    IN  /\ Tables!Kernel => Sound([taken |-> 0, entry |-> f])
        /\ \A w \in Ptes : Hit(f, w) = IF InRange(w \div PTRS)
                                       THEN [page |-> w, prot |-> Tables!SECTION_KERNEL_RWX]
                                       ELSE Tables!None
<1> DEFINE f == Tables!SectionMapping
<1>1. /\ DOMAIN f = Ddr
      /\ \A i \in Pgds : f[Slot1(i)] = IF i = BootPgd
                                       THEN [page |-> PgDir + 1, prot |-> Tables!PAGE_TABLE]
                                       ELSE Tables!None
      /\ \A j \in Pmds : j \div PTRS = BootPgd =>
             f[Tables!At(PgDir + 1, j % PTRS)] =
               IF InRange(j) THEN [page |-> j * PTRS, prot |-> Tables!SECTION_KERNEL_RWX]
               ELSE Tables!None
  BY SectionsAre, Zenon
<1>2. \A a \in Ddr : f[a] = Tables!SectionMapping[a]
  OBVIOUS
<1> HIDE DEF f
<1>3. PgDir + 1 # 0 /\ PTRS \in Nat /\ PTRS >= 1
  BY TableNumbers
<1>4. /\ [page |-> PgDir + 1, prot |-> Tables!PAGE_TABLE] # Tables!None
      /\ \A p : Tables!Leaf([page |-> p, prot |-> Tables!SECTION_KERNEL_RWX])
      /\ \A p : [page |-> p, prot |-> Tables!SECTION_KERNEL_RWX] # Tables!None
  <2>1. {"V"} # {} /\ "V" \in {"V", "A", "R", "X", "W", "D"}
        /\ {"V", "A", "R", "X", "W", "D"} \cap {"R", "W", "X"} # {}
    OBVIOUS
  <2>2. \A p, q : [page |-> p, prot |-> q].prot = q
    OBVIOUS
  <2>3. Tables!None.prot = {}
    BY DEF Tables!None
  <2> QED
    BY <2>1, <2>2, <2>3 DEF Tables!Leaf, Tables!PAGE_TABLE, Tables!SECTION_KERNEL_RWX
<1>5. \A i \in Pgds : Has1(f, i) <=> i = BootPgd
  BY <1>1, <1>4, Zenon DEF Has1
<1>6. \A j \in Pmds : Has1(f, j \div PTRS) =>
         /\ j \div PTRS = BootPgd
         /\ f[Slot2(f, j)] = IF InRange(j)
                             THEN [page |-> j * PTRS, prot |-> Tables!SECTION_KERNEL_RWX]
                             ELSE Tables!None
  <2>1. ASSUME NEW j \in Pmds, Has1(f, j \div PTRS)
        PROVE  /\ j \div PTRS = BootPgd
               /\ f[Slot2(f, j)] = IF InRange(j)
                                   THEN [page |-> j * PTRS, prot |-> Tables!SECTION_KERNEL_RWX]
                                   ELSE Tables!None
    <3>1. j \div PTRS \in Pgds /\ j \div PTRS = BootPgd
      BY <1>5, <2>1, NumbersNest, Zenon
    <3>2. f[Slot1(j \div PTRS)] = [page |-> PgDir + 1, prot |-> Tables!PAGE_TABLE]
      BY <1>1, <3>1, Zenon
    <3>3. f[Slot1(j \div PTRS)].page = PgDir + 1
      BY <3>2
    <3>4. Slot2(f, j) = Tables!At(PgDir + 1, j % PTRS)
      BY <3>3, Zenon DEF Slot2
    <3> QED
      BY <1>1, <3>1, <3>4, Zenon
  <2> QED
    BY <2>1, Zenon
<1>7. \A j \in Pmds : ~Has2(f, j)
  BY <1>4, <1>6, Zenon DEF Has2
<1>8. ASSUME Tables!Kernel PROVE Typed(f, 0)
  <2>1. 0 \in 0 .. Len(FreePages)
    BY TablesAssumption
  <2>2. \A i \in Pgds : Has1(f, i) => IsTable(f[Slot1(i)], 0)
    <3>1. PgDir + 1 \in Pool(0)
      BY DEF Pool
    <3>2. \A i \in Pgds : Has1(f, i) => f[Slot1(i)].page = PgDir + 1
                                        /\ f[Slot1(i)].prot = Tables!PAGE_TABLE
      BY <1>1, <1>5
    <3> QED
      BY <3>1, <3>2, Zenon DEF IsTable
  <2>3. ASSUME NEW j \in Pmds, Has1(f, j \div PTRS)
        PROVE  \/ f[Slot2(f, j)] = Tables!None
               \/ IsTable(f[Slot2(f, j)], 0)
               \/ Tables!Leaf(f[Slot2(f, j)]) /\ f[Slot2(f, j)].page \in Nat /\ InBoot(j)
    <3>1. CASE InRange(j)
      <4>1. f[Slot2(f, j)] = [page |-> j * PTRS, prot |-> Tables!SECTION_KERNEL_RWX]
        BY <1>6, <2>3, <3>1, Zenon
      <4>2. j * PTRS \in Nat
        BY <1>3, NumbersNest
      <4>3. Tables!Leaf(f[Slot2(f, j)])
        BY <1>4, <4>1, Zenon
      <4>4. f[Slot2(f, j)].page \in Nat
        BY <4>1, <4>2
      <4> QED
        BY <1>8, <3>1, <4>3, <4>4 DEF InBoot
    <3>2. CASE ~InRange(j)
      BY <1>6, <2>3, <3>2, Zenon
    <3> QED
      BY <3>1, <3>2
  <2>4. \A w \in Ptes : Has2(f, w \div PTRS) =>
                         f[Slot3(f, w)] = Tables!None \/ Tables!Leaf(f[Slot3(f, w)])
    BY <1>7, NumbersNest, Zenon
  <2> QED
    BY <1>1, <2>1, <2>2, <2>3, <2>4, Zenon DEF Typed
<1>9. OwnTables(f)
  BY <1>5, <1>7, Zenon DEF OwnTables
<1>10. Counted(f, 0)
  <2>1. \A i \in Pgds : Has1(f, i) => f[Slot1(i)].page = PgDir + 1
    BY <1>1, <1>5
  <2> QED
    BY <1>7, <2>1, NothingHeld
<1>11. ASSUME Tables!Kernel PROVE Sound([taken |-> 0, entry |-> f])
  <2> DEFINE m == [taken |-> 0, entry |-> f]
  <2>1. m.taken = 0 /\ m.entry = f /\ m = [taken |-> m.taken, entry |-> m.entry]
    OBVIOUS
  <2> HIDE DEF m
  <2>2. Tree(f, 0)
    BY <1>2, <1>8, <1>9, <1>11, Zenon DEF Tree, RestKept
  <2>3. Sound(m)
    BY <1>10, <2>1, <2>2, Zenon DEF Sound
  <2> QED
    BY <2>3, Zenon DEF m
<1>12. ASSUME NEW w \in Ptes
       PROVE  Hit(f, w) = IF InRange(w \div PTRS)
                          THEN [page |-> w, prot |-> Tables!SECTION_KERNEL_RWX]
                          ELSE Tables!None
  <2> DEFINE j == w \div PTRS
  <2>1. w \in Nat /\ j \in Pmds /\ j \in Nat /\ j \div PTRS \in Pgds
    BY NumbersNest, Zenon
  <2>2. CASE InRange(j)
    <3>1. Has1(f, j \div PTRS)
      BY <1>5, <2>1, <2>2, BootAddress, Zenon
    <3>2. f[Slot2(f, j)] = [page |-> j * PTRS, prot |-> Tables!SECTION_KERNEL_RWX]
      BY <1>6, <2>1, <2>2, <3>1, Zenon
    <3>3. j * PTRS + (w % PTRS) = w
      <4>1. w % PTRS = w - PTRS * (w \div PTRS) /\ w \div PTRS \in Int
        BY <1>3, <2>1
      <4>2. PTRS * j = j * PTRS /\ j * PTRS \in Int
        BY <1>3, <4>1
      <4> HIDE DEF j
      <4> QED
        BY <2>1, <4>1, <4>2 DEF j
    <3>4. [page |-> f[Slot2(f, j)].page + (w % PTRS), prot |-> f[Slot2(f, j)].prot]
            = [page |-> w, prot |-> Tables!SECTION_KERNEL_RWX]
      <4> HIDE DEF j
      <4> QED
        BY <3>2, <3>3
    <3>5. Tables!Leaf(f[Slot2(f, j)]) /\ f[Slot2(f, j)] # Tables!None
      BY <1>4, <3>2, Zenon
    <3> QED
      BY <2>2, <3>1, <3>4, <3>5, Zenon DEF Hit
  <2>3. CASE ~InRange(j)
    BY <1>6, <2>1, <2>3, Zenon DEF Hit
  <2> QED
    BY <2>2, <2>3
<1> QED
  BY <1>11, <1>12, Zenon DEF f

\* The tables of the guest before its first call.
LEMMA EmptyIsSound ==
    LET f == Tables!EmptyTables
    IN  /\ Sound([taken |-> 0, entry |-> f])
        /\ \A w \in Ptes : Hit(f, w) = Tables!None
<1> DEFINE f == Tables!EmptyTables
<1>1. /\ DOMAIN f = Ddr
      /\ \A a \in Ddr : f[a] = IF a \div PTRS \in {PgDir, PgDir + 1} THEN Tables!None
                               ELSE Tables!SectionMapping[a]
  BY Zenon DEF Tables!EmptyTables, Ddr
<1> HIDE DEF f
<1>2. \A i \in Pgds : ~Has1(f, i)
  <2>1. ASSUME NEW i \in Pgds PROVE f[Slot1(i)] = Tables!None
    <3>1. PgDir \in Nat /\ PgDir \in TextBoot .. DdrEnd - 1
      BY TableNumbers
    <3>2. Slot1(i) \in Nat /\ Slot1(i) \div PTRS = PgDir
      BY <3>1, AtIs DEF Slot1
    <3>3. Slot1(i) \in Ddr
      BY <3>1, <3>2, DdrIs, Zenon
    <3>4. PgDir \in {PgDir, PgDir + 1}
      OBVIOUS
    <3> QED
      BY <1>1, <3>2, <3>3, <3>4, Zenon
  <2> QED
    BY <2>1, Zenon DEF Has1
<1>3. \A j \in Pmds : ~Has1(f, j \div PTRS) /\ ~Has2(f, j)
  BY <1>2, NumbersNest, Zenon DEF Has2
<1>4. Typed(f, 0)
  <2>1. 0 \in 0 .. Len(FreePages)
    BY TablesAssumption
  <2>2. \A w \in Ptes : ~Has2(f, w \div PTRS)
    BY <1>3, NumbersNest, Zenon
  <2> QED
    BY <1>1, <1>2, <1>3, <2>1, <2>2, Zenon DEF Typed
<1>5. OwnTables(f)
  BY <1>2, <1>3, Zenon DEF OwnTables
<1>6. RestKept(f, 0)
  <2>1. {PgDir} \cup Pool(0) = {PgDir, PgDir + 1}
    BY DEF Pool
  <2> QED
    BY <1>1, <2>1, Zenon DEF RestKept
<1>7. Counted(f, 0)
  BY <1>2, <1>3, NothingHeld, Zenon
<1>8. Sound([taken |-> 0, entry |-> f])
  <2> DEFINE m == [taken |-> 0, entry |-> f]
  <2>1. m.taken = 0 /\ m.entry = f /\ m = [taken |-> m.taken, entry |-> m.entry]
    OBVIOUS
  <2> HIDE DEF m
  <2>2. Sound(m)
    BY <1>4, <1>5, <1>6, <1>7, <2>1, Zenon DEF Sound, Tree
  <2> QED
    BY <2>2, Zenon DEF m
<1>9. \A w \in Ptes : Hit(f, w) = Tables!None
  BY <1>2, NumbersNest, Zenon DEF Hit
<1> QED
  BY <1>8, <1>9, Zenon DEF f

LEMMA PageInSpace ==
    ASSUME NEW va \in Nat, va < Tables!VaEnd
    PROVE  va \div PAGE_SIZE \in Ptes
<1> DEFINE w == va \div PAGE_SIZE
           G == Tables!PGDIR_SIZE
<1>1. G \in Nat /\ G >= 1 /\ PTRS \in Nat /\ PTRS >= 1
  BY TableNumbers
<1>2. w \in Nat /\ va \div G = (w \div PTRS) \div PTRS
  BY PageNumbers
<1>3. Tables!VaEnd = PTRS * G
  <2>1. Tables!VaEnd = G * PTRS
    BY DEF Tables!VaEnd
  <2> HIDE DEF G
  <2>2. G * PTRS = PTRS * G
    BY <1>1
  <2> QED
    BY <2>1, <2>2
<1>4. va \div G < PTRS
  <2>1. PTRS \in Int /\ va < PTRS * G
    BY <1>1, <1>3
  <2> HIDE DEF G
  <2> QED
    BY <1>1, <2>1, DividedBelow
<1> HIDE DEF w, G
<1>5. w \div PTRS \in Nat /\ (w \div PTRS) \div PTRS \in Nat
  BY <1>1, <1>2
<1>6. (w \div PTRS) \div PTRS \in Pgds
  BY <1>1, <1>2, <1>4, <1>5 DEF Pgds
<1> QED
  BY <1>2, <1>5, <1>6, Zenon DEF Ptes, Pmds, w

\* What a walk finds is empty or a leaf.
LEMMA HitKinds ==
    ASSUME NEW f, NEW n, Typed(f, n), NEW w \in Ptes
    PROVE  Hit(f, w) = Tables!None \/ Tables!Leaf(Hit(f, w))
<1> DEFINE pmd == f[Slot2(f, w \div PTRS)]
           own == [page |-> pmd.page + (w % PTRS), prot |-> pmd.prot]
<1>1. Tables!Leaf(pmd) => Tables!Leaf(own)
  <2>1. own.prot = pmd.prot
    OBVIOUS
  <2> QED
    BY <2>1, Zenon DEF Tables!Leaf
<1> HIDE DEF own
<1>2. CASE ~Has1(f, (w \div PTRS) \div PTRS) \/ pmd = Tables!None
  BY <1>2, Zenon DEF Hit
<1>3. CASE Has1(f, (w \div PTRS) \div PTRS) /\ pmd # Tables!None /\ Tables!Leaf(pmd)
  <2>1. Hit(f, w) = own
    BY <1>3, Zenon DEF Hit, own
  <2> QED
    BY <1>1, <1>3, <2>1, Zenon
<1>4. CASE Has1(f, (w \div PTRS) \div PTRS) /\ pmd # Tables!None /\ ~Tables!Leaf(pmd)
  <2>1. Hit(f, w) = f[Slot3(f, w)]
    BY <1>4, Zenon DEF Hit
  <2>2. Has2(f, w \div PTRS)
    BY <1>4, Zenon DEF Has2
  <2> QED
    BY <2>1, <2>2, Zenon DEF Typed
<1> QED
  BY <1>2, <1>3, <1>4

\* The address that the walk for va leads to, by the leaf for its page.
Leads(h, va) == IF h = Tables!None THEN [pa |-> va, prot |-> {}]
                ELSE [pa |-> h.page * PAGE_SIZE + (va % PAGE_SIZE), prot |-> h.prot]

LEMMA SlotsOfAddress ==
    ASSUME NEW f, NEW va \in Nat, va < Tables!VaEnd
    PROVE  LET w == va \div PAGE_SIZE
           IN  /\ Tables!PgdOffset(va) = Slot1((w \div PTRS) \div PTRS)
               /\ Tables!PmdpFromPgdp(f, Slot1((w \div PTRS) \div PTRS), va) = Slot2(f, w \div PTRS)
               /\ Tables!PtepFromPmdp(f, Slot2(f, w \div PTRS), va) = Slot3(f, w)
<1> DEFINE w == va \div PAGE_SIZE
           i == (w \div PTRS) \div PTRS
<1>1. /\ Tables!Index(va, PAGE_SIZE) = w % PTRS
      /\ Tables!Index(va, Tables!PMD_SIZE) = (w \div PTRS) % PTRS
      /\ Tables!Index(va, Tables!PGDIR_SIZE) = i % PTRS
  BY PageNumbers
<1>2. i % PTRS = i
  <2>1. i \in Pgds /\ PTRS \in Nat
    BY PageInSpace, NumbersNest, TableNumbers
  <2> HIDE DEF i
  <2> QED
    BY <2>1 DEF Pgds
<1>3. Tables!PgdOffset(va) = Slot1(i)
  BY <1>1, <1>2, Zenon DEF Tables!PgdOffset, Slot1
<1>4. Tables!PmdpFromPgdp(f, Slot1(i), va) = Slot2(f, w \div PTRS)
  BY <1>1, Zenon DEF Tables!PmdpFromPgdp, Slot2
<1>5. Tables!PtepFromPmdp(f, Slot2(f, w \div PTRS), va) = Slot3(f, w)
  BY <1>1, Zenon DEF Tables!PtepFromPmdp, Slot3
<1> QED
  BY <1>3, <1>4, <1>5, Zenon

LEMMA WalkIs ==
    ASSUME NEW n, Typed(entry, n), NEW va \in Nat, va < Tables!VaEnd
    PROVE  Tables!Walk(va) = Leads(Hit(entry, va \div PAGE_SIZE), va)
<1> DEFINE w == va \div PAGE_SIZE
           j == w \div PTRS
           i == j \div PTRS
           pmd == entry[Slot2(entry, j)]
           pte == entry[Slot3(entry, w)]
           Section == [pa |-> pmd.page * PAGE_SIZE + (va % Tables!PMD_SIZE), prot |-> pmd.prot]
           Page == [pa |-> pte.page * PAGE_SIZE + (va % PAGE_SIZE), prot |-> pte.prot]
           Nowhere == [pa |-> va, prot |-> {}]
<1>1. w \in Ptes /\ w \in Nat /\ j \in Pmds
  BY PageInSpace, NumbersNest
<1>2. Tables!Walk(va) = IF entry[Slot1(i)] = Tables!None THEN Nowhere
                        ELSE IF Tables!Leaf(pmd) THEN Section
                        ELSE IF pmd = Tables!None \/ pte = Tables!None THEN Nowhere
                        ELSE Page
  <2>1. /\ Tables!PgdOffset(va) = Slot1(i)
        /\ Tables!PmdpFromPgdp(entry, Slot1(i), va) = Slot2(entry, j)
        /\ Tables!PtepFromPmdp(entry, Slot2(entry, j), va) = Slot3(entry, w)
    BY SlotsOfAddress
  <2> QED
    BY <2>1, Zenon DEF Tables!Walk
<1>3. CASE ~Has1(entry, i)
  BY <1>2, <1>3, Zenon DEF Leads, Hit, Has1
<1>4. CASE Has1(entry, i) /\ Tables!Leaf(pmd)
  <2> DEFINE own == [page |-> pmd.page + (w % PTRS), prot |-> pmd.prot]
  <2>1. pmd # Tables!None
    BY <1>4, EntryKinds
  <2>2. Hit(entry, w) = own
    BY <1>4, <2>1, Zenon DEF Hit
  <2>3. own # Tables!None
    <3>1. own.prot = pmd.prot
      OBVIOUS
    <3>2. Tables!Leaf(own)
      BY <1>4, <3>1, Zenon DEF Tables!Leaf
    <3> QED
      BY <3>2, EntryKinds
  <2>4. Leads(own, va) = [pa |-> (pmd.page + (w % PTRS)) * PAGE_SIZE + (va % PAGE_SIZE),
                          prot |-> pmd.prot]
    <3>1. own.page = pmd.page + (w % PTRS) /\ own.prot = pmd.prot
      OBVIOUS
    <3> HIDE DEF own
    <3> QED
      BY <2>3, <3>1, Zenon DEF Leads
  <2>5. (pmd.page + (w % PTRS)) * PAGE_SIZE + (va % PAGE_SIZE)
          = pmd.page * PAGE_SIZE + (va % Tables!PMD_SIZE)
    <3> DEFINE a == pmd.page
               b == w % PTRS
               c == va % PAGE_SIZE
    <3>1. a \in Nat
      <4>1. ~IsTable(pmd, n)
        BY <1>4, EntryKinds
      <4> QED
        BY <1>1, <1>4, <2>1, <4>1, Zenon DEF Typed
    <3>2. b \in Nat /\ c \in Nat /\ PAGE_SIZE \in Nat
      BY <1>1, TableNumbers
    <3>3. va % Tables!PMD_SIZE = b * PAGE_SIZE + c
      BY PageNumbers
    <3> HIDE DEF a, b, c
    <3>4. (a + b) * PAGE_SIZE = a * PAGE_SIZE + b * PAGE_SIZE
          /\ a * PAGE_SIZE \in Nat /\ b * PAGE_SIZE \in Nat
      BY <3>1, <3>2
    <3>5. (a + b) * PAGE_SIZE + c = a * PAGE_SIZE + (b * PAGE_SIZE + c)
      BY <3>2, <3>4
    <3> QED
      BY <3>3, <3>5 DEF a, b, c
  <2>6. Tables!Walk(va) = Section
    BY <1>2, <1>4, Zenon DEF Has1
  <2> QED
    BY <2>2, <2>4, <2>5, <2>6, Zenon
<1>5. CASE Has1(entry, i) /\ ~Tables!Leaf(pmd)
  BY <1>2, <1>5, Zenon DEF Leads, Hit, Has1
<1> QED
  BY <1>3, <1>4, <1>5

\* What a sequence of calls asks for an address: what the last that covers it does.
CallsMade == Seq(Mappings \cup {Tables!SectionCall})
Covers(cs, va) == {k \in DOMAIN cs : va \in Tables!Covered(cs[k])}
AskedBy(c, va) ==
  [pa |-> Tables!AlignDown(c.phys, PAGE_SIZE) + va - Tables!AlignDown(c.virt, PAGE_SIZE),
   prot |-> c.prot]
LastAsked(cs, va) ==
  IF Covers(cs, va) = {} THEN [pa |-> va, prot |-> {}]
  ELSE AskedBy(cs[CHOOSE k \in Covers(cs, va) : \A j \in Covers(cs, va) : j <= k], va)

LEMMA OneMoreCall ==
    ASSUME NEW S, NEW cs \in Seq(S), NEW c \in S, NEW va
    PROVE  LastAsked(Append(cs, c), va) = IF va \in Tables!Covered(c) THEN AskedBy(c, va)
                                          ELSE LastAsked(cs, va)
<1> DEFINE n == Len(cs)
           ds == Append(cs, c)
           old == Covers(cs, va)
           new == Covers(ds, va)
<1>1. /\ n \in Nat /\ DOMAIN cs = 1 .. n /\ DOMAIN ds = 1 .. n + 1
      /\ ds[n + 1] = c /\ \A k \in 1 .. n : ds[k] = cs[k]
  OBVIOUS
<1>2. old \subseteq 1 .. n /\ new \subseteq 1 .. n + 1
  BY <1>1 DEF Covers
<1>3. CASE va \in Tables!Covered(c)
  <2>1. n + 1 \in new
    BY <1>1, <1>3 DEF Covers
  <2> HIDE DEF ds, new, n
  <2>2. \A j \in new : j <= n + 1
    BY <1>1, <1>2
  <2> DEFINE k == CHOOSE l \in new : \A j \in new : j <= l
  <2>3. k \in new /\ \A j \in new : j <= k
    BY <2>1, <2>2
  <2> HIDE DEF k
  <2>4. k = n + 1
    BY <1>1, <1>2, <2>1, <2>2, <2>3
  <2>5. LastAsked(ds, va) = AskedBy(ds[k], va)
    BY <2>1, Zenon DEF LastAsked, k, new
  <2> QED
    BY <1>1, <1>3, <2>4, <2>5, Zenon DEF ds
<1>4. CASE va \notin Tables!Covered(c)
  <2>1. new = old
    <3>1. \A k \in 1 .. n + 1 : k = n + 1 \/ k \in 1 .. n
      BY <1>1
    <3>2. \A k \in 1 .. n : k \in 1 .. n + 1
      BY <1>1
    <3>3. /\ new = {k \in 1 .. n + 1 : va \in Tables!Covered(ds[k])}
          /\ old = {k \in 1 .. n : va \in Tables!Covered(cs[k])}
      BY <1>1, Zenon DEF Covers
    <3> HIDE DEF ds, new, old, n
    <3> QED
      BY <1>1, <1>4, <3>1, <3>2, <3>3, Zenon
  <2>2. CASE old = {}
    BY <1>4, <2>1, <2>2, Zenon DEF LastAsked
  <2>3. CASE old # {}
    <3> DEFINE Late(C) == CHOOSE l \in C : \A j \in C : j <= l
    <3>1. Late(old) \in old
      <4>1. PICK l \in old : \A j \in old : j <= l
        <5>1. IsFiniteSet(1 .. n)
          BY <1>1, FS_Interval
        <5> DEFINE Ups == {l \in Nat : \A j \in old : j <= l}
        <5>2. n \in Ups /\ Ups \in SUBSET Nat
          BY <1>1, <1>2
        <5> HIDE DEF Ups, old, n
        <5>3. PICK l \in Ups : \A k \in Ups : l <= k
          BY <5>2, LeastNat
        <5>4. l \in Nat /\ \A j \in old : j \in Nat /\ j <= l
          BY <1>2, <5>3 DEF Ups
        <5>5. ASSUME l \notin old PROVE FALSE
          <6>1. \A j \in old : j <= l - 1
            BY <5>4, <5>5
          <6>2. l - 1 \in Nat
            BY <2>3, <5>4, <6>1
          <6>3. l - 1 \in Ups
            BY <6>1, <6>2 DEF Ups
          <6> QED
            BY <5>3, <5>4, <6>3
        <5> QED
          BY <5>4, <5>5
      <4> HIDE DEF old
      <4> QED
        BY <4>1
    <3>2. LastAsked(ds, va) = AskedBy(ds[Late(new)], va) /\ LastAsked(cs, va) = AskedBy(cs[Late(old)], va)
      BY <2>1, <2>3, Zenon DEF LastAsked
    <3>3. ds[Late(old)] = cs[Late(old)]
      <4> HIDE DEF Late, ds, old
      <4> QED
        BY <1>1, <1>2, <3>1
    <3> HIDE DEF Late, ds, old, new
    <3> QED
      BY <1>4, <2>1, <3>2, <3>3, Zenon DEF ds
  <2> QED
    BY <2>2, <2>3
<1> QED
  BY <1>3, <1>4

\* A page keeps the offset of the address in it.
LEMMA PageAndOffset ==
    ASSUME NEW va \in Nat
    PROVE  /\ va \div PAGE_SIZE \in Nat /\ va % PAGE_SIZE \in Nat
           /\ (va \div PAGE_SIZE) * PAGE_SIZE + (va % PAGE_SIZE) = va
<1>1. PAGE_SIZE \in Nat /\ PAGE_SIZE >= 1
  BY TableNumbers
<1>2. va % PAGE_SIZE = va - PAGE_SIZE * (va \div PAGE_SIZE) /\ va \div PAGE_SIZE \in Nat
      /\ va % PAGE_SIZE \in Nat
  BY <1>1
<1> DEFINE q == va \div PAGE_SIZE
<1> HIDE DEF q
<1>3. q \in Nat => PAGE_SIZE * q = q * PAGE_SIZE /\ q * PAGE_SIZE \in Nat
  BY <1>1
<1>4. q * PAGE_SIZE + (va % PAGE_SIZE) = va
  BY <1>2, <1>3 DEF q
<1> QED
  BY <1>2, <1>4 DEF q

\* A call leads an address where it asks to.
LEMMA CallLeads ==
    ASSUME NEW c, c.virt \in Nat, c.phys \in Nat, c.size \in Nat, c.size > 0,
           IsLeaf(c.prot), NEW va \in Nat, va \in Tables!Covered(c)
    PROVE  LET w == va \div PAGE_SIZE
           IN  Leads([page |-> ToPage(c) + (w - FirstPage(c)), prot |-> c.prot], va)
                 = AskedBy(c, va)
<1> DEFINE w == va \div PAGE_SIZE
           h == [page |-> ToPage(c) + (w - FirstPage(c)), prot |-> c.prot]
           x == FirstPage(c)
           q == ToPage(c)
           o == va % PAGE_SIZE
           p == PAGE_SIZE
<1>1. /\ x \in Nat /\ q \in Nat /\ p \in Nat /\ w \in Nat /\ o \in Nat /\ w * p + o = va
      /\ Tables!AlignDown(c.virt, PAGE_SIZE) = x * p
      /\ Tables!AlignDown(c.phys, PAGE_SIZE) = q * p
  BY CallInPages, PageAndOffset, TableNumbers
<1>2. h # Tables!None
  <2>1. h.prot = c.prot
    OBVIOUS
  <2>2. Tables!Leaf(h)
    BY <2>1, Zenon DEF IsLeaf, Tables!Leaf
  <2> QED
    BY <2>2, EntryKinds
<1>3. Leads(h, va) = [pa |-> (q + (w - x)) * p + o, prot |-> c.prot]
  <2>1. h.page = q + (w - x) /\ h.prot = c.prot
    OBVIOUS
  <2> HIDE DEF h, q, w, x
  <2> QED
    BY <1>2, <2>1, Zenon DEF Leads
<1>4. (q + (w - x)) * p + o = q * p + va - x * p
  <2> HIDE DEF q, w, x, p, o
  <2>1. (q + (w - x)) * p = q * p + (w * p - x * p)
    BY <1>1
  <2>2. q * p \in Nat /\ w * p \in Nat /\ x * p \in Nat
    BY <1>1
  <2> QED
    BY <1>1, <2>1, <2>2
<1> QED
  BY <1>1, <1>3, <1>4, Zenon DEF AskedBy

\* The invariant: memory is a tree, and every address leads where the calls ask.
TablesIInv ==
    /\ Sound([taken |-> taken, entry |-> entry])
    /\ calls \in CallsMade
    /\ \A va \in 0 .. Tables!VaEnd - 1 : Leads(Hit(entry, va \div PAGE_SIZE), va) = LastAsked(calls, va)

LEMMA AlignedStay ==
    ASSUME NEW a \in {Tables!BootStart, Tables!BootEnd}
    PROVE  /\ Tables!AlignDown(a, PAGE_SIZE) = a
           /\ Tables!AlignUp(a, PAGE_SIZE) = a
<1>1. PAGE_SIZE \in Nat /\ PAGE_SIZE >= 1 /\ PTRS \in Nat /\ TextBoot \in Nat /\ DdrEnd \in Nat
      /\ Tables!PMD_SIZE \in Nat /\ Tables!PMD_SIZE >= 1
  BY TableNumbers
<1>2. PICK s \in Nat : a = s * Tables!PMD_SIZE
  <2> DEFINE M == Tables!PMD_SIZE
             t == TextBoot * PAGE_SIZE
             d == DdrEnd * PAGE_SIZE + M - 1
  <2>1. t \in Nat /\ d \in Nat
    <3>1. TextBoot * PAGE_SIZE \in Nat /\ DdrEnd * PAGE_SIZE \in Nat
      BY <1>1
    <3> QED
      BY <1>1, <3>1
  <2>2. Tables!BootStart = (t \div M) * M /\ Tables!BootEnd = (d \div M) * M
    BY Zenon DEF Tables!BootStart, Tables!BootEnd, Tables!AlignDown, Tables!AlignUp
  <2> HIDE DEF t, d, M
  <2>3. t \div M \in Nat /\ d \div M \in Nat
    BY <1>1, <2>1 DEF M
  <2> QED
    BY <2>2, <2>3 DEF M
<1> DEFINE x == s * PTRS
<1>3. x \in Nat /\ a = x * PAGE_SIZE
  <2>1. s * (PAGE_SIZE * PTRS) = (s * PTRS) * PAGE_SIZE /\ s * PTRS \in Nat
    BY <1>1
  <2> QED
    BY <1>2, <2>1, Zenon DEF Tables!PMD_SIZE
<1> HIDE DEF x
<1>4. a \in Nat /\ a \div PAGE_SIZE = x
  BY <1>1, <1>3, DividedNext
<1>5. (a + PAGE_SIZE - 1) \div PAGE_SIZE = x
  <2> DEFINE b == a + PAGE_SIZE - 1
  <2>1. b \in Int /\ Parts(b, PAGE_SIZE, x, PAGE_SIZE - 1)
    BY <1>1, <1>3, <1>4 DEF Parts
  <2>2. PAGE_SIZE \in Int /\ PAGE_SIZE - 1 \in Int /\ x \in Int
    BY <1>1, <1>3
  <2> HIDE DEF b
  <2>3. b \div PAGE_SIZE = x /\ b % PAGE_SIZE = PAGE_SIZE - 1
    BY <1>1, <2>1, <2>2, Quotient
  <2> QED
    BY <2>3 DEF b
<1> QED
  BY <1>3, <1>4, <1>5, Zenon DEF Tables!AlignDown, Tables!AlignUp

LEMMA BootLeads ==
    ASSUME NEW va \in 0 .. Tables!VaEnd - 1
    PROVE  Leads(Hit(Tables!SectionMapping, va \div PAGE_SIZE), va) = LastAsked(<<Tables!SectionCall>>, va)
<1> DEFINE w == va \div PAGE_SIZE
           own == [page |-> w, prot |-> Tables!SECTION_KERNEL_RWX]
           b == Tables!BootStart
           e == Tables!BootEnd
<1>1. va \in Nat /\ va < Tables!VaEnd /\ w \in Ptes
  <2>1. va \in Nat /\ va < Tables!VaEnd
    BY TableNumbers
  <2> QED
    BY <2>1, PageInSpace, Zenon
<1>2. w * PAGE_SIZE + (va % PAGE_SIZE) = va
  BY <1>1, PageAndOffset
<1>3. va \in Tables!Covered(Tables!SectionCall) <=> InRange(w \div PTRS)
  <2>1. b \in Nat /\ e \in Nat
    BY BootNumbers
  <2>2. Tables!SectionCall.virt = b /\ Tables!SectionCall.size = e - b
    BY DEF Tables!SectionCall
  <2>3. b + (e - b) = e
    <3> HIDE DEF b, e
    <3> QED
      BY <2>1
  <2>4. b \in {b, e} /\ e \in {b, e}
    OBVIOUS
  <2>5. Tables!Covered(Tables!SectionCall) = b .. e - 1
    BY <2>2, <2>3, <2>4, AlignedStay, Zenon DEF Tables!Covered
  <2>6. va \div Tables!PMD_SIZE = w \div PTRS
    BY <1>1, PageNumbers
  <2> QED
    BY <1>1, <2>5, <2>6, BootNumbers, Zenon
<1>4. Append(<<>>, Tables!SectionCall) = <<Tables!SectionCall>> /\ <<>> \in Seq({Tables!SectionCall}) /\ Tables!SectionCall \in {Tables!SectionCall}
  OBVIOUS
<1>5. LastAsked(<<Tables!SectionCall>>, va) = IF va \in Tables!Covered(Tables!SectionCall) THEN AskedBy(Tables!SectionCall, va)
                                    ELSE LastAsked(<<>>, va)
  <2> DEFINE S == {Tables!SectionCall}
             none == <<>>
  <2>1. none \in Seq(S) /\ Tables!SectionCall \in S /\ Append(none, Tables!SectionCall) = <<Tables!SectionCall>>
    BY <1>4
  <2> HIDE DEF S, none
  <2>2. LastAsked(Append(none, Tables!SectionCall), va)
          = IF va \in Tables!Covered(Tables!SectionCall) THEN AskedBy(Tables!SectionCall, va) ELSE LastAsked(none, va)
    BY <2>1, OneMoreCall, Zenon
  <2> QED
    BY <2>1, <2>2, Zenon DEF none
<1>6. LastAsked(<<>>, va) = [pa |-> va, prot |-> {}]
  <2>1. Covers(<<>>, va) = {}
    BY DEF Covers
  <2> QED
    BY <2>1, Zenon DEF LastAsked
<1>7. AskedBy(Tables!SectionCall, va) = [pa |-> va, prot |-> Tables!SECTION_KERNEL_RWX]
  <2>1. Tables!SectionCall.virt = b /\ Tables!SectionCall.phys = b /\ Tables!SectionCall.prot = Tables!SECTION_KERNEL_RWX
    BY DEF Tables!SectionCall
  <2>2. Tables!AlignDown(b, PAGE_SIZE) = b
    BY AlignedStay
  <2>3. b + va - b = va
    <3>1. b \in Nat
      BY BootNumbers
    <3> HIDE DEF b
    <3> QED
      BY <1>1, <3>1
  <2> QED
    BY <2>1, <2>2, <2>3, Zenon DEF AskedBy
<1>8. Hit(Tables!SectionMapping, w) = IF InRange(w \div PTRS) THEN own ELSE Tables!None
  BY <1>1, BootIsSound, Zenon
<1>9. Leads(own, va) = [pa |-> va, prot |-> Tables!SECTION_KERNEL_RWX]
  <2>1. own.page = w /\ own.prot = Tables!SECTION_KERNEL_RWX
    OBVIOUS
  <2>2. "V" \in {"V", "A", "R", "X", "W", "D"}
        /\ {"V", "A", "R", "X", "W", "D"} \cap {"R", "W", "X"} # {}
    OBVIOUS
  <2>3. Tables!Leaf(own)
    BY <2>1, <2>2, Zenon DEF Tables!Leaf, Tables!SECTION_KERNEL_RWX
  <2>4. own # Tables!None
    BY <2>3, EntryKinds
  <2> HIDE DEF own
  <2> QED
    BY <1>2, <2>1, <2>4, Zenon DEF Leads
<1>10. Leads(Tables!None, va) = [pa |-> va, prot |-> {}]
  BY Zenon DEF Leads
<1> HIDE DEF own
<1> QED
  BY <1>3, <1>5, <1>6, <1>7, <1>8, <1>9, <1>10, Zenon

LEMMA TablesInit == Tables!Init => TablesIInv
<1> SUFFICES ASSUME Tables!Init PROVE TablesIInv
  OBVIOUS
<1>1. PICK kernel \in BOOLEAN :
        /\ entry = IF kernel THEN Tables!SectionMapping ELSE Tables!EmptyTables
        /\ calls = IF kernel THEN <<Tables!SectionCall>> ELSE <<>>
  BY Zenon DEF Tables!Init
<1>2. taken = 0
  BY DEF Tables!Init
<1>3. <<Tables!SectionCall>> \in CallsMade /\ <<>> \in CallsMade
  BY DEF CallsMade
<1>4. CASE kernel
  <2>1. entry = Tables!SectionMapping /\ calls = <<Tables!SectionCall>>
    BY <1>1, <1>4
  <2> QED
    <3>1. Tables!Kernel
      BY <2>1 DEF Tables!Kernel
    <3> QED
      BY <1>2, <1>3, <2>1, <3>1, BootIsSound, BootLeads, Zenon DEF TablesIInv
<1>5. CASE ~kernel
  <2>1. entry = Tables!EmptyTables /\ calls = <<>>
    BY <1>1, <1>5
  <2>2. ASSUME NEW va \in 0 .. Tables!VaEnd - 1
        PROVE  Leads(Hit(entry, va \div PAGE_SIZE), va) = LastAsked(calls, va)
    <3>0. va \in Nat /\ va < Tables!VaEnd
      BY TableNumbers
    <3>1. va \div PAGE_SIZE \in Ptes
      BY <3>0, PageInSpace
    <3>2. Hit(entry, va \div PAGE_SIZE) = Tables!None
      BY <2>1, <3>1, EmptyIsSound, Zenon
    <3>3. Covers(<<>>, va) = {}
      BY DEF Covers
    <3> QED
      BY <2>1, <3>2, <3>3, Zenon DEF Leads, LastAsked
  <2> QED
    BY <1>2, <1>3, <2>1, <2>2, EmptyIsSound, Zenon DEF TablesIInv
<1> QED
  BY <1>4, <1>5

LEMMA TablesStep == TablesIInv /\ [Tables!Next]_tables => TablesIInv'
<1> SUFFICES ASSUME TablesIInv, [Tables!Next]_tables PROVE TablesIInv'
  OBVIOUS
<1>1. CASE UNCHANGED tables
  BY <1>1, Zenon DEF tables, TablesIInv, Sound, Tree, Typed, InBoot, Tables!Kernel
<1>2. CASE Tables!Next
  <2> DEFINE old == [entry |-> entry, taken |-> taken]
             was == [taken |-> taken, entry |-> entry]
  <2>1. PICK c \in Tables!Requested :
          /\ LET m == Tables!CreatePgdMapping(old, c) IN entry' = m.entry /\ taken' = m.taken
          /\ calls' = Append(calls, c)
    BY <1>2, Zenon DEF Tables!Next, Tables!Map
  <2> DEFINE m == Tables!CreatePgdMapping(old, c)
  <2>2. old = was /\ was.entry = entry
    OBVIOUS
  <2>3. Sound(was)
    BY Zenon DEF TablesIInv
  <2>4. entry' = m.entry /\ taken' = m.taken
    BY <2>1, Zenon
  <2> HIDE DEF old, m, was
  <2>5. Became(was, m, FirstPage(c), PastPage(c), ToPage(c), c.prot)
    <3>1. Became(was, Tables!CreatePgdMapping(was, c), FirstPage(c), PastPage(c), ToPage(c), c.prot)
      BY <2>3, PgdBecomes
    <3> QED
      BY <2>2, <3>1, Zenon DEF m
  <2>6. Sound([taken |-> taken', entry |-> entry'])
    <3>1. Sound(m)
      BY <2>5, Zenon DEF Became
    <3>2. m = [taken |-> m.taken, entry |-> m.entry]
      BY <3>1, Zenon DEF Sound
    <3> QED
      BY <2>4, <3>1, <3>2, Zenon
  <2>7. calls' \in CallsMade
    <3>1. calls \in CallsMade /\ c \in Mappings
      BY DEF TablesIInv, Tables!Requested
    <3> QED
      BY <2>1, <3>1 DEF CallsMade
  <2>8. ASSUME NEW va \in 0 .. Tables!VaEnd - 1
        PROVE  Leads(Hit(entry', va \div PAGE_SIZE), va) = LastAsked(calls', va)
    <3> DEFINE w == va \div PAGE_SIZE
    <3>1. va \in Nat /\ w \in Ptes
      <4>1. va \in Nat /\ va < Tables!VaEnd
        BY TableNumbers
      <4> QED
        BY <4>1, PageInSpace, Zenon
    <3>2. /\ c.virt \in Nat /\ c.phys \in Nat /\ c.size \in Nat /\ c.size > 0 /\ IsLeaf(c.prot)
      BY CallIsWanted
    <3>3. va \in Tables!Covered(c) <=> w \in FirstPage(c) .. PastPage(c) - 1
      BY <3>1, <3>2, CallInPages, Zenon
    <3>4. Hit(entry', w) = IF w \in FirstPage(c) .. PastPage(c) - 1
                           THEN [page |-> ToPage(c) + (w - FirstPage(c)), prot |-> c.prot]
                           ELSE Hit(entry, w)
      BY <2>2, <2>4, <2>5, <3>1, Zenon DEF Became
    <3>5. LastAsked(calls', va) = IF va \in Tables!Covered(c) THEN AskedBy(c, va)
                                  ELSE LastAsked(calls, va)
      <4>1. calls \in Seq(Mappings \cup {Tables!SectionCall}) /\ c \in Mappings \cup {Tables!SectionCall}
        BY DEF TablesIInv, CallsMade, Tables!Requested
      <4> QED
        BY <2>1, <4>1, OneMoreCall, Zenon
    <3>6. CASE va \in Tables!Covered(c)
      <4>1. Leads([page |-> ToPage(c) + (w - FirstPage(c)), prot |-> c.prot], va)
              = AskedBy(c, va)
        BY <3>1, <3>2, <3>6, CallLeads, Zenon
      <4> QED
        BY <3>3, <3>4, <3>5, <3>6, <4>1, Zenon
    <3>7. CASE va \notin Tables!Covered(c)
      <4>1. Leads(Hit(entry, w), va) = LastAsked(calls, va)
        BY Zenon DEF TablesIInv
      <4> QED
        BY <3>3, <3>4, <3>5, <3>7, <4>1, Zenon
    <3> QED
      BY <3>6, <3>7
  <2>9. Tables!Kernel => Tables!Kernel'
    <3>1. calls \in CallsMade
      BY DEF TablesIInv
    <3> QED
      BY <2>1, <3>1 DEF CallsMade, Tables!Kernel
  <2>10. Sound([taken |-> taken, entry |-> entry])'
    <3> DEFINE now == [taken |-> taken', entry |-> entry']
    <3>1. now.taken = taken' /\ now.entry = entry'
      OBVIOUS
    <3> HIDE DEF now
    <3>2. /\ Typed(entry', taken') /\ OwnTables(entry') /\ RestKept(entry', taken')
          /\ Counted(entry', taken')
      BY <2>6, <3>1, Zenon DEF Sound, Tree, now
    <3>3. Typed(entry, taken)'
      BY <2>9, <3>2, Zenon DEF Typed, InBoot
    <3> QED
      BY <3>2, <3>3 DEF Sound, Tree
  <2> QED
    BY <2>7, <2>8, <2>10, Zenon DEF TablesIInv
<1> QED
  BY <1>1, <1>2

\* What the hart sees.
LEMMA TablesMap == TablesIInv => Tables!MapsExactly
<1> SUFFICES ASSUME TablesIInv PROVE Tables!MapsExactly
  OBVIOUS
<1>1. Tree(entry, taken)
  <2> DEFINE m == [taken |-> taken, entry |-> entry]
  <2>1. m.taken = taken /\ m.entry = entry /\ Sound(m)
    BY DEF TablesIInv
  <2> HIDE DEF m
  <2> QED
    BY <2>1, Zenon DEF Sound
<1>2. ASSUME NEW va \in 0 .. Tables!VaEnd - 1 PROVE Tables!Walk(va) = Tables!Asked(va)
  <2>1. va \in Nat /\ va < Tables!VaEnd
    BY TableNumbers
  <2>2. Tables!Walk(va) = Leads(Hit(entry, va \div PAGE_SIZE), va)
    BY <1>1, <2>1, WalkIs DEF Tree
  <2>3. Tables!Asked(va) = LastAsked(calls, va)
    BY Zenon DEF Tables!Asked, Tables!Covering, LastAsked, Covers, AskedBy
  <2> QED
    BY <2>2, <2>3, Zenon DEF TablesIInv
<1>3. ASSUME NEW a \in DOMAIN entry, a \div PTRS \notin Tables!TablePages
      PROVE  entry[a] = Tables!SectionMapping[a]
  <2>1. Tables!TablePages = {PgDir} \cup Pool(taken)
    BY DEF Tables!TablePages, Pool
  <2>2. DOMAIN entry = Ddr
    BY <1>1, Zenon DEF Tree, Typed
  <2> QED
    BY <1>1, <1>3, <2>1, <2>2, Zenon DEF Tree, RestKept
<1> QED
  BY <1>2, <1>3, Zenon DEF Tables!MapsExactly

\* Lines of the dump that show the addresses from a to b - 1: they are in
\* order, and tell the protection of each address that is mapped.
ProtAt(va) == Hit(entry, va \div PAGE_SIZE).prot
DumpLines == [start : Nat, end : Nat, prot : {entry[a].prot : a \in DOMAIN entry}]
Told(S, va) == {l.prot : l \in {m \in S : va \in m.start .. m.end - 1}}
Shows(L, a, b) ==
    /\ L \in Seq(DumpLines)
    /\ \A k \in 1 .. Len(L) : a <= L[k].start /\ L[k].end <= b
    /\ \A k \in 2 .. Len(L) : L[k - 1].end <= L[k].start
    /\ \A va \in a .. b - 1 : Told(Tables!ToSet(L), va) = {ProtAt(va)} \ {{}}

LEMMA ShowsLine ==
    ASSUME NEW a \in Nat, NEW b \in Nat, NEW p \in DOMAIN entry,
           NEW e, e = entry[p], e = Tables!None \/ Tables!Leaf(e),
           \A va \in a .. b - 1 : ProtAt(va) = e.prot
    PROVE  Shows(Tables!Line(a, b, e), a, b)
<1>1. CASE e = Tables!None
  <2>1. Tables!Line(a, b, e) = <<>>
    BY <1>1, Zenon DEF Tables!Line
  <2>2. e.prot = {}
    BY <1>1 DEF Tables!None
  <2>3. <<>> \in Seq(DumpLines) /\ Len(<<>>) = 0 /\ Tables!ToSet(<<>>) = {}
    BY DEF Tables!ToSet
  <2>4. \A va \in a .. b - 1 : Told({}, va) = {ProtAt(va)} \ {{}}
    <3> SUFFICES ASSUME NEW va \in a .. b - 1 PROVE Told({}, va) = {ProtAt(va)} \ {{}}
      OBVIOUS
    <3>1. ProtAt(va) = {}
      BY <2>2
    <3>2. Told({}, va) = {}
      BY DEF Told
    <3> QED
      BY <3>1, <3>2
  <2>5. 1 .. 0 = {} /\ 2 .. 0 = {}
    OBVIOUS
  <2> QED
    BY <2>1, <2>3, <2>4, <2>5, Zenon DEF Shows
<1>2. CASE Tables!Leaf(e)
  <2> DEFINE line == [start |-> a, end |-> b, prot |-> e.prot]
             L == <<line>>
  <2>1. Tables!Line(a, b, e) = L
    <3>1. e # Tables!None
      BY <1>2, EntryKinds
    <3> QED
      BY <3>1, Zenon DEF Tables!Line
  <2>2. line \in DumpLines
    BY DEF DumpLines
  <2>3. line.start = a /\ line.end = b /\ line.prot = e.prot
    OBVIOUS
  <2>4. e.prot # {}
    BY <1>2, Zenon DEF Tables!Leaf
  <2> HIDE DEF line
  <2>5. L \in Seq(DumpLines) /\ Len(L) = 1 /\ L[1] = line /\ Tables!ToSet(L) = {line}
    BY <2>2 DEF Tables!ToSet
  <2> HIDE DEF L
  <2>6. \A va \in a .. b - 1 : Told(Tables!ToSet(L), va) = {ProtAt(va)} \ {{}}
    <3> SUFFICES ASSUME NEW va \in a .. b - 1
                 PROVE  Told({line}, va) = {ProtAt(va)} \ {{}}
      BY <2>5
    <3>1. {m \in {line} : va \in m.start .. m.end - 1} = {line}
      BY <2>3
    <3>2. Told({line}, va) = {line.prot}
      BY <3>1, Zenon DEF Told
    <3>3. ProtAt(va) = line.prot /\ line.prot # {}
      BY <2>3, <2>4
    <3> QED
      BY <3>2, <3>3
  <2>7. /\ \A k \in 1 .. Len(L) : a <= L[k].start /\ L[k].end <= b
        /\ \A k \in 2 .. Len(L) : L[k - 1].end <= L[k].start
    BY <2>3, <2>5
  <2>8. Shows(L, a, b)
    BY <2>5, <2>6, <2>7, Zenon DEF Shows
  <2> QED
    BY <2>1, <2>8
<1> QED
  BY <1>1, <1>2

LEMMA ShowsJoin ==
    ASSUME NEW L, NEW M, NEW a \in Nat, NEW b \in Nat, NEW c \in Nat, a <= b, b <= c,
           Shows(L, a, b), Shows(M, b, c)
    PROVE  Shows(L \o M, a, c)
<1> DEFINE X == DumpLines
           l == Len(L)
           m == Len(M)
           N == L \o M
<1>1. L \in Seq(X) /\ M \in Seq(X) /\ l \in Nat /\ m \in Nat
  BY DEF Shows
<1>2. /\ \A k \in 1 .. l : a <= L[k].start /\ L[k].end <= b
      /\ \A k \in 2 .. l : L[k - 1].end <= L[k].start
      /\ \A k \in 1 .. m : b <= M[k].start /\ M[k].end <= c
      /\ \A k \in 2 .. m : M[k - 1].end <= M[k].start
  BY DEF Shows
<1>3. /\ N \in Seq(X) /\ Len(N) = l + m
      /\ \A k \in 1 .. l : N[k] = L[k]
      /\ \A k \in l + 1 .. l + m : N[k] = M[k - l]
  BY <1>1
<1>4. (\A k \in 1 .. l : L[k] \in X) /\ (\A i \in 1 .. m : M[i] \in X)
  BY <1>1
<1>5. \A line \in X : line.start \in Nat /\ line.end \in Nat
  BY DEF DumpLines
<1>6. Tables!ToSet(N) = Tables!ToSet(L) \cup Tables!ToSet(M)
  <2> HIDE DEF N
  <2>1. /\ Tables!ToSet(L) = {L[k] : k \in 1 .. l} /\ Tables!ToSet(M) = {M[k] : k \in 1 .. m}
        /\ Tables!ToSet(N) = {N[k] : k \in 1 .. l + m}
    <3>1. DOMAIN L = 1 .. l /\ DOMAIN M = 1 .. m /\ DOMAIN N = 1 .. l + m
      BY <1>1, <1>3
    <3> QED
      BY <3>1, Zenon DEF Tables!ToSet
  <2>2. \A k \in 1 .. m : k + l \in l + 1 .. l + m /\ (k + l) - l = k
    BY <1>1
  <2>3. \A k \in 1 .. l + m : k \in 1 .. l \/ (k \in l + 1 .. l + m /\ k - l \in 1 .. m)
    BY <1>1
  <2>4. \A k \in 1 .. l : k \in 1 .. l + m
    BY <1>1
  <2>5. \A k \in l + 1 .. l + m : k \in 1 .. l + m
    BY <1>1
  <2>6. \A k \in 1 .. m : N[k + l] = M[k] /\ k + l \in 1 .. l + m
    BY <1>3, <2>2, <2>5
  <2> HIDE DEF l, m
  <2>7. Tables!ToSet(N) \subseteq Tables!ToSet(L) \cup Tables!ToSet(M)
    <3> SUFFICES ASSUME NEW k \in 1 .. l + m
                 PROVE  N[k] \in {L[i] : i \in 1 .. l} \cup {M[i] : i \in 1 .. m}
      BY <2>1, Zenon
    <3>1. CASE k \in 1 .. l
      BY <1>3, <3>1
    <3>2. CASE k \in l + 1 .. l + m /\ k - l \in 1 .. m
      BY <1>3, <3>2
    <3> QED
      BY <2>3, <3>1, <3>2
  <2>8. Tables!ToSet(L) \subseteq Tables!ToSet(N)
    BY <1>3, <2>1, <2>4
  <2>9. Tables!ToSet(M) \subseteq Tables!ToSet(N)
    BY <2>1, <2>6
  <2> QED
    BY <2>7, <2>8, <2>9
<1> HIDE DEF N
<1>7. \A k \in 1 .. Len(N) : a <= N[k].start /\ N[k].end <= c
  <2> SUFFICES ASSUME NEW k \in 1 .. l + m PROVE a <= N[k].start /\ N[k].end <= c
    BY <1>3
  <2>1. CASE k \in 1 .. l
    BY <1>2, <1>3, <1>4, <1>5, <2>1
  <2>2. CASE k \notin 1 .. l
    <3>1. k \in l + 1 .. l + m /\ k - l \in 1 .. m
      BY <1>1, <2>2
    <3>2. N[k] = M[k - l] /\ M[k - l] \in X
      BY <1>1, <1>3, <3>1
    <3> QED
      BY <1>2, <1>5, <3>1, <3>2
  <2> QED
    BY <2>1, <2>2
<1>8. \A k \in 2 .. Len(N) : N[k - 1].end <= N[k].start
  <2> SUFFICES ASSUME NEW k \in 2 .. l + m PROVE N[k - 1].end <= N[k].start
    BY <1>3
  <2>1. CASE k \in 1 .. l
    <3>1. k - 1 \in 1 .. l /\ k \in 2 .. l
      BY <2>1
    <3> QED
      BY <1>2, <1>3, <2>1, <3>1
  <2>2. CASE k = l + 1
    <3>1. k - 1 \in 1 .. l /\ 1 \in 1 .. m /\ k - l = 1 /\ k \in l + 1 .. l + m
      BY <1>1, <2>2
    <3>2. N[k - 1] = L[k - 1] /\ N[k] = M[k - l] /\ M[1] \in X /\ L[k - 1] \in X
      <4>1. N[k - 1] = L[k - 1] /\ N[k] = M[k - l]
        BY <1>3, <3>1
      <4>2. M[1] \in X /\ L[k - 1] \in X
        BY <1>4, <3>1
      <4> QED
        BY <4>1, <4>2
    <3>3. L[k - 1].end <= b /\ b <= M[1].start
      BY <1>2, <3>1
    <3> QED
      BY <1>5, <3>1, <3>2, <3>3
  <2>3. CASE k > l + 1
    <3>1. k - l \in 2 .. m /\ k \in l + 1 .. l + m /\ k - 1 \in l + 1 .. l + m
          /\ (k - 1) - l = (k - l) - 1
      BY <1>1, <2>3
    <3>2. N[k] = M[k - l] /\ N[k - 1] = M[(k - l) - 1]
      BY <1>3, <3>1
    <3> QED
      BY <1>2, <3>1, <3>2
  <2> QED
    BY <1>1, <2>1, <2>2, <2>3
<1>9. ASSUME NEW va \in a .. c - 1 PROVE Told(Tables!ToSet(N), va) = {ProtAt(va)} \ {{}}
  <2> DEFINE S == Tables!ToSet(L)
             T == Tables!ToSet(M)
  <2>1. Told(Tables!ToSet(N), va) = Told(S, va) \cup Told(T, va)
    <3> HIDE DEF S, T
    <3> QED
      BY <1>6 DEF Told, S, T
  <2>2. CASE va < b
    <3>1. va \in a .. b - 1
      BY <2>2
    <3>2. Told(S, va) = {ProtAt(va)} \ {{}}
      BY <3>1, Zenon DEF Shows
    <3>3. Told(T, va) = {}
      <4>1. \A k \in 1 .. m : ~(va \in M[k].start .. M[k].end - 1)
        BY <1>1, <1>2, <1>5, <2>2
      <4>2. T = {M[k] : k \in 1 .. m}
        BY <1>1 DEF Tables!ToSet
      <4>3. {x \in T : va \in x.start .. x.end - 1} = {}
        <5> HIDE DEF T, m
        <5> QED
          BY <4>1, <4>2, Zenon
      <4> HIDE DEF T
      <4> QED
        BY <4>3 DEF Told
    <3> QED
      BY <2>1, <3>2, <3>3
  <2>3. CASE ~(va < b)
    <3>1. va \in b .. c - 1
      BY <2>3
    <3>2. Told(T, va) = {ProtAt(va)} \ {{}}
      BY <3>1, Zenon DEF Shows
    <3>3. Told(S, va) = {}
      <4>1. \A k \in 1 .. l : ~(va \in L[k].start .. L[k].end - 1)
        <5>1. \A k \in 1 .. l : L[k].end \in Nat /\ L[k].start \in Nat /\ L[k].end <= b
          BY <1>1, <1>2, <1>5
        <5> QED
          BY <2>3, <5>1
      <4>2. S = {L[k] : k \in 1 .. l}
        BY <1>1 DEF Tables!ToSet
      <4>3. {x \in S : va \in x.start .. x.end - 1} = {}
        <5> HIDE DEF S, l
        <5> QED
          BY <4>1, <4>2, Zenon
      <4> HIDE DEF S
      <4> QED
        BY <4>3 DEF Told
    <3> QED
      BY <2>1, <3>2, <3>3
  <2> QED
    BY <2>2, <2>3
<1> QED
  BY <1>3, <1>7, <1>8, <1>9, Zenon DEF Shows, N

\* Lines one behind the other show the ranges one behind the other.
LEMMA ShowsAll ==
    ASSUME NEW n \in Nat, n >= 1, NEW F, DOMAIN F = 1 .. n, F = [k \in 1 .. n |-> F[k]],
           NEW e \in [0 .. n -> Nat], \A k \in 1 .. n : e[k - 1] <= e[k],
           \A k \in 1 .. n : Shows(F[k], e[k - 1], e[k])
    PROVE  Shows(Tables!FlattenSeq(F), e[0], e[n])
<1> DEFINE X == DumpLines
<1>1. Listed(F, X, n)
  <2>1. \A k \in 1 .. n : F[k] \in Seq(X)
    BY Zenon DEF Shows
  <2>2. F \in [1 .. n -> Seq(X)]
    BY <2>1
  <2> QED
    BY <2>2 DEF Listed
<1>2. PICK f : Flattens(f, X, F, n)
  BY <1>1, FlattenIs, Zenon
<1>3. /\ FlattenSeq(F) = f[n] /\ f[1] = F[1]
      /\ \A i \in 2 .. n : f[i] = f[i - 1] \o F[i]
  BY <1>2, Zenon DEF Flattens
<1>4. Tables!FlattenSeq(F) = FlattenSeq(F)
  BY Zenon DEF Tables!FlattenSeq, FlattenSeq
<1> DEFINE Bad == {k \in Nat : k \in 1 .. n /\ ~(Shows(f[k], e[0], e[k]) /\ e[0] <= e[k])}
<1>5. ASSUME Bad # {} PROVE FALSE
  <2>1. PICK k \in Bad : \A i \in Bad : k <= i
    <3>1. Bad \in SUBSET Nat
      OBVIOUS
    <3> HIDE DEF Bad
    <3> QED
      BY <1>5, <3>1, LeastNat
  <2>2. k \in 1 .. n /\ ~(Shows(f[k], e[0], e[k]) /\ e[0] <= e[k]) /\ k \in Nat
    BY <2>1
  <2>3. CASE k = 1
    <3>1. Shows(F[1], e[1 - 1], e[1]) /\ e[1 - 1] <= e[1] /\ 1 - 1 = 0
      BY <2>2, <2>3
    <3> QED
      BY <1>3, <2>2, <2>3, <3>1
  <2>4. CASE k # 1
    <3>1. k \in 2 .. n /\ k - 1 \in 1 .. n /\ k - 1 \in Nat /\ ~(k <= k - 1)
          /\ k - 1 \in 0 .. n /\ k \in 0 .. n /\ 0 \in 0 .. n
      BY <2>2, <2>4
    <3>2. k - 1 \notin Bad
      <4> HIDE DEF Bad
      <4> QED
        BY <2>1, <3>1
    <3>3. Shows(f[k - 1], e[0], e[k - 1]) /\ e[0] <= e[k - 1]
      BY <3>1, <3>2
    <3>4. Shows(F[k], e[k - 1], e[k]) /\ e[k - 1] <= e[k]
      BY <2>2
    <3>5. e[0] \in Nat /\ e[k - 1] \in Nat /\ e[k] \in Nat
      BY <3>1
    <3>6. Shows(f[k - 1] \o F[k], e[0], e[k])
      BY <3>3, <3>4, <3>5, ShowsJoin, Zenon
    <3>7. f[k] = f[k - 1] \o F[k]
      BY <1>3, <3>1
    <3> QED
      BY <2>2, <3>3, <3>4, <3>5, <3>6, <3>7
  <2> QED
    BY <2>3, <2>4
<1>6. Shows(f[n], e[0], e[n])
  BY <1>5
<1> QED
  BY <1>3, <1>4, <1>6

\* Where the pieces of a range of pages end, as addresses.
Ends(x, y, s) ==
  [k \in 0 .. Cuts(x, y, s) |-> (IF k = 0 THEN x ELSE Slice(x, y, s, k).next) * PAGE_SIZE]

LEMMA EndsAre ==
    ASSUME NEW x \in Nat, NEW y \in Nat, x < y, NEW s \in Nat, s >= 1
    PROVE  LET n == Cuts(x, y, s)
               e == Ends(x, y, s)
           IN  /\ n \in Nat /\ n >= 1 /\ e \in [0 .. n -> Nat]
               /\ e[0] = x * PAGE_SIZE /\ e[n] = y * PAGE_SIZE
               /\ \A k \in 1 .. n : /\ e[k - 1] = Slice(x, y, s, k).addr * PAGE_SIZE
                                    /\ e[k] = Slice(x, y, s, k).next * PAGE_SIZE
                                    /\ e[k - 1] <= e[k]
<1> DEFINE n == Cuts(x, y, s)
           e == Ends(x, y, s)
           E(k) == IF k = 0 THEN x ELSE Slice(x, y, s, k).next
<1>1. n \in Nat /\ n >= 1
  BY EndIs
<1>2. PAGE_SIZE \in Nat
  BY TableNumbers
<1>3. e = [k \in 0 .. n |-> E(k) * PAGE_SIZE]
  BY Zenon DEF Ends
<1>4. ASSUME NEW k \in 1 .. n
      PROVE  /\ Slice(x, y, s, k).addr \in Nat /\ Slice(x, y, s, k).next \in Nat
             /\ Slice(x, y, s, k).addr < Slice(x, y, s, k).next
             /\ k = 1 => Slice(x, y, s, k).addr = x
             /\ k > 1 => Slice(x, y, s, k).addr = Slice(x, y, s, k - 1).next
             /\ k = n => Slice(x, y, s, k).next = y
  BY SliceIs
<1> HIDE DEF n, e
<1>5. \A k \in 0 .. n : E(k) \in Nat
  <2> SUFFICES ASSUME NEW k \in 0 .. n PROVE E(k) \in Nat
    BY Zenon
  <2>1. CASE k = 0
    BY <2>1
  <2>2. CASE k # 0
    <3>1. k \in 1 .. n
      BY <2>2
    <3>2. Slice(x, y, s, k).next \in Nat
      BY <1>4, <3>1
    <3> QED
      BY <2>2, <3>2, Zenon
  <2> QED
    BY <2>1, <2>2
<1>6. ASSUME NEW k \in 1 .. n
      PROVE  E(k - 1) = Slice(x, y, s, k).addr /\ E(k) = Slice(x, y, s, k).next
  <2>1. k # 0 /\ (k = 1 <=> k - 1 = 0) /\ (k # 1 => k > 1) /\ k \in Nat
    BY <1>1
  <2>2. E(k) = Slice(x, y, s, k).next
    BY <2>1, Zenon
  <2>3. CASE k = 1
    BY <1>4, <2>1, <2>3
  <2>4. CASE k # 1
    <3>1. k - 1 # 0 /\ k > 1
      BY <2>1, <2>4
    <3>2. Slice(x, y, s, k).addr = Slice(x, y, s, k - 1).next
      BY <1>4, <3>1
    <3> QED
      BY <2>2, <3>1, <3>2, Zenon
  <2> QED
    BY <2>2, <2>3, <2>4
<1>7. E(0) = x
  OBVIOUS
<1>8. E(n) = y
  <2>1. n \in 1 .. n /\ n # 0
    BY <1>1
  <2>2. Slice(x, y, s, n).next = y
    BY <1>4, <2>1
  <2> QED
    BY <2>1, <2>2
<1> HIDE DEF E
<1>9. \A k \in 0 .. n : e[k] = E(k) * PAGE_SIZE /\ e[k] \in Nat
  <2>1. \A a \in Nat : a * PAGE_SIZE \in Nat
    BY <1>2
  <2> QED
    BY <1>3, <1>5, <2>1
<1>10. e \in [0 .. n -> Nat]
  BY <1>3, <1>9
<1>11. 0 \in 0 .. n /\ n \in 0 .. n
  BY <1>1
<1>12. ASSUME NEW k \in 1 .. n
       PROVE  /\ e[k - 1] = Slice(x, y, s, k).addr * PAGE_SIZE
              /\ e[k] = Slice(x, y, s, k).next * PAGE_SIZE
              /\ e[k - 1] <= e[k]
  <2>1. k - 1 \in 0 .. n /\ k \in 0 .. n
    BY <1>1
  <2>2. /\ e[k - 1] = Slice(x, y, s, k).addr * PAGE_SIZE
        /\ e[k] = Slice(x, y, s, k).next * PAGE_SIZE
    BY <1>6, <1>9, <2>1
  <2>3. \A a, b \in Nat : a < b => a * PAGE_SIZE <= b * PAGE_SIZE
    BY <1>2
  <2>4. e[k - 1] <= e[k]
    BY <1>4, <2>2, <2>3
  <2> QED
    BY <2>2, <2>4
<1>13. e[0] = x * PAGE_SIZE /\ e[n] = y * PAGE_SIZE
  BY <1>7, <1>8, <1>9, <1>11
<1> QED
  BY <1>1, <1>10, <1>12, <1>13 DEF n, e

\* The entries of a table lie one behind the other.
LEMMA AtMore ==
    ASSUME NEW p \in Nat, NEW a \in Int, NEW b \in Int
    PROVE  Tables!At(p, a) + b = Tables!At(p, a + b)
<1>1. p * PTRS \in Int
  BY TableNumbers
<1>2. p * PTRS + a + b = p * PTRS + (a + b)
  BY <1>1
<1> QED
  BY <1>2, Zenon DEF Tables!At

\* The page of an address of some pages.
LEMMA PageWithin ==
    ASSUME NEW x \in Nat, NEW y \in Nat, NEW va \in x * PAGE_SIZE .. y * PAGE_SIZE - 1
    PROVE  va \in Nat /\ va \div PAGE_SIZE \in x .. y - 1
<1>1. PAGE_SIZE \in Nat /\ PAGE_SIZE >= 1
  BY TableNumbers
<1>2. x * PAGE_SIZE \in Nat /\ y * PAGE_SIZE \in Nat /\ x \in Int /\ y \in Int
  BY <1>1
<1>3. va \in Nat /\ va >= x * PAGE_SIZE /\ va < y * PAGE_SIZE
  BY <1>2
<1>4. va \div PAGE_SIZE < y /\ va \div PAGE_SIZE >= x
  BY <1>1, <1>2, <1>3, DividedBelow
<1>5. va \div PAGE_SIZE \in Int
  BY <1>1, <1>3
<1> QED
  BY <1>3, <1>4, <1>5

\* walk_pte: one line for each page that is mapped.
LEMMA PteShown ==
    ASSUME NEW n, Typed(entry, n), NEW x \in Ptes, NEW y \in Nat, x < y,
           (y - 1) \div PTRS = x \div PTRS, Has2(entry, x \div PTRS)
    PROVE  Shows(Tables!WalkPte(Slot2(entry, x \div PTRS), x * PAGE_SIZE, y * PAGE_SIZE),
                 x * PAGE_SIZE, y * PAGE_SIZE)
<1> DEFINE p == PAGE_SIZE
           j == x \div PTRS
           N == y - x
           head == Slot3(entry, x)
           page == entry[Slot2(entry, j)].page
           A(k) == x * p + (k - 1) * p
           F == [k \in 1 .. N |-> Tables!Line(A(k), A(k) + p, entry[head + k - 1])]
           e == [k \in 0 .. N |-> (x + k) * p]
           L == Tables!WalkPte(Slot2(entry, j), x * p, y * p)
<1>1. /\ p \in Nat /\ p >= 1 /\ PTRS \in Nat /\ PTRS >= 1 /\ x \in Nat /\ j \in Pmds
      /\ N \in Nat /\ N >= 1
  <2>1. x \in Nat /\ j \in Pmds
    BY NumbersNest
  <2> HIDE DEF j
  <2> QED
    BY <2>1, TableNumbers
<1>2. x * p \in Nat /\ (x * p) \div p = x /\ y * p \in Nat
  BY <1>1, DividedNext
<1>3. Tables!PtepFromPmdp(entry, Slot2(entry, j), x * p) = head
  <2>1. Tables!Index(x * p, p) = x % PTRS
    BY <1>2, Zenon DEF Tables!Index
  <2> QED
    BY <2>1, Zenon DEF Tables!PtepFromPmdp, Slot3
<1>4. (y * p - x * p) \div p = N
  <2>1. y * p - x * p = N * p
    BY <1>1
  <2>2. (N * p) \div p = N
    <3> HIDE DEF N
    <3> QED
      BY <1>1, DividedNext
  <2> QED
    BY <2>1, <2>2
<1>5. L = Tables!FlattenSeq(F)
  <2> DEFINE first == Tables!PtepFromPmdp(entry, Slot2(entry, j), x * p)
             c == (y * p - x * p) \div p
  <2>1. L = Tables!FlattenSeq([k \in 1 .. c |-> Tables!Line(A(k), A(k) + p, entry[first + k - 1])])
    BY Zenon DEF Tables!WalkPte
  <2>2. first = head /\ c = N
    BY <1>3, <1>4
  <2> HIDE DEF first, c
  <2> QED
    BY <2>1, <2>2, Zenon
<1>6. page \in Nat
  <2>1. page \in Pool(n) /\ n \in 0 .. Len(FreePages)
    BY <1>1, SlotsLie, Zenon DEF Typed
  <2> QED
    BY <2>1, PoolIs, Zenon
<1>7. ASSUME NEW k \in 1 .. N PROVE Shows(F[k], e[k - 1], e[k]) /\ e[k - 1] <= e[k]
  <2> DEFINE w == x + (k - 1)
             f == entry[head + k - 1]
  <2>1. w \in Nat /\ x <= w /\ w <= y - 1 /\ y - 1 \in Nat /\ w + 1 = x + k /\ w - x = k - 1
        /\ k - 1 \in 0 .. N /\ k \in 0 .. N /\ k - 1 \in Nat
    BY <1>1
  <2>2. w \div PTRS = j /\ w % PTRS = (x % PTRS) + (k - 1)
    <3>1. w \div PTRS = x \div PTRS /\ w % PTRS = (x % PTRS) + (w - x)
      <4> DEFINE z == y - 1
      <4>1. x \in Nat /\ w \in Nat /\ z \in Nat /\ x <= w /\ w <= z
            /\ x \div PTRS = z \div PTRS
        BY <1>1, <2>1
      <4> HIDE DEF w, z
      <4> QED
        BY <1>1, <4>1, SameTable
    <3> HIDE DEF w
    <3> QED
      BY <2>1, <3>1
  <2>3. w \in Ptes
    BY <1>1, <2>1, <2>2, Zenon DEF Ptes
  <2>4. head + k - 1 = Slot3(entry, w)
    <3>1. x % PTRS \in Int /\ k - 1 \in Int
      BY <1>1
    <3>2. Tables!At(page, x % PTRS) + (k - 1) = Tables!At(page, (x % PTRS) + (k - 1))
      <4> DEFINE d == x % PTRS
                 g == k - 1
      <4>1. d \in Int /\ g \in Int
        BY <3>1
      <4> HIDE DEF d, g, page
      <4>2. Tables!At(page, d) + g = Tables!At(page, d + g)
        BY <1>6, <4>1, AtMore
      <4> QED
        BY <4>2 DEF d, g
    <3>3. head = Tables!At(page, x % PTRS)
      BY Zenon DEF Slot3
    <3>4. Slot3(entry, w) = Tables!At(page, w % PTRS)
      <4> HIDE DEF w
      <4> QED
        BY <2>2, Zenon DEF Slot3
    <3>5. head \in Int
      <4>1. x % PTRS \in Pgds
        BY NumbersNest
      <4> HIDE DEF head, page
      <4> QED
        BY <1>6, <3>3, <4>1, AtIs
    <3>6. head + k - 1 = head + (k - 1)
      <4> HIDE DEF head
      <4> QED
        BY <3>5
    <3> HIDE DEF head, w, page
    <3> QED
      BY <2>2, <3>2, <3>3, <3>4, <3>6
  <2>5. /\ f = entry[Slot3(entry, w)] /\ Slot3(entry, w) \in DOMAIN entry
        /\ f = Tables!None \/ Tables!Leaf(f)
    <3>1. f = entry[Slot3(entry, w)]
      BY <2>4
    <3>2. Has2(entry, w \div PTRS)
      BY <2>2, Zenon
    <3> HIDE DEF w, f
    <3> QED
      BY <2>3, <3>1, <3>2, SlotsLie, Zenon DEF Typed
  <2>6. Hit(entry, w) = f
    <3>1. Has2(entry, w \div PTRS)
      BY <2>2, Zenon
    <3> HIDE DEF w, f
    <3> QED
      BY <2>5, <3>1, Zenon DEF Hit, Has2
  <2>7. A(k) = w * p /\ A(k) + p = (w + 1) * p /\ w * p \in Nat /\ (w + 1) * p \in Nat
    <3>1. (x + (k - 1)) * p = x * p + (k - 1) * p
      BY <1>1
    <3>2. w * p \in Nat /\ (w + 1) * p = w * p + p
      <4> HIDE DEF w
      <4> QED
        BY <1>1, <2>1
    <3> QED
      BY <1>1, <3>1, <3>2
  <2>8. e[k - 1] = w * p /\ e[k] = (w + 1) * p
    <3>1. e[k - 1] = (x + (k - 1)) * p /\ e[k] = (x + k) * p
      BY <2>1
    <3>2. (x + k) * p = (w + 1) * p
      <4> HIDE DEF w
      <4> QED
        BY <2>1
    <3> QED
      BY <3>1, <3>2
  <2>9. F[k] = Tables!Line(w * p, (w + 1) * p, f)
    <3>1. F[k] = Tables!Line(A(k), A(k) + p, f)
      BY Zenon
    <3> HIDE DEF A, w, f
    <3> QED
      BY <2>7, <3>1
  <2> HIDE DEF w, f, F, e
  <2>10. \A va \in w * p .. (w + 1) * p - 1 : ProtAt(va) = f.prot
    <3> SUFFICES ASSUME NEW va \in w * p .. (w + 1) * p - 1 PROVE ProtAt(va) = f.prot
      BY Zenon
    <3>1. va \div p \in w .. (w + 1) - 1
      <4>1. w + 1 \in Nat
        BY <2>1
      <4> QED
        BY <2>1, <4>1, PageWithin
    <3>2. va \div p = w
      BY <2>1, <3>1
    <3> QED
      BY <2>6, <3>2, Zenon DEF ProtAt
  <2>11. Shows(Tables!Line(w * p, (w + 1) * p, f), w * p, (w + 1) * p)
    <3> DEFINE a == w * p
               b == (w + 1) * p
    <3>1. a \in Nat /\ b \in Nat /\ \A va \in a .. b - 1 : ProtAt(va) = f.prot
      BY <2>7, <2>10
    <3> HIDE DEF a, b
    <3>2. Shows(Tables!Line(a, b, f), a, b)
      BY <2>5, <3>1, ShowsLine
    <3> QED
      BY <3>2 DEF a, b
  <2>12. e[k - 1] <= e[k]
    <3>1. (w + 1) * p = w * p + p
      BY <1>1, <2>1
    <3> QED
      BY <1>1, <2>7, <2>8, <3>1
  <2> QED
    BY <2>8, <2>9, <2>11, <2>12, Zenon
<1>8. e \in [0 .. N -> Nat] /\ e[0] = x * p /\ e[N] = y * p
  <2>1. \A k \in 0 .. N : (x + k) * p \in Nat
    BY <1>1
  <2>2. (x + 0) * p = x * p /\ (x + N) * p = y * p /\ 0 \in 0 .. N /\ N \in 0 .. N
    BY <1>1
  <2>3. e \in [0 .. N -> Nat]
    <3> HIDE DEF N
    <3> QED
      BY <2>1
  <2>4. e[0] = (x + 0) * p /\ e[N] = (x + N) * p
    <3> HIDE DEF N
    <3> QED
      BY <2>2
  <2> QED
    BY <2>2, <2>3, <2>4
<1>9. DOMAIN F = 1 .. N /\ F = [k \in 1 .. N |-> F[k]]
  OBVIOUS
<1> HIDE DEF F, e, N, L
<1>10. Shows(Tables!FlattenSeq(F), e[0], e[N])
  BY <1>1, <1>7, <1>8, <1>9, ShowsAll
<1> QED
  BY <1>5, <1>8, <1>10 DEF L

\* walk_pmd: a line for a section, those of the table below, or nothing.
LEMMA PmdShown ==
    ASSUME NEW n, Typed(entry, n), NEW x \in Ptes, NEW y \in Nat, x < y,
           ((y - 1) \div PTRS) \div PTRS = (x \div PTRS) \div PTRS,
           Has1(entry, (x \div PTRS) \div PTRS)
    PROVE  Shows(Tables!WalkPmd(Slot1((x \div PTRS) \div PTRS), x * PAGE_SIZE, y * PAGE_SIZE),
                 x * PAGE_SIZE, y * PAGE_SIZE)
<1> DEFINE p == PAGE_SIZE
           j0 == x \div PTRS
           i == j0 \div PTRS
           N == Cuts(x, y, PTRS)
           head == Slot2(entry, j0)
           page == entry[Slot1(i)].page
           pieces == Tables!Pieces(x * p, y * p, Tables!PMD_SIZE)
           e == Ends(x, y, PTRS)
           Shown(pmd, k, lo, hi) ==
             IF pmd = Tables!None \/ Tables!Leaf(pmd) THEN Tables!Line(lo, hi, pmd)
             ELSE Tables!WalkPte(head + k - 1, lo, hi)
           F == [k \in 1 .. N |-> Shown(entry[head + k - 1], k, pieces[k].addr, pieces[k].next)]
           L == Tables!WalkPmd(Slot1(i), x * p, y * p)
<1>1. /\ p \in Nat /\ p >= 1 /\ PTRS \in Nat /\ PTRS >= 1 /\ x \in Nat /\ j0 \in Pmds
      /\ j0 \in Nat /\ i \in Pgds
  <2>1. x \in Nat /\ j0 \in Pmds
    BY NumbersNest
  <2>2. j0 \in Nat /\ i \in Pgds
    BY <2>1, NumbersNest
  <2> HIDE DEF j0, i
  <2> QED
    BY <2>1, <2>2, TableNumbers
<1>2. /\ Len(pieces) = N /\ N \in Nat /\ N >= 1
      /\ \A k \in 1 .. N : /\ pieces[k].addr = Slice(x, y, PTRS, k).addr * p
                           /\ pieces[k].next = Slice(x, y, PTRS, k).next * p
  BY <1>1, Scaled DEF Tables!PMD_SIZE
<1>3. /\ e \in [0 .. N -> Nat] /\ e[0] = x * p /\ e[N] = y * p
      /\ \A k \in 1 .. N : /\ e[k - 1] = Slice(x, y, PTRS, k).addr * p
                           /\ e[k] = Slice(x, y, PTRS, k).next * p
                           /\ e[k - 1] <= e[k]
  BY <1>1, EndsAre
<1>4. Tables!PmdpFromPgdp(entry, Slot1(i), x * p) = head
  <2>1. x * p \in Nat /\ (x * p) \div p = x
    BY <1>1, DividedNext
  <2>2. Tables!Index(x * p, Tables!PMD_SIZE) = j0 % PTRS
    <3> DEFINE a == x * p
    <3>1. a \in Nat /\ a \div PAGE_SIZE = x
      BY <2>1
    <3> HIDE DEF a
    <3>2. Tables!Index(a, Tables!PMD_SIZE) = ((a \div PAGE_SIZE) \div PTRS) % PTRS
      BY <3>1, PageNumbers
    <3> QED
      BY <3>1, <3>2 DEF a
  <2> QED
    BY <2>2, Zenon DEF Tables!PmdpFromPgdp, Slot2
<1>5. L = Tables!FlattenSeq(F)
  <2> DEFINE first == Tables!PmdpFromPgdp(entry, Slot1(i), x * p)
             c == Len(pieces)
             Rest(pmd, k, lo, hi) ==
               IF pmd = Tables!None \/ Tables!Leaf(pmd) THEN Tables!Line(lo, hi, pmd)
               ELSE Tables!WalkPte(first + k - 1, lo, hi)
  <2>1. L = Tables!FlattenSeq([k \in 1 .. c |->
              Rest(entry[first + k - 1], k, pieces[k].addr, pieces[k].next)])
    BY Zenon DEF Tables!WalkPmd
  <2>2. first = head /\ c = N
    BY <1>2, <1>4
  <2> HIDE DEF first, c, head, pieces
  <2> QED
    BY <2>1, <2>2, Zenon
<1>6. page \in Nat
  <2>1. page \in Pool(n) /\ n \in 0 .. Len(FreePages)
    BY <1>1, SlotsLie, Zenon DEF Typed
  <2> QED
    BY <2>1, PoolIs, Zenon
<1> HIDE DEF pieces, e
<1>7. ASSUME NEW k \in 1 .. N PROVE Shows(F[k], e[k - 1], e[k])
  <2> DEFINE lo == Slice(x, y, PTRS, k).addr
             hi == Slice(x, y, PTRS, k).next
             j == lo \div PTRS
             pmd == entry[Slot2(entry, j)]
  <2>1. /\ lo \in Nat /\ hi \in Nat /\ x <= lo /\ lo < hi /\ hi <= y
        /\ j = j0 + k - 1 /\ (hi - 1) \div PTRS = j
    <3>1. /\ lo \in Nat /\ hi \in Nat /\ x <= lo /\ lo < hi /\ hi <= y
          /\ j = j0 + k - 1 /\ (hi - 1) \div PTRS = j0 + k - 1
      <4> HIDE DEF N
      <4> QED
        BY <1>1, SliceIs DEF N
    <3> HIDE DEF lo, hi, j
    <3> QED
      BY <3>1
  <2>2. (y - 1) \div PTRS \in Nat /\ j \in Nat /\ j0 <= j /\ j <= (y - 1) \div PTRS
    <3>1. (y - 1) \div PTRS \in Nat
      BY <1>1
    <3>2. N = (y - 1) \div PTRS - j0 + 1
      BY Zenon DEF Cuts
    <3> HIDE DEF N, j0, lo, hi
    <3> QED
      BY <1>1, <1>2, <2>1, <3>1, <3>2
  <2>3. j \div PTRS = i /\ j % PTRS = (j0 % PTRS) + (k - 1)
    <3> DEFINE z == (y - 1) \div PTRS
    <3>1. z \in Nat /\ j \in Nat /\ j0 \in Nat /\ j0 <= j /\ j <= z /\ j0 \div PTRS = z \div PTRS
      BY <1>1, <2>2, Zenon
    <3>2. j - j0 = k - 1
      <4> HIDE DEF j, j0
      <4> QED
        BY <1>1, <2>1, <2>2
    <3> HIDE DEF j, j0, z
    <3>3. j \div PTRS = j0 \div PTRS /\ j % PTRS = (j0 % PTRS) + (j - j0)
      BY <1>1, <3>1, SameTable
    <3> QED
      BY <3>2, <3>3 DEF j0
  <2>4. j \in Pmds /\ Has1(entry, j \div PTRS)
    <3>1. j \in Pmds
      BY <1>1, <2>2, <2>3, Zenon DEF Pmds
    <3> QED
      BY <2>3, <3>1, Zenon
  <2>5. head + k - 1 = Slot2(entry, j)
    <3>1. Tables!At(page, j0 % PTRS) + (k - 1) = Tables!At(page, (j0 % PTRS) + (k - 1))
      <4> DEFINE d == j0 % PTRS
                 g == k - 1
      <4>1. d \in Int /\ g \in Int
        BY <1>1, <1>2
      <4> HIDE DEF d, g, page
      <4>2. Tables!At(page, d) + g = Tables!At(page, d + g)
        BY <1>6, <4>1, AtMore
      <4> QED
        BY <4>2 DEF d, g
    <3>2. head = Tables!At(page, j0 % PTRS)
      BY Zenon DEF Slot2
    <3>3. Slot2(entry, j) = Tables!At(page, j % PTRS)
      <4> HIDE DEF j
      <4> QED
        BY <2>3, Zenon DEF Slot2
    <3>4. head + k - 1 = head + (k - 1)
      <4>1. j0 % PTRS \in Pgds
        BY <1>1, NumbersNest
      <4> HIDE DEF head, page, j0
      <4>2. head \in Int
        BY <1>6, <3>2, <4>1, AtIs
      <4> QED
        BY <1>2, <4>2
    <3> HIDE DEF head, j, page
    <3> QED
      BY <2>3, <3>1, <3>2, <3>3, <3>4
  <2>6. F[k] = Shown(pmd, k, lo * p, hi * p)
    <3>1. F[k] = Shown(entry[head + k - 1], k, pieces[k].addr, pieces[k].next)
      BY Zenon
    <3>2. pieces[k].addr = lo * p /\ pieces[k].next = hi * p
      BY <1>2, Zenon
    <3>3. entry[head + k - 1] = pmd
      BY <2>5, Zenon
    <3> HIDE DEF lo, hi, pmd, Shown, F, head
    <3> QED
      BY <3>1, <3>2, <3>3
  <2>7. e[k - 1] = lo * p /\ e[k] = hi * p /\ lo * p \in Nat /\ hi * p \in Nat
    <3>1. e[k - 1] = lo * p /\ e[k] = hi * p
      BY <1>3, Zenon
    <3> HIDE DEF lo, hi
    <3> QED
      BY <1>1, <2>1, <3>1
  <2> HIDE DEF lo, hi, F, N, i, j0
  <2>8. ASSUME NEW va \in lo * p .. hi * p - 1
        PROVE  /\ va \div p \in Ptes /\ (va \div p) \div PTRS = j
  <3> DEFINE w == va \div p
    <3>1. va \in Nat /\ w \in lo .. hi - 1
      BY <2>1, PageWithin
    <3> DEFINE z == hi - 1
    <3>2. w \in Nat /\ z \in Nat /\ lo <= w /\ w <= z /\ lo \div PTRS = z \div PTRS
      <4>1. z \in Nat /\ w \in lo .. z
        BY <2>1, <3>1
      <4>2. z \div PTRS = j
        BY <2>1
      <4> HIDE DEF w, z
      <4> QED
        BY <2>1, <4>1, <4>2
    <3> HIDE DEF w, z
    <3>3. w \div PTRS = lo \div PTRS /\ w % PTRS = (lo % PTRS) + (w - lo)
      <4>1. lo \in Nat /\ PTRS \in Nat /\ PTRS >= 1
        BY <1>1, <2>1
      <4> QED
        BY <3>2, <4>1, SameTable
    <3>4. w \in Ptes
      BY <2>4, <3>2, <3>3, Zenon DEF Ptes
    <3> QED
      BY <3>3, <3>4 DEF w
  <2>9. CASE pmd = Tables!None \/ Tables!Leaf(pmd)
    <3>1. ASSUME NEW va \in lo * p .. hi * p - 1 PROVE ProtAt(va) = pmd.prot
      <4> DEFINE w == va \div p
      <4>1. w \in Ptes /\ w \div PTRS = j
        BY <2>8
      <4> HIDE DEF w
      <4>2. CASE pmd = Tables!None
        <5>1. Hit(entry, w) = Tables!None
          BY <4>1, <4>2, Zenon DEF Hit
        <5> QED
          BY <4>2, <5>1, Zenon DEF ProtAt, w
      <4>3. CASE Tables!Leaf(pmd)
        <5>1. pmd # Tables!None
          BY <4>3, EntryKinds
        <5> DEFINE own == [page |-> pmd.page + (w % PTRS), prot |-> pmd.prot]
        <5>2. Hit(entry, w) = own
          BY <2>4, <4>1, <4>3, <5>1, Zenon DEF Hit
        <5>3. own.prot = pmd.prot
          OBVIOUS
        <5> HIDE DEF own
        <5> QED
          BY <5>2, <5>3, Zenon DEF ProtAt, w
      <4> QED
        BY <2>9, <4>2, <4>3
    <3>2. Slot2(entry, j) \in DOMAIN entry
      BY <2>4, SlotsLie, Zenon DEF Typed
    <3> DEFINE a == lo * p
               b == hi * p
    <3>3. F[k] = Tables!Line(a, b, pmd)
      BY <2>6, <2>9, Zenon
    <3>4. a \in Nat /\ b \in Nat /\ \A va \in a .. b - 1 : ProtAt(va) = pmd.prot
      BY <2>7, <3>1
    <3> HIDE DEF a, b
    <3>5. Shows(Tables!Line(a, b, pmd), a, b)
      <4> DEFINE s == Slot2(entry, j)
      <4>1. s \in DOMAIN entry /\ pmd = entry[s]
        BY <3>2
      <4> HIDE DEF s, pmd
      <4> QED
        BY <2>9, <3>4, <4>1, ShowsLine
    <3> QED
      BY <2>7, <3>3, <3>5 DEF a, b
  <2>10. CASE ~(pmd = Tables!None \/ Tables!Leaf(pmd))
    <3>1. F[k] = Tables!WalkPte(Slot2(entry, j), lo * p, hi * p)
      <4>1. F[k] = Tables!WalkPte(head + k - 1, lo * p, hi * p)
        BY <2>6, <2>10, Zenon
      <4> HIDE DEF pmd, j, head
      <4> QED
        BY <2>5, <4>1
    <3>2. Has2(entry, j)
      BY <2>4, <2>10, Zenon DEF Has2
    <3>3. lo \in Ptes
      BY <2>1, <2>4, Zenon DEF Ptes
    <3>4. Shows(Tables!WalkPte(Slot2(entry, lo \div PTRS), lo * PAGE_SIZE, hi * PAGE_SIZE),
                lo * PAGE_SIZE, hi * PAGE_SIZE)
      <4>1. (hi - 1) \div PTRS = lo \div PTRS /\ Has2(entry, lo \div PTRS)
        BY <2>1, <3>2
      <4> QED
        BY <2>1, <3>3, <4>1, PteShown
    <3> QED
      BY <2>7, <3>1, <3>4
  <2> QED
    BY <2>9, <2>10
<1>8. DOMAIN F = 1 .. N /\ F = [k \in 1 .. N |-> F[k]]
  OBVIOUS
<1> HIDE DEF F, N, L
<1>9. Shows(Tables!FlattenSeq(F), e[0], e[N])
  BY <1>2, <1>3, <1>7, <1>8, ShowsAll
<1> QED
  BY <1>3, <1>5, <1>9 DEF L

LEMMA PageBelow ==
    ASSUME NEW w \in Nat, w < PTRS * PTRS * PTRS
    PROVE  w \in Ptes /\ w \div (PTRS * PTRS) = (w \div PTRS) \div PTRS
<1> DEFINE B == PTRS * PTRS
<1>1. PTRS \in Nat /\ PTRS >= 1 /\ B \in Nat /\ B >= 1 /\ PTRS * B = B * PTRS
  BY TableNumbers
<1>2. Nests(w, PTRS, PTRS)
  BY <1>1, DividedTwice
<1>3. w \div B = (w \div PTRS) \div PTRS
  BY <1>2, Zenon DEF Nests
<1>4. w \div B < PTRS
  <2>1. w < PTRS * B /\ PTRS \in Int
    BY <1>1
  <2> HIDE DEF B
  <2> QED
    BY <1>1, <2>1, DividedBelow
<1>5. w \div PTRS \in Nat /\ (w \div PTRS) \div PTRS \in Nat
  BY <1>1
<1>6. (w \div PTRS) \div PTRS \in Pgds
  <2> DEFINE q == (w \div PTRS) \div PTRS
  <2>1. q \in Nat /\ q < PTRS
    BY <1>3, <1>4, <1>5
  <2> HIDE DEF q
  <2>2. q \in Pgds
    BY <1>1, <2>1 DEF Pgds
  <2> QED
    BY <2>2 DEF q
<1> QED
  BY <1>3, <1>5, <1>6, Zenon DEF Ptes, Pmds

\* walk_pgd: the dump of a range of pages.
LEMMA PgdShown ==
    ASSUME NEW n, Typed(entry, n), NEW x \in Nat, NEW y \in Nat, x < y,
           y <= PTRS * PTRS * PTRS
    PROVE  Shows(Tables!WalkPgd(x * PAGE_SIZE, y * PAGE_SIZE), x * PAGE_SIZE, y * PAGE_SIZE)
<1> DEFINE p == PAGE_SIZE
           B == PTRS * PTRS
           i0 == x \div B
           N == Cuts(x, y, B)
           head == Tables!PgdOffset(x * p)
           pieces == Tables!Pieces(x * p, y * p, Tables!PGDIR_SIZE)
           e == Ends(x, y, B)
           Shown(at, lo, hi) ==
             IF entry[at] = Tables!None THEN Tables!Line(lo, hi, Tables!None)
             ELSE Tables!WalkPmd(at, lo, hi)
           F == [k \in 1 .. N |-> Shown(head + k - 1, pieces[k].addr, pieces[k].next)]
           L == Tables!WalkPgd(x * p, y * p)
<1>1. p \in Nat /\ p >= 1 /\ PTRS \in Nat /\ PTRS >= 1 /\ B \in Nat /\ B >= 1
  BY TableNumbers
<1>2. /\ Len(pieces) = N /\ N \in Nat /\ N >= 1
      /\ \A k \in 1 .. N : /\ pieces[k].addr = Slice(x, y, B, k).addr * p
                           /\ pieces[k].next = Slice(x, y, B, k).next * p
  <2>1. Tables!PGDIR_SIZE = p * B
    <3>1. (p * PTRS) * PTRS = p * (PTRS * PTRS)
      BY <1>1
    <3> QED
      BY <3>1, Zenon DEF Tables!PGDIR_SIZE, Tables!PMD_SIZE
  <2> HIDE DEF B
  <2>2. pieces = Tables!Pieces(x * PAGE_SIZE, y * PAGE_SIZE, PAGE_SIZE * B)
    BY <2>1, Zenon
  <2>3. LET cut == Tables!Pieces(x * PAGE_SIZE, y * PAGE_SIZE, PAGE_SIZE * B)
            n1 == Cuts(x, y, B)
        IN  /\ Len(cut) = n1 /\ n1 \in Nat /\ n1 >= 1
            /\ \A k \in 1 .. n1 : /\ cut[k].addr = Slice(x, y, B, k).addr * PAGE_SIZE
                                 /\ cut[k].next = Slice(x, y, B, k).next * PAGE_SIZE
    BY <1>1, Scaled, Zenon
  <2> HIDE DEF pieces
  <2> QED
    BY <2>2, <2>3, Zenon
<1>3. /\ e \in [0 .. N -> Nat] /\ e[0] = x * p /\ e[N] = y * p
      /\ \A k \in 1 .. N : /\ e[k - 1] = Slice(x, y, B, k).addr * p
                           /\ e[k] = Slice(x, y, B, k).next * p
                           /\ e[k - 1] <= e[k]
  <2> HIDE DEF B
  <2> QED
    BY <1>1, EndsAre
<1>4. ASSUME NEW w \in Nat, w < y
      PROVE  w \in Ptes /\ w \div B = (w \div PTRS) \div PTRS /\ w \div B \in Pgds
  <2>1. w < PTRS * PTRS * PTRS
    <3>1. PTRS * PTRS * PTRS \in Nat
      BY <1>1
    <3> QED
      BY <1>4, <3>1
  <2>2. w \in Ptes /\ w \div B = (w \div PTRS) \div PTRS
    BY <2>1, PageBelow
  <2> QED
    BY <2>2, NumbersNest
<1>5. i0 \in Pgds /\ i0 \in Nat /\ head = Slot1(i0)
  <2>1. i0 \in Pgds /\ i0 = (x \div PTRS) \div PTRS
    BY <1>4
  <2>2. i0 % PTRS = i0 /\ i0 \in Nat
    <3> HIDE DEF i0
    <3> QED
      BY <1>1, <2>1 DEF Pgds
  <2>3. Tables!Index(x * p, Tables!PGDIR_SIZE) = i0 % PTRS
    <3> DEFINE a == x * p
    <3>1. a \in Nat /\ a \div PAGE_SIZE = x
      BY <1>1, DividedNext
    <3> HIDE DEF a
    <3>2. Tables!Index(a, Tables!PGDIR_SIZE) = (((a \div PAGE_SIZE) \div PTRS) \div PTRS) % PTRS
      BY <3>1, PageNumbers
    <3> QED
      BY <2>1, <3>1, <3>2 DEF a
  <2> QED
    BY <2>1, <2>2, <2>3, Zenon DEF Tables!PgdOffset, Slot1
<1>6. L = Tables!FlattenSeq(F)
  <2> DEFINE c == Len(pieces)
  <2>1. L = Tables!FlattenSeq([k \in 1 .. c |->
              Shown(head + k - 1, pieces[k].addr, pieces[k].next)])
    BY Zenon DEF Tables!WalkPgd
  <2>2. c = N
    BY <1>2
  <2> HIDE DEF c, pieces
  <2> QED
    BY <2>1, <2>2, Zenon
<1> HIDE DEF pieces, e, head
<1>7. ASSUME NEW k \in 1 .. N PROVE Shows(F[k], e[k - 1], e[k])
  <2> DEFINE lo == Slice(x, y, B, k).addr
             hi == Slice(x, y, B, k).next
             i == lo \div B
  <2>1. /\ lo \in Nat /\ hi \in Nat /\ x <= lo /\ lo < hi /\ hi <= y
        /\ i = i0 + k - 1 /\ (hi - 1) \div B = i
    <3>1. /\ lo \in Nat /\ hi \in Nat /\ x <= lo /\ lo < hi /\ hi <= y
          /\ i = i0 + k - 1 /\ (hi - 1) \div B = i0 + k - 1
      <4> HIDE DEF N, B
      <4> QED
        BY <1>1, SliceIs DEF N
    <3> HIDE DEF lo, hi, i
    <3> QED
      BY <3>1
  <2>2. /\ lo \in Ptes /\ i = (lo \div PTRS) \div PTRS /\ i \in Pgds
        /\ ((hi - 1) \div PTRS) \div PTRS = (lo \div PTRS) \div PTRS
    <3>1. lo < y /\ hi - 1 \in Nat /\ hi - 1 < y
      <4> HIDE DEF lo, hi
      <4> QED
        BY <2>1
    <3>2. lo \in Ptes /\ i = (lo \div PTRS) \div PTRS /\ i \in Pgds
      BY <1>4, <2>1, <3>1, Zenon
    <3>3. (hi - 1) \div B = ((hi - 1) \div PTRS) \div PTRS
      BY <1>4, <3>1, Zenon
    <3> QED
      BY <2>1, <3>2, <3>3, Zenon
  <2>3. head + k - 1 = Slot1(i)
    <3>1. PgDir * PTRS \in Nat
      BY <1>1, TableNumbers
    <3> HIDE DEF i, i0
    <3>2. (PgDir * PTRS + i0) + k - 1 = PgDir * PTRS + i
      BY <1>5, <2>1, <3>1
    <3> QED
      BY <1>5, <3>2, Zenon DEF Slot1, Tables!At
  <2>4. F[k] = Shown(Slot1(i), lo * p, hi * p)
    <3>1. F[k] = Shown(head + k - 1, pieces[k].addr, pieces[k].next)
      BY Zenon
    <3>2. pieces[k].addr = lo * p /\ pieces[k].next = hi * p
      BY <1>2, Zenon
    <3> HIDE DEF lo, hi, i, Shown, F
    <3> QED
      BY <2>3, <3>1, <3>2
  <2>5. e[k - 1] = lo * p /\ e[k] = hi * p /\ lo * p \in Nat /\ hi * p \in Nat
    <3>1. e[k - 1] = lo * p /\ e[k] = hi * p
      BY <1>3, Zenon
    <3> HIDE DEF lo, hi
    <3> QED
      BY <1>1, <2>1, <3>1
  <2> HIDE DEF lo, hi, F, N, i0
  <2>6. CASE entry[Slot1(i)] = Tables!None
    <3>1. ASSUME NEW va \in lo * p .. hi * p - 1 PROVE ProtAt(va) = Tables!None.prot
      <4> DEFINE w == va \div p
                 z == hi - 1
      <4>1. va \in Nat /\ w \in lo .. hi - 1
        BY <2>1, PageWithin
      <4>2. /\ w \in Nat /\ z \in Nat /\ lo <= w /\ w <= z /\ lo \div B = z \div B /\ w < y
        <5>1. z \in Nat /\ w \in lo .. z
          BY <2>1, <4>1
        <5>2. z \div B = i
          BY <2>1
        <5>3. z < y
          BY <2>1
        <5> HIDE DEF w, z
        <5> QED
          BY <2>1, <5>1, <5>2, <5>3
      <4> HIDE DEF w, z, B
      <4>3. w \div B = lo \div B /\ w % B = (lo % B) + (w - lo)
        <5>1. lo \in Nat /\ B \in Nat /\ B >= 1
          BY <1>1, <2>1
        <5> QED
          BY <4>2, <5>1, SameTable
      <4>4. (w \div PTRS) \div PTRS = i
        BY <1>4, <4>2, <4>3, Zenon
      <4>5. Hit(entry, w) = Tables!None
        BY <2>6, <4>4, Zenon DEF Hit, Has1
      <4> QED
        BY <4>5, Zenon DEF ProtAt, w
    <3> DEFINE a == lo * p
               b == hi * p
               s == Slot1(i)
    <3>2. F[k] = Tables!Line(a, b, Tables!None)
      BY <2>4, <2>6, Zenon
    <3>3. s \in DOMAIN entry /\ Tables!None = entry[s]
      BY <2>2, <2>6, SlotsLie, Zenon DEF Typed
    <3>4. a \in Nat /\ b \in Nat /\ \A va \in a .. b - 1 : ProtAt(va) = Tables!None.prot
      BY <2>5, <3>1
    <3> HIDE DEF a, b, s
    <3>5. Shows(Tables!Line(a, b, Tables!None), a, b)
      <4> DEFINE none == Tables!None
      <4>1. none = entry[s] /\ none = Tables!None /\ \A va \in a .. b - 1 : ProtAt(va) = none.prot
        BY <3>3, <3>4
      <4> HIDE DEF none
      <4>2. Shows(Tables!Line(a, b, none), a, b)
        BY <3>3, <3>4, <4>1, ShowsLine
      <4> QED
        BY <4>1, <4>2
    <3> QED
      BY <2>5, <3>2, <3>5 DEF a, b
  <2>7. CASE entry[Slot1(i)] # Tables!None
    <3>1. F[k] = Tables!WalkPmd(Slot1(i), lo * p, hi * p)
      BY <2>4, <2>7, Zenon
    <3>2. Has1(entry, (lo \div PTRS) \div PTRS)
      BY <2>2, <2>7, Zenon DEF Has1
    <3>3. Shows(Tables!WalkPmd(Slot1((lo \div PTRS) \div PTRS), lo * PAGE_SIZE, hi * PAGE_SIZE),
                lo * PAGE_SIZE, hi * PAGE_SIZE)
      BY <2>1, <2>2, <3>2, PmdShown
    <3> QED
      BY <2>2, <2>5, <3>1, <3>3
  <2> QED
    BY <2>6, <2>7
<1>8. DOMAIN F = 1 .. N /\ F = [k \in 1 .. N |-> F[k]]
  OBVIOUS
<1> HIDE DEF F, N, L
<1>9. Shows(Tables!FlattenSeq(F), e[0], e[N])
  BY <1>2, <1>3, <1>7, <1>8, ShowsAll
<1> QED
  BY <1>3, <1>6, <1>9 DEF L

\* What the dump prints.
LEMMA TablesDump == TablesIInv => Tables!DumpShowsMapping
<1> SUFFICES ASSUME TablesIInv PROVE Tables!DumpShowsMapping
  OBVIOUS
<1>1. Typed(entry, taken)
  <2> DEFINE m == [taken |-> taken, entry |-> entry]
  <2>1. m.taken = taken /\ m.entry = entry /\ Sound(m)
    BY DEF TablesIInv
  <2> HIDE DEF m
  <2> QED
    BY <2>1, Zenon DEF Sound, Tree
<1>2. PAGE_SIZE \in Nat /\ PAGE_SIZE >= 1 /\ PTRS \in Nat /\ Tables!VaEnd \in Nat
      /\ PTRS * PTRS * PTRS \in Nat
  <2>1. PAGE_SIZE \in Nat /\ PAGE_SIZE >= 1 /\ PTRS \in Nat /\ Tables!VaEnd \in Nat
    BY TableNumbers
  <2>2. PTRS * PTRS \in Nat
    BY <2>1
  <2>3. (PTRS * PTRS) * PTRS \in Nat
    BY <2>1, <2>2
  <2> QED
    BY <2>1, <2>3
<1>3. ASSUME NEW p \in DumpAt, NEW q \in DumpAt, p < q
      PROVE  LET start == p * PAGE_SIZE
                 end == q * PAGE_SIZE
                 lines == Tables!WalkPgd(start, end)
             IN  /\ \A k \in 2 .. Len(lines) : lines[k - 1].end <= lines[k].start
                 /\ \A va \in start .. end - 1 :
                      {l.prot : l \in {m \in Tables!ToSet(lines) : va \in m.start .. m.end - 1}}
                        = {Tables!Walk(va).prot} \ {{}}
  <2> DEFINE start == p * PAGE_SIZE
             end == q * PAGE_SIZE
             lines == Tables!WalkPgd(start, end)
  <2>1. p \in Nat /\ q \in Nat /\ q <= PTRS * PTRS * PTRS
    <3> DEFINE last == PTRS * PTRS * PTRS
    <3>1. p \in 0 .. last /\ q \in 0 .. last
      BY TablesAssumption
    <3>2. last \in Nat
      BY <1>2
    <3> HIDE DEF last
    <3>3. p \in Nat /\ q \in Nat /\ q <= last
      BY <3>1, <3>2
    <3> QED
      BY <3>3 DEF last
  <2>2. Shows(lines, start, end)
    BY <1>1, <1>3, <2>1, PgdShown
  <2>3. ASSUME NEW va \in start .. end - 1 PROVE Tables!Walk(va).prot = ProtAt(va)
    <3>1. va \in Nat /\ va \div PAGE_SIZE \in p .. q - 1
      BY <2>1, PageWithin
    <3>2. va < Tables!VaEnd
      <4> DEFINE V == PTRS * PTRS * PTRS
      <4>1. Tables!VaEnd = V * PAGE_SIZE
        <5>1. ((PAGE_SIZE * PTRS) * PTRS) * PTRS = V * PAGE_SIZE
          BY <1>2
        <5> QED
          BY <5>1, Zenon DEF Tables!VaEnd, Tables!PGDIR_SIZE, Tables!PMD_SIZE
      <4>2. V \in Nat /\ q <= V
        BY <1>2, <2>1
      <4> HIDE DEF V
      <4>3. q * PAGE_SIZE <= V * PAGE_SIZE /\ q * PAGE_SIZE \in Nat /\ V * PAGE_SIZE \in Nat
        BY <1>2, <2>1, <4>2
      <4>4. va <= q * PAGE_SIZE - 1
        BY <4>3
      <4> QED
        BY <3>1, <4>1, <4>3, <4>4
    <3> DEFINE h == Hit(entry, va \div PAGE_SIZE)
    <3>3. Tables!Walk(va) = Leads(h, va)
      BY <1>1, <3>1, <3>2, WalkIs
    <3> HIDE DEF h
    <3>4. Leads(h, va).prot = h.prot
      <4>1. CASE h = Tables!None
        BY <4>1 DEF Leads, Tables!None
      <4>2. CASE h # Tables!None
        BY <4>2 DEF Leads
      <4> QED
        BY <4>1, <4>2
    <3> QED
      BY <3>3, <3>4, Zenon DEF ProtAt, h
  <2> HIDE DEF start, end, lines
  <2>4. /\ \A k \in 2 .. Len(lines) : lines[k - 1].end <= lines[k].start
        /\ \A va \in start .. end - 1 : Told(Tables!ToSet(lines), va) = {ProtAt(va)} \ {{}}
    BY <2>2, Zenon DEF Shows
  <2>5. \A va \in start .. end - 1 :
          {l.prot : l \in {m \in Tables!ToSet(lines) : va \in m.start .. m.end - 1}}
            = {Tables!Walk(va).prot} \ {{}}
    BY <2>3, <2>4, Zenon DEF Told
  <2> QED
    BY <2>4, <2>5 DEF start, end, lines
<1> QED
  BY <1>3, Zenon DEF Tables!DumpShowsMapping

LEMMA TablesSteps ==
    (unit = "tables" => TablesIInv) /\ [NextRoutines]_units
      => (unit = "tables" => TablesIInv)'
<1> SUFFICES ASSUME unit = "tables" => TablesIInv, [NextRoutines]_units, unit' = "tables"
             PROVE  TablesIInv'
  OBVIOUS
<1>1. unit' = unit /\ [Tables!Next]_tables
  BY DEF NextRoutines, MakeSymbols, MapPages, SetPmp, FillMemory, PrintField, RouteTraps,
         TraceCalls, units
<1> QED
  BY <1>1, TablesStep

\* mmu.c, stage2_mmu.c, dump_pgtable.c: for tables of any geometry and any calls
\* for which the allocator has pages, every address leads where the last call
\* that covers its page says, no other page of memory is written, and the dump
\* of any range of pages shows exactly the addresses that are mapped, with
\* their protection and in order.
THEOREM TablesAreAsAsked == SpecRoutines => []TablesShowMappings
<1>1. InitRoutines => (unit = "tables" => TablesIInv)
  BY TablesInit DEF InitRoutines
<1>2. (unit = "tables" => TablesIInv) => TablesShowMappings
  BY TablesMap, TablesDump DEF TablesShowMappings, Tables!TablesShowMappings
<1>3. (unit = "tables" => TablesIInv) /\ [NextRoutines]_units
        => (unit = "tables" => TablesIInv)'
  BY TablesSteps
<1> QED
  BY <1>1, <1>2, <1>3, PTL DEF SpecRoutines
=============================================================================
