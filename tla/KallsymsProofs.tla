--------------------------- MODULE KallsymsProofs ---------------------------
(***************************************************************************)
(* Theorems about Kallsyms, for maps, codes and tables of any size: no     *)
(* name is lost by the compression, and an address finds its function.     *)
(***************************************************************************)
EXTENDS Kallsyms, TLAPS, WellFoundedInduction, SequenceTheorems,
        FiniteSetTheorems, FunctionTheorems

-----------------------------------------------------------------------------
(* Spelling: what a sequence of codes stands for when each code stands for
   a sequence.                                                             *)

\* A non-empty set of natural numbers has a least element.
LEMMA LeastNat ==
    ASSUME NEW S \in SUBSET Nat, S # {}
    PROVE  \E m \in S : \A k \in S : m <= k
<1>1. PICK m \in S : \A k \in S : <<k, m>> \notin OpToRel(<, Nat)
  BY WFMin, NatLessThanWellFounded, Zenon
<1>2. \A k \in S : ~(k < m)
  BY <1>1, Zenon DEF OpToRel
<1> QED
  BY <1>2

Texts == Seq(Codes)
Short(n) == {s \in Texts : Len(s) <= n}

\* C spells the sequences of T, code by code.
Follows(C, h, T) ==
    /\ C[<<>>] = <<>>
    /\ \A s \in T : s # <<>> => C[s] = h[Head(s)] \o C[Tail(s)]
Spells(C, h, T) == C \in [T -> Texts] /\ Follows(C, h, T)

LEMMA TailShort ==
    ASSUME NEW s \in Texts, s # <<>>
    PROVE  /\ Head(s) \in Codes /\ Tail(s) \in Texts
           /\ Len(s) \in Nat /\ Len(s) > 0 /\ Len(Tail(s)) = Len(s) - 1
<1>1. Head(s) \in Codes /\ Tail(s) \in Texts /\ Len(Tail(s)) = Len(s) - 1
  BY HeadTailProperties, Zenon DEF Texts
<1>2. Len(s) \in Nat /\ Len(Tail(s)) \in Nat
  BY <1>1, LenProperties, Zenon DEF Texts
<1> QED
  BY <1>1, <1>2

LEMMA HeadIsFirst ==
    ASSUME NEW s \in Texts, s # <<>>
    PROVE  Head(s) = s[1]
<1>1. Len(s) \in 1 .. Len(s) /\ 1 \in 1 .. Len(s)
  BY TailShort
<1>2. Head(SubSeq(s, 1, Len(s))) = s[1]
  BY <1>1, HeadTailOfSubSeq, SMT DEF Texts
<1>3. SubSeq(s, 1, Len(s)) = s
  BY SubSeqFull, Zenon DEF Texts
<1> QED
  BY <1>2, <1>3

\* What the library says of all sequences, for texts.
LEMMA TextConcat ==
    /\ \A s, t \in Texts : /\ s \o t \in Texts
                           /\ Len(s \o t) = Len(s) + Len(t)
                           /\ s \o t = <<>> => s = <<>> /\ t = <<>>
    /\ \A s \in Texts : s \o <<>> = s /\ <<>> \o s = s /\ Len(s) \in Nat
    /\ \A s, t, u \in Texts : (s \o t) \o u = s \o (t \o u)
<1>1. \A s, t \in Texts : s \o t \in Texts /\ Len(s \o t) = Len(s) + Len(t)
  BY ConcatProperties, Zenon DEF Texts
<1>2. \A s, t \in Texts : s \o t = <<>> => s = <<>> /\ t = <<>>
  <2> TAKE s, t \in Texts
  <2> QED
    BY ConcatEqualIffEmpty DEF Texts
<1>3. \A s \in Texts : s \o <<>> = s /\ <<>> \o s = s /\ Len(s) \in Nat
  <2> TAKE s \in Texts
  <2> QED
    BY ConcatEmptySeq, LenProperties, Zenon DEF Texts
<1>4. \A s, t, u \in Texts : (s \o t) \o u = s \o (t \o u)
  <2> TAKE s, t, u \in Texts
  <2> QED
    BY ConcatAssociative DEF Texts
<1> QED
  BY <1>1, <1>2, <1>3, <1>4, Zenon

LEMMA TextsAssociate ==
    ASSUME NEW s \in Texts, NEW t \in Texts, NEW u \in Texts
    PROVE  (s \o t) \o u = s \o (t \o u)
BY ConcatAssociative DEF Texts

LEMMA EmptyText ==
    ASSUME NEW n \in Nat
    PROVE  <<>> \in Short(n) /\ <<>> \in Texts
BY EmptySeq DEF Short, Texts

\* Two spellings agree where both are defined.
LEMMA SpellsUnique ==
    ASSUME NEW h, NEW C, NEW D, NEW n \in Nat, NEW m \in Nat, n <= m,
           Follows(C, h, Short(n)), Follows(D, h, Short(m))
    PROVE  \A s \in Short(n) : C[s] = D[s]
<1> DEFINE Bad == {k \in Nat : \E s \in Short(n) : Len(s) = k /\ C[s] # D[s]}
<1>1. ASSUME Bad # {} PROVE FALSE
  <2>1. PICK k \in Bad : \A l \in Bad : k <= l
    BY <1>1, LeastNat
  <2>2. PICK s \in Short(n) : Len(s) = k /\ C[s] # D[s]
    BY <2>1
  <2>3. s # <<>>
    BY <2>2 DEF Follows
  <2>4. s \in Texts /\ Len(s) <= n /\ s \in Short(m)
    BY DEF Short
  <2>5. /\ Tail(s) \in Texts /\ Len(Tail(s)) \in Nat
        /\ Len(Tail(s)) = k - 1 /\ k \in Nat /\ Len(Tail(s)) <= n
    BY <2>2, <2>3, <2>4, TailShort
  <2>6. Tail(s) \in Short(n)
    BY <2>5 DEF Short
  <2>7. C[Tail(s)] = D[Tail(s)]
    <3>1. k - 1 \in Nat /\ ~(k <= k - 1)
      BY <2>5, <2>1
    <3>2. k - 1 \notin Bad
      BY <3>1, <2>1
    <3> QED
      BY <3>1, <3>2, <2>5, <2>6
  <2> QED
    BY <2>2, <2>3, <2>4, <2>7 DEF Follows
<1> QED
  <2> SUFFICES ASSUME NEW s \in Short(n), C[s] # D[s] PROVE FALSE
    OBVIOUS
  <2>1. Len(s) \in Nat
    BY LenProperties DEF Short, Texts
  <2> QED
    BY <1>1, <2>1

LEMMA SpellsShort ==
    ASSUME NEW h \in [Codes -> Texts], NEW n \in Nat
    PROVE  \E C : Spells(C, h, Short(n))
<1> DEFINE Bad == {k \in Nat : ~ \E C : Spells(C, h, Short(k))}
<1> SUFFICES ASSUME Bad # {} PROVE FALSE
  OBVIOUS
<1>1. PICK k \in Bad : \A l \in Bad : k <= l
  BY LeastNat
<1>2. CASE k = 0
  <2>1. \A s \in Short(0) : s = <<>>
    BY TailShort DEF Short
  <2>2. Spells([s \in Short(0) |-> <<>>], h, Short(0))
    BY <2>1, EmptyText DEF Spells, Follows
  <2> QED
    BY <1>2, <2>2
<1>3. CASE k # 0
  <2>1. PICK C : Spells(C, h, Short(k - 1))
    BY <1>1, <1>3
  <2> DEFINE g == [s \in Short(k) |-> IF s = <<>> THEN <<>> ELSE h[Head(s)] \o C[Tail(s)]]
  <2>2. ASSUME NEW s \in Short(k), s # <<>>
        PROVE  /\ Tail(s) \in Short(k - 1) /\ Tail(s) \in Short(k)
               /\ h[Head(s)] \in Texts /\ C[Tail(s)] \in Texts
    <3>1. /\ Head(s) \in Codes /\ Tail(s) \in Texts /\ Len(s) \in Nat
          /\ Len(Tail(s)) = Len(s) - 1 /\ Len(s) <= k
      BY <2>2, TailShort DEF Short
    <3>2. Tail(s) \in Short(k - 1) /\ Tail(s) \in Short(k)
      BY <3>1 DEF Short
    <3> QED
      BY <2>1, <3>1, <3>2 DEF Spells, Follows
  <2>3. \A s \in Short(k) : g[s] = IF s = <<>> THEN <<>> ELSE h[Head(s)] \o C[Tail(s)]
    OBVIOUS
  <2>4. g \in [Short(k) -> Texts]
    <3>1. ASSUME NEW s \in Short(k) PROVE g[s] \in Texts
      <4>1. CASE s = <<>>
        BY <2>3, <4>1, EmptyText
      <4>2. CASE s # <<>>
        <5>1. h[Head(s)] \o C[Tail(s)] \in Texts
          BY <2>2, <4>2, ConcatProperties, Zenon DEF Texts
        <5> QED
          BY <2>3, <4>2, <5>1
      <4> QED
        BY <4>1, <4>2
    <3> QED
      BY <3>1
  <2>5. \A t \in Short(k - 1) : t \in Short(k)
    BY <1>3 DEF Short
  <2> HIDE DEF g
  <2>6. \A t \in Short(k - 1) : g[t] = C[t]
    <3>1. ASSUME NEW t \in Short(k - 1) PROVE g[t] = C[t]
      BY <2>1, <2>3, <2>5 DEF Spells, Follows
    <3> QED
      BY <3>1
  <2>7. Spells(g, h, Short(k))
    <3>1. g[<<>>] = <<>>
      BY <2>3, EmptyText
    <3>2. ASSUME NEW s \in Short(k), s # <<>> PROVE g[s] = h[Head(s)] \o g[Tail(s)]
      BY <2>2, <2>3, <2>6, <3>2
    <3> QED
      BY <2>4, <3>1, <3>2 DEF Spells, Follows
  <2> QED
    BY <1>1, <2>7
<1> QED
  BY <1>2, <1>3

\* Whatever each code stands for, there is one spelling of all texts.
LEMMA SpellsExists ==
    ASSUME NEW h \in [Codes -> Texts]
    PROVE  \E C : Spells(C, h, Texts)
<1> DEFINE part == [n \in Nat |-> CHOOSE C : Spells(C, h, Short(n))]
           g == [s \in Texts |-> part[Len(s)][s]]
<1>1. \A n \in Nat : Spells(part[n], h, Short(n))
  <2> TAKE n \in Nat
  <2>1. \E C : Spells(C, h, Short(n))
    BY SpellsShort
  <2> QED
    BY <2>1
<1> HIDE DEF part
<1>2. \A s \in Texts : Len(s) \in Nat /\ s \in Short(Len(s))
  BY LenProperties DEF Texts, Short
<1>3. g \in [Texts -> Texts]
  BY <1>1, <1>2 DEF Spells, Follows
<1>4. g[<<>>] = <<>>
  BY <1>1, <1>2, EmptyText DEF Spells, Follows
<1>5. ASSUME NEW s \in Texts, s # <<>> PROVE g[s] = h[Head(s)] \o g[Tail(s)]
  <2>1. /\ Tail(s) \in Texts /\ Len(Tail(s)) \in Nat /\ Len(s) \in Nat
        /\ Len(Tail(s)) <= Len(s)
    BY <1>5, <1>2, TailShort
  <2>2. part[Len(s)][s] = h[Head(s)] \o part[Len(s)][Tail(s)]
    BY <1>1, <1>2, <1>5 DEF Spells, Follows
  <2>3. part[Len(Tail(s))][Tail(s)] = part[Len(s)][Tail(s)]
    <3>1. Spells(part[Len(s)], h, Short(Len(s)))
      BY <1>1, <2>1
    <3>2. Spells(part[Len(Tail(s))], h, Short(Len(Tail(s))))
      BY <1>1, <2>1
    <3>3. Tail(s) \in Short(Len(Tail(s)))
      BY <1>2, <2>1
    <3> QED
      BY <2>1, <3>1, <3>2, <3>3, SpellsUnique DEF Spells
  <2> QED
    BY <2>1, <2>2, <2>3
<1>6. Spells(g, h, Texts)
  BY <1>3, <1>4, <1>5 DEF Spells, Follows
<1> QED
  BY <1>6

\* A spelling of a text is that of its parts.
LEMMA SpellsConcat ==
    ASSUME NEW h \in [Codes -> Texts], NEW C, Spells(C, h, Texts)
    PROVE  \A s, t \in Texts : C[s \o t] = C[s] \o C[t]
<1> SUFFICES ASSUME NEW t \in Texts PROVE \A s \in Texts : C[s \o t] = C[s] \o C[t]
  OBVIOUS
<1> DEFINE Bad == {k \in Nat : \E s \in Texts : Len(s) = k /\ C[s \o t] # C[s] \o C[t]}
<1>1. ASSUME Bad # {} PROVE FALSE
  <2>1. PICK k \in Bad : \A l \in Bad : k <= l
    BY <1>1, LeastNat
  <2>2. PICK s \in Texts : Len(s) = k /\ C[s \o t] # C[s] \o C[t]
    BY <2>1
  <2>3. C[t] \in Texts
    BY DEF Spells, Follows
  <2>4. CASE s = <<>>
    <3>1. s \o t = t
      BY <2>4, ConcatEmptySeq, Zenon DEF Texts
    <3>2. C[s] \o C[t] = C[t]
      <4>1. <<>> \o C[t] = C[t]
        BY <2>3, ConcatEmptySeq, Zenon DEF Texts
      <4> QED
        BY <2>4, <4>1 DEF Spells, Follows
    <3> QED
      BY <2>2, <3>1, <3>2
  <2>5. CASE s # <<>>
    <3>1. /\ Head(s) \in Codes /\ Tail(s) \in Texts
          /\ Len(s) \in Nat /\ Len(Tail(s)) = k - 1 /\ k > 0
      BY <2>2, <2>5, TailShort
    <3>2. C[Tail(s) \o t] = C[Tail(s)] \o C[t]
      <4>1. k - 1 \in Nat /\ ~(k <= k - 1)
        BY <3>1, <2>1
      <4>2. k - 1 \notin Bad
        BY <4>1, <2>1
      <4> QED
        BY <4>1, <4>2, <3>1
    <3>3. s \o t \in Texts /\ s \o t # <<>>
      BY <2>5, TextConcat, Zenon
    <3>4. Head(s \o t) = Head(s) /\ Tail(s \o t) = Tail(s) \o t
      <4> DEFINE u == s \o t
                 v == Tail(s) \o t
      <4>1. /\ Len(u) = Len(s) + Len(t) /\ Len(t) \in Nat /\ Len(s) \in Nat /\ Len(s) > 0
            /\ \A i \in 1 .. Len(s) + Len(t) : u[i] = IF i <= Len(s) THEN s[i] ELSE t[i - Len(s)]
        <5>1. /\ Len(u) = Len(s) + Len(t)
              /\ \A i \in 1 .. Len(s) + Len(t) : u[i] = IF i <= Len(s) THEN s[i] ELSE t[i - Len(s)]
          BY ConcatProperties, Zenon DEF Texts
        <5>2. Len(t) \in Nat
          BY LenProperties DEF Texts
        <5> HIDE DEF u
        <5> QED
          BY <2>2, <3>1, <5>1, <5>2
      <4>2. /\ Len(v) = Len(Tail(s)) + Len(t) /\ v \in Texts
            /\ \A i \in 1 .. Len(Tail(s)) + Len(t) :
                 v[i] = IF i <= Len(Tail(s)) THEN Tail(s)[i] ELSE t[i - Len(Tail(s))]
        BY <3>1, ConcatProperties, Zenon DEF Texts
      <4>3. /\ Tail(u) \in Texts /\ Len(Tail(u)) = Len(u) - 1
            /\ \A i \in 1 .. Len(Tail(u)) : Tail(u)[i] = u[i + 1]
        BY <3>3, HeadTailProperties, Zenon DEF Texts
      <4>4. /\ Len(Tail(s)) = Len(s) - 1
            /\ \A i \in 1 .. Len(Tail(s)) : Tail(s)[i] = s[i + 1]
        BY <2>5, HeadTailProperties, Zenon DEF Texts
      <4>5. Head(u) = u[1] /\ Head(s) = s[1]
        BY <2>5, <3>3, HeadIsFirst
      <4> HIDE DEF u, v
      <4>6. Head(u) = Head(s)
        BY <4>1, <4>5
      <4>7. Len(Tail(u)) = Len(v)
        BY <4>1, <4>2, <4>3, <4>4
      <4>8. ASSUME NEW i \in 1 .. Len(Tail(u)) PROVE Tail(u)[i] = v[i]
        <5>1. i \in Nat /\ i >= 1 /\ i <= Len(s) - 1 + Len(t)
          BY <4>1, <4>3
        <5>2. i + 1 \in 1 .. Len(s) + Len(t) /\ i \in 1 .. Len(Tail(s)) + Len(t)
          BY <5>1, <4>1, <4>4
        <5>3. Tail(u)[i] = IF i + 1 <= Len(s) THEN s[i + 1] ELSE t[i + 1 - Len(s)]
          BY <4>1, <4>3, <5>2
        <5>4. v[i] = IF i <= Len(s) - 1 THEN Tail(s)[i] ELSE t[i - (Len(s) - 1)]
          BY <4>2, <4>4, <5>2
        <5>5. CASE i + 1 <= Len(s)
          BY <5>1, <5>3, <5>4, <5>5, <4>1, <4>4
        <5>6. CASE ~(i + 1 <= Len(s))
          <6>1. i + 1 - Len(s) = i - (Len(s) - 1) /\ ~(i <= Len(s) - 1)
            BY <5>1, <5>6, <4>1
          <6> QED
            BY <5>3, <5>4, <5>6, <6>1
        <5> QED
          BY <5>5, <5>6
      <4>9. Tail(u) = v
        BY <4>2, <4>3, <4>7, <4>8, SeqEqual DEF Texts
      <4> QED
        BY <4>6, <4>9 DEF u, v
    <3>5. C[s \o t] = h[Head(s)] \o (C[Tail(s)] \o C[t])
      BY <3>2, <3>3, <3>4 DEF Spells, Follows
    <3>6. C[s] = h[Head(s)] \o C[Tail(s)]
      BY <2>5 DEF Spells, Follows
    <3>7. h[Head(s)] \in Texts /\ C[Tail(s)] \in Texts
      BY <3>1 DEF Spells, Follows
    <3>8. (h[Head(s)] \o C[Tail(s)]) \o C[t] = h[Head(s)] \o (C[Tail(s)] \o C[t])
      <4> DEFINE x == h[Head(s)]
                 y == C[Tail(s)]
                 z == C[t]
      <4>1. x \in Texts /\ y \in Texts /\ z \in Texts
        BY <2>3, <3>7
      <4> HIDE DEF x, y, z
      <4>2. (x \o y) \o z = x \o (y \o z)
        BY <4>1, TextsAssociate, SMTT(30)
      <4> QED
        BY <4>2 DEF x, y, z
    <3> QED
      BY <2>2, <3>5, <3>6, <3>8
  <2> QED
    BY <2>4, <2>5
<1> QED
  <2> SUFFICES ASSUME NEW s \in Texts, C[s \o t] # C[s] \o C[t] PROVE FALSE
    OBVIOUS
  <2>1. Len(s) \in Nat
    BY LenProperties DEF Texts
  <2> QED
    BY <1>1, <2>1

LEMMA SpellsOne ==
    ASSUME NEW h \in [Codes -> Texts], NEW C, Spells(C, h, Texts), NEW c \in Codes
    PROVE  C[<<c>>] = h[c]
<1>1. <<c>> \in Texts /\ <<c>> # <<>> /\ Head(<<c>>) = c /\ Tail(<<c>>) = <<>>
  BY DEF Texts
<1>2. C[<<c>>] = h[c] \o <<>>
  BY <1>1 DEF Spells, Follows
<1> QED
  BY <1>2, TextConcat

LEMMA SpellsPair ==
    ASSUME NEW h \in [Codes -> Texts], NEW C, Spells(C, h, Texts),
           NEW a \in Codes, NEW b \in Codes
    PROVE  C[<<a, b>>] = h[a] \o h[b]
<1>1. \A x, y \in Codes : C[<<x, y>>] = h[x] \o h[y]
  <2> TAKE x \in Codes, y \in Codes
  <2>1. <<x, y>> \in Texts /\ <<x, y>> # <<>> /\ <<y>> \in Texts
    BY DEF Texts
  <2>2. Head(<<x, y>>) = x /\ Tail(<<x, y>>) = <<y>>
    OBVIOUS
  <2>3. C[<<x, y>>] = h[x] \o C[<<y>>]
    BY <2>1, <2>2 DEF Spells, Follows
  <2> QED
    BY <2>3, SpellsOne
<1> QED
  BY <1>1

\* A code stands for nothing yet, for itself, or for two codes that are
\* characters or tokens made before; e is what it stands for in the end.
Grounded(tab, e) ==
    \A c \in Codes :
      \/ tab[c] = <<>> /\ e[c] = <<>>
      \/ tab[c] = <<c>> /\ e[c] = <<c>>
      \/ \E a, b \in Codes : /\ tab[c] = <<a, b>> /\ e[c] = e[a] \o e[b]
                            /\ \A d \in {a, b} : tab[d] = <<d>> \/ d > c

\* A solution of the recursive definition in Expand.
OneStep(F, tab, c) == IF tab[c] = <<c>> THEN tab[c] ELSE F[tab[c]]
IsFull(F, tab) ==
    F = [s \in Texts |-> IF s = <<>> THEN <<>> ELSE OneStep(F, tab, Head(s)) \o F[Tail(s)]]

LEMMA SpellingIsFull ==
    ASSUME NEW tab \in [Codes -> Texts], NEW e \in [Codes -> Texts], Grounded(tab, e),
           NEW C, Spells(C, e, Texts)
    PROVE  IsFull(C, tab)
<1>0. /\ \A c \in Codes : C[<<c>>] = e[c]
      /\ \A a, b \in Codes : C[<<a, b>>] = e[a] \o e[b]
  <2>1. ASSUME NEW c \in Codes PROVE C[<<c>>] = e[c]
    BY SpellsOne
  <2>2. ASSUME NEW a \in Codes, NEW b \in Codes PROVE C[<<a, b>>] = e[a] \o e[b]
    BY SpellsPair
  <2> QED
    BY <2>1, <2>2
<1>1. ASSUME NEW c \in Codes PROVE OneStep(C, tab, c) = e[c]
  <2>1. CASE tab[c] = <<>> /\ e[c] = <<>>
    <3>1. <<>> # <<c>> /\ C[<<>>] = <<>>
      BY DEF Spells, Follows
    <3> QED
      BY <2>1, <3>1 DEF OneStep
  <2>2. CASE tab[c] = <<c>> /\ e[c] = <<c>>
    BY <2>2 DEF OneStep
  <2>3. ASSUME NEW a \in Codes, NEW b \in Codes, tab[c] = <<a, b>>, e[c] = e[a] \o e[b]
        PROVE  OneStep(C, tab, c) = e[c]
    <3>1. <<a, b>> # <<c>>
      OBVIOUS
    <3>2. C[<<a, b>>] = e[a] \o e[b]
      BY <1>0, Zenon
    <3> QED
      BY <2>3, <3>1, <3>2 DEF OneStep
  <2> QED
    BY <2>1, <2>2, <2>3 DEF Grounded
<1>2. ASSUME NEW s \in Texts
      PROVE  C[s] = IF s = <<>> THEN <<>> ELSE OneStep(C, tab, Head(s)) \o C[Tail(s)]
  <2>1. s # <<>> => Head(s) \in Codes
    BY TailShort
  <2> QED
    BY <1>1, <2>1 DEF Spells, Follows
<1>3. C = [s \in Texts |-> C[s]]
  BY DEF Spells
<1> HIDE DEF OneStep
<1> QED
  BY <1>2, <1>3, Zenon DEF IsFull

LEMMA FullIsSpelling ==
    ASSUME NEW tab \in [Codes -> Texts], NEW e \in [Codes -> Texts], Grounded(tab, e),
           NEW C, Spells(C, e, Texts), NEW F, IsFull(F, tab)
    PROVE  \A s \in Texts : F[s] = C[s]
<1>1. \A s \in Texts : F[s] = IF s = <<>> THEN <<>>
                               ELSE OneStep(F, tab, Head(s)) \o F[Tail(s)]
  BY Zenon DEF IsFull
<1>2. F[<<>>] = <<>>
  BY <1>1, EmptyText
<1> DEFINE Bad == {c \in Codes : OneStep(F, tab, c) # e[c]}
           Up == {NrCodes - c : c \in Bad}
<1>3. ASSUME Bad # {} PROVE FALSE
  <2>1. Up \in SUBSET Nat /\ Up # {}
    BY <1>3, SizeAssumption DEF Codes
  <2>2. PICK n \in Up : \A k \in Up : n <= k
    <3> HIDE DEF Up
    <3> QED
      BY <2>1, LeastNat
  <2>3. PICK c \in Bad : n = NrCodes - c
    BY <2>2
  <2>4. \A d \in Codes : d > c => OneStep(F, tab, d) = e[d]
    <3> SUFFICES ASSUME NEW d \in Codes, d > c, d \in Bad PROVE FALSE
      OBVIOUS
    <3>1. NrCodes - c <= NrCodes - d
      BY <2>2, <2>3
    <3> QED
      BY <3>1, SizeAssumption DEF Codes
  <2>5. CASE tab[c] = <<>> /\ e[c] = <<>>
    <3>1. <<>> # <<c>>
      OBVIOUS
    <3> QED
      BY <1>2, <2>3, <2>5, <3>1 DEF OneStep
  <2>6. CASE tab[c] = <<c>> /\ e[c] = <<c>>
    BY <2>3, <2>6 DEF OneStep
  <2>7. ASSUME NEW a \in Codes, NEW b \in Codes, tab[c] = <<a, b>>, e[c] = e[a] \o e[b],
               \A d \in {a, b} : tab[d] = <<d>> \/ d > c
        PROVE  FALSE
    <3>1. ASSUME NEW d \in {a, b} PROVE OneStep(F, tab, d) = e[d]
      <4>1. CASE d > c
        BY <2>4, <4>1
      <4>2. CASE tab[d] = <<d>>
        <5>0. <<d>> # <<>> /\ \A x, y : <<d>> # <<x, y>>
          OBVIOUS
        <5>1. d \in Codes
          OBVIOUS
        <5>2. \/ tab[d] = <<>> /\ e[d] = <<>>
              \/ tab[d] = <<d>> /\ e[d] = <<d>>
              \/ \E x, y \in Codes : tab[d] = <<x, y>>
          BY <5>1, Zenon DEF Grounded
        <5>3. e[d] = <<d>>
          BY <4>2, <5>0, <5>2, Zenon
        <5> QED
          BY <4>2, <5>3 DEF OneStep
      <4> QED
        BY <2>7, <4>1, <4>2
    <3>2. /\ <<a, b>> \in Texts /\ <<b>> \in Texts /\ <<a, b>> # <<>> /\ <<b>> # <<>>
          /\ Head(<<b>>) = b /\ Tail(<<b>>) = <<>>
      BY DEF Texts
    <3>3. Head(<<a, b>>) = a /\ Tail(<<a, b>>) = <<b>>
      OBVIOUS
    <3>4. F[<<b>>] = e[b] \o <<>>
      BY <1>1, <1>2, <3>1, <3>2
    <3>5. F[<<b>>] = e[b]
      BY <3>4, TextConcat
    <3>6. F[<<a, b>>] = e[a] \o e[b]
      BY <1>1, <3>1, <3>2, <3>3, <3>5
    <3>7. <<a, b>> # <<c>>
      OBVIOUS
    <3> QED
      BY <2>3, <2>7, <3>6, <3>7 DEF OneStep
  <2> QED
    BY <2>3, <2>5, <2>6, <2>7 DEF Grounded
<1>4. \A s \in Texts : s # <<>> => F[s] = e[Head(s)] \o F[Tail(s)]
  BY <1>1, <1>3, TailShort
<1> SUFFICES ASSUME NEW s \in Texts PROVE F[s] = C[s]
  OBVIOUS
<1>5. Len(s) \in Nat /\ s \in Short(Len(s))
  BY TextConcat DEF Short
<1>6. Follows(F, e, Short(Len(s))) /\ Follows(C, e, Short(Len(s)))
  BY <1>2, <1>4 DEF Follows, Spells, Short
<1> QED
  BY <1>5, <1>6, SpellsUnique

\* expand_symbol spells a symbol out.
LEMMA ExpandSpells ==
    ASSUME NEW tab \in [Codes -> Texts], NEW e \in [Codes -> Texts], Grounded(tab, e),
           NEW C, Spells(C, e, Texts), NEW s \in Texts
    PROVE  Expand(tab, s) = C[s]
<1> DEFINE F == CHOOSE G : IsFull(G, tab)
<1>1. IsFull(F, tab)
  BY SpellingIsFull
<1>2. Expand(tab, s) = F[s]
  BY DEF Expand, IsFull, OneStep, Texts
<1> HIDE DEF F
<1> QED
  BY <1>1, <1>2, FullIsSpelling

-----------------------------------------------------------------------------
(* compress_symbols.                                                       *)

\* A round of the loop, and a solution of the recursive definition of rounds.
Round(s, end, token, code) ==
    IF FindToken(s.buf, s.p, end, token) = {} THEN s ELSE Replaced(s, end, token, code)
IsRounds(f, n, sym, token, code) ==
    f = [k \in 0 .. n |->
           IF k = 0 THEN [buf |-> Append(sym, NUL), p |-> 1, len |-> Len(sym)]
           ELSE Round(f[k - 1], Len(sym), token, code)]

LEMMA RoundsExist ==
    ASSUME NEW sym, NEW token, NEW code, NEW n \in Nat
    PROVE  \E f : IsRounds(f, n, sym, token, code)
<1> DEFINE first == [buf |-> Append(sym, NUL), p |-> 1, len |-> Len(sym)]
           Bad == {k \in Nat : ~ \E f : IsRounds(f, k, sym, token, code)}
<1> SUFFICES ASSUME Bad # {} PROVE FALSE
  OBVIOUS
<1>1. PICK m \in Bad : \A k \in Bad : m <= k
  BY LeastNat
<1>2. CASE m = 0
  <2>1. IsRounds([k \in 0 .. 0 |-> first], 0, sym, token, code)
    BY DEF IsRounds
  <2> QED
    BY <1>2, <2>1
<1>3. CASE m # 0
  <2>1. PICK f : IsRounds(f, m - 1, sym, token, code)
    BY <1>1, <1>3
  <2> DEFINE g == [k \in 0 .. m |-> IF k = m THEN Round(f[m - 1], Len(sym), token, code)
                                    ELSE f[k]]
  <2> HIDE DEF first
  <2>2. \A k \in 0 .. m - 1 : f[k] = IF k = 0 THEN first
                                     ELSE Round(f[k - 1], Len(sym), token, code)
    BY <2>1, Zenon DEF IsRounds, first
  <2>3. ASSUME NEW k \in 0 .. m
        PROVE g[k] = IF k = 0 THEN first ELSE Round(g[k - 1], Len(sym), token, code)
    <3> HIDE DEF Round
    <3> QED
      BY <1>3, <2>2
  <2>4. g = [k \in 0 .. m |-> IF k = 0 THEN first
                              ELSE Round(g[k - 1], Len(sym), token, code)]
    BY <2>3
  <2>5. IsRounds(g, m, sym, token, code)
    <3> HIDE DEF g
    <3> QED
      BY <2>4, Zenon DEF IsRounds, first
  <2> QED
    BY <1>1, <2>5
<1> QED
  BY <1>2, <1>3

\* What holds of the buffer of a symbol in every round: what the symbol stands
\* for is kept, and behind it there are terminators.
RoundOK(s, sym, code, C) ==
    /\ s.buf \in Texts /\ Len(s.buf) = Len(sym) + 1
    /\ s.p \in Nat /\ s.p >= 1
    /\ s.len \in 0 .. Len(sym)
    /\ \A i \in s.len + 1 .. Len(sym) + 1 : s.buf[i] = NUL
    /\ \A i \in 1 .. s.len : s.buf[i] \in ToSet(sym) \cup {code}
    /\ C[SubSeq(s.buf, 1, s.len)] = C[sym]

LEMMA SmallestOf ==
    ASSUME NEW S \in SUBSET Nat, S # {}
    PROVE  Min(S) \in S /\ \A k \in S : Min(S) <= k
<1>1. \E m \in S : \A k \in S : m <= k
  BY LeastNat
<1> QED
  BY <1>1 DEF Min

LEMMA PartOfText ==
    ASSUME NEW s \in Texts, NEW m \in Nat, m >= 1, NEW n \in Int, n <= Len(s)
    PROVE  /\ SubSeq(s, m, n) \in Texts
           /\ Len(SubSeq(s, m, n)) = IF m <= n THEN n - m + 1 ELSE 0
           /\ \A i \in 1 .. n - m + 1 : SubSeq(s, m, n)[i] = s[m + i - 1]
<1>1. \A i \in m .. n : s[i] \in Codes
  <2> TAKE i \in m .. n
  <2>1. Len(s) \in Nat
    BY TextConcat
  <2>2. i \in 1 .. Len(s)
    BY <2>1
  <2> QED
    BY <2>2, ElementOfSeq, SMT DEF Texts
<1> QED
  BY <1>1, SubSeqProperties, SMT DEF Texts

LEMMA SameText ==
    ASSUME NEW s \in Texts, NEW t \in Texts, Len(s) = Len(t), \A i \in 1 .. Len(s) : s[i] = t[i]
    PROVE  s = t
BY SeqEqual DEF Texts

\* The parts of s and t from m and from m + d on, entry by entry.
Alike(s, t, m, n, d) ==
    /\ m \in Nat /\ m >= 1 /\ n \in Int /\ n <= Len(s)
    /\ d \in Nat /\ n + d <= Len(t)
    /\ \A i \in m .. n : s[i] = t[i + d]
Same(s, t, m, n, d) == SubSeq(s, m, n) = SubSeq(t, m + d, n + d)

LEMMA SameParts ==
    ASSUME NEW s \in Texts, NEW t \in Texts, NEW m, NEW n, NEW d, Alike(s, t, m, n, d)
    PROVE  Same(s, t, m, n, d)
<1> DEFINE k == m + d
           l == n + d
           x == SubSeq(s, m, n)
           y == SubSeq(t, k, l)
<1>1. /\ x \in Texts /\ Len(x) = IF m <= n THEN n - m + 1 ELSE 0
      /\ \A i \in 1 .. n - m + 1 : x[i] = s[m + i - 1]
  BY PartOfText DEF Alike
<1>2. k \in Nat /\ k >= 1 /\ l \in Int /\ l <= Len(t) /\ k = m + d /\ l = n + d
  BY DEF Alike
<1> HIDE DEF k, l
<1>3. /\ y \in Texts /\ Len(y) = IF k <= l THEN l - k + 1 ELSE 0
      /\ \A i \in 1 .. l - k + 1 : y[i] = t[k + i - 1]
  BY <1>2, PartOfText
<1> HIDE DEF x, y
<1>4. Len(x) = Len(y)
  BY <1>1, <1>2, <1>3 DEF Alike
<1>5. ASSUME NEW i \in 1 .. Len(x) PROVE x[i] = y[i]
  <2>1. /\ i \in 1 .. n - m + 1 /\ i \in 1 .. l - k + 1 /\ m + i - 1 \in m .. n
        /\ k + i - 1 = m + i - 1 + d
    BY <1>1, <1>2 DEF Alike
  <2> QED
    BY <1>1, <1>3, <2>1 DEF Alike
<1>6. x = y
  BY <1>1, <1>3, <1>4, <1>5, SameText
<1> QED
  BY <1>6 DEF x, y, k, l, Same

LEMMA SplitText ==
    ASSUME NEW s \in Texts, NEW m \in Nat, m >= 1, NEW k \in Int, NEW n \in Int,
           m - 1 <= k, k <= n, n <= Len(s)
    PROVE  SubSeq(s, m, n) = SubSeq(s, m, k) \o SubSeq(s, k + 1, n)
<1>1. Len(s) \in Nat
  BY TextConcat
<1>2. m \in 1 .. Len(s) + 1 /\ k \in m - 1 .. Len(s) /\ n \in k .. Len(s)
  BY <1>1
<1> QED
  BY <1>2, ConcatAdjacentSubSeq DEF Texts

LEMMA OneOfText ==
    ASSUME NEW s \in Texts, NEW j \in 1 .. Len(s)
    PROVE  SubSeq(s, j, j) = <<s[j]>>
<1> DEFINE x == SubSeq(s, j, j)
<1>1. Len(s) \in Nat /\ s[j] \in Codes
  BY TextConcat, ElementOfSeq DEF Texts
<1>2. x \in Texts /\ Len(x) = 1 /\ x[1] = s[j]
  BY <1>1, PartOfText
<1> HIDE DEF x
<1>3. <<s[j]>> \in Texts /\ Len(<<s[j]>>) = 1 /\ <<s[j]>>[1] = s[j]
  BY <1>1 DEF Texts
<1> DEFINE y == <<s[j]>>
<1> HIDE DEF y
<1>4. \A i \in 1 .. Len(x) : x[i] = y[i]
  BY <1>2, <1>3 DEF y
<1>5. x = y
  BY <1>2, <1>3, <1>4, SameText DEF y
<1> QED
  BY <1>5 DEF x, y

LEMMA TwoOfText ==
    ASSUME NEW s \in Texts, NEW j \in 1 .. Len(s) - 1
    PROVE  SubSeq(s, j, j + 1) = <<s[j], s[j + 1]>>
<1> DEFINE x == SubSeq(s, j, j + 1)
           y == <<s[j], s[j + 1]>>
<1>1. Len(s) \in Nat
  BY TextConcat
<1>2. j \in 1 .. Len(s) /\ j + 1 \in 1 .. Len(s)
  BY <1>1
<1>3. s[j] \in Codes /\ s[j + 1] \in Codes
  BY <1>2, ElementOfSeq DEF Texts
<1>4. x \in Texts /\ Len(x) = 2 /\ x[1] = s[j] /\ x[2] = s[j + 1]
  <2>1. /\ x \in Texts /\ Len(x) = IF j <= j + 1 THEN j + 1 - j + 1 ELSE 0
        /\ \A i \in 1 .. j + 1 - j + 1 : x[i] = s[j + i - 1]
    <3>1. j \in Nat /\ j >= 1 /\ j + 1 \in Int /\ j + 1 <= Len(s)
      BY <1>1
    <3> QED
      BY <3>1, PartOfText
  <2> HIDE DEF x
  <2>2. Len(x) = 2 /\ 1 \in 1 .. j + 1 - j + 1 /\ 2 \in 1 .. j + 1 - j + 1
        /\ j + 1 - 1 = j /\ j + 2 - 1 = j + 1
    BY <2>1
  <2> QED
    BY <2>1, <2>2
<1> HIDE DEF x
<1>5. y \in Texts /\ Len(y) = 2 /\ y[1] = s[j] /\ y[2] = s[j + 1]
  BY <1>3 DEF Texts
<1> HIDE DEF y
<1>6. \A i \in 1 .. Len(x) : x[i] = y[i]
  <2>1. \A i \in 1 .. Len(x) : i = 1 \/ i = 2
    BY <1>4
  <2> QED
    BY <1>4, <1>5, <2>1
<1>7. x = y
  BY <1>4, <1>5, <1>6, SameText
<1> QED
  BY <1>7 DEF x, y

LEMMA RoundKeeps ==
    ASSUME NEW sym \in Texts, NEW a \in Characters, NEW b \in Characters, NEW code \in Codes,
           NEW h \in [Codes -> Texts], NEW C, Spells(C, h, Texts), h[code] = h[a] \o h[b],
           NEW s, RoundOK(s, sym, code, C)
    PROVE  RoundOK(Round(s, Len(sym), <<a, b>>, code), sym, code, C)
<1> DEFINE end == Len(sym)
           at == FindToken(s.buf, s.p, end, <<a, b>>)
           j == Min(at)
           new == Replaced(s, end, <<a, b>>, code)
<1>0. end \in Nat /\ a \in Codes /\ b \in Codes /\ a # NUL /\ b # NUL
  BY TextConcat DEF Characters
<1>1. CASE at = {}
  BY <1>1 DEF Round
<1>2. CASE at # {}
  <2>1. Round(s, end, <<a, b>>, code) = new
    BY <1>2 DEF Round
  <2>2. j \in at
    <3>1. at \in SUBSET Nat
      BY <1>0 DEF FindToken, RoundOK
    <3> HIDE DEF at
    <3> QED
      BY <1>2, <3>1, SmallestOf
  <2>3. j \in s.p .. end - 1 /\ s.buf[j] = a /\ s.buf[j + 1] = b
    BY <2>2 DEF FindToken
  <2> DEFINE buf == s.buf
             len == s.len
             moved == [k \in 1 .. end + 1 |-> IF k < j \/ k > end THEN buf[k]
                                             ELSE IF k = j THEN code ELSE buf[k + 1]]
  <2>4. new = [buf |-> moved, p |-> j + 1, len |-> len - 1]
    BY DEF Replaced
  <2>5. /\ buf \in Texts /\ Len(buf) = end + 1 /\ len \in 0 .. end
        /\ \A i \in len + 1 .. end + 1 : buf[i] = NUL
        /\ \A i \in 1 .. len : buf[i] \in ToSet(sym) \cup {code}
        /\ C[SubSeq(buf, 1, len)] = C[sym]
        /\ s.p \in Nat /\ s.p >= 1
    BY DEF RoundOK
  <2>6. \A i \in 1 .. end + 1 : buf[i] \in Codes
    BY <1>0, <2>5, ElementOfSeq, SMT DEF Texts
  <2>7. j \in Nat /\ j >= 1 /\ j + 1 <= len
    <3>1. j \in Nat /\ j >= 1 /\ j + 1 <= end
      BY <1>0, <2>3, <2>5
    <3>2. ASSUME ~(j + 1 <= len) PROVE FALSE
      <4>1. j + 1 \in len + 1 .. end + 1
        BY <3>1, <3>2, <2>5, <1>0
      <4> QED
        BY <4>1, <2>5, <2>3, <1>0
    <3> QED
      BY <3>1, <3>2
  <2> HIDE DEF j, at, new
  <2>8. \A k \in 1 .. end + 1 : moved[k] = IF k < j \/ k > end THEN buf[k]
                                          ELSE IF k = j THEN code ELSE buf[k + 1]
    OBVIOUS
  <2>9. moved \in Texts /\ Len(moved) = end + 1
    <3>1. ASSUME NEW k \in 1 .. end + 1 PROVE moved[k] \in Codes
      <4>1. ~(k > end) => k + 1 \in 1 .. end + 1
        BY <1>0
      <4> QED
        BY <2>6, <2>8, <4>1
    <3>2. moved \in [1 .. end + 1 -> Codes]
      BY <3>1
    <3> HIDE DEF moved, end
    <3> QED
      BY <1>0, <3>2 DEF Texts
  <2> HIDE DEF moved, buf, len, end
  <2>20. /\ j \in Nat /\ j - 1 \in Int /\ j + 1 \in Nat /\ j + 2 \in Nat /\ len - 1 \in Nat
         /\ j >= 1 /\ j + 1 >= 1 /\ j + 2 >= 1 /\ 1 - 1 <= j - 1 /\ len \in Nat
         /\ j - 1 <= len /\ j + 1 <= len /\ j <= len - 1 /\ j - 1 <= len - 1
         /\ len <= end + 1 /\ len - 1 <= end + 1 /\ j - 1 <= end + 1
         /\ j - 1 <= j + 1 /\ j - 1 <= j /\ (j - 1) + 1 = j /\ (j + 1) + 1 = j + 2
         /\ j \in 1 .. (end + 1) - 1 /\ j \in 1 .. end + 1
    BY <1>0, <2>5, <2>7
  <2> DEFINE A == SubSeq(buf, 1, j - 1)
             B == SubSeq(buf, j + 2, len)
  <2>10. SubSeq(buf, 1, len) = A \o (<<a, b>> \o B)
    <3>1. SubSeq(buf, 1, len) = A \o SubSeq(buf, (j - 1) + 1, len)
      BY <2>5, <2>20, SplitText
    <3>2. SubSeq(buf, j, len) = SubSeq(buf, j, j + 1) \o SubSeq(buf, (j + 1) + 1, len)
      BY <2>5, <2>20, SplitText
    <3>3. SubSeq(buf, j, j + 1) = <<a, b>>
      <4>1. SubSeq(buf, j, j + 1) = <<buf[j], buf[j + 1]>>
        BY <2>5, <2>20, TwoOfText
      <4> QED
        BY <2>3, <4>1 DEF buf
    <3> HIDE DEF A
    <3> QED
      BY <3>1, <3>2, <3>3, <2>20
  <2>11. SubSeq(moved, 1, len - 1) = A \o (<<code>> \o B)
    <3>1. SubSeq(moved, 1, len - 1) = SubSeq(moved, 1, j - 1) \o SubSeq(moved, (j - 1) + 1, len - 1)
      BY <2>9, <2>20, SplitText
    <3>2. SubSeq(moved, j, len - 1) = SubSeq(moved, j, j) \o SubSeq(moved, j + 1, len - 1)
      BY <2>9, <2>20, SplitText
    <3>3. SubSeq(moved, 1, j - 1) = A
      <4>1. ASSUME NEW i \in 1 .. j - 1 PROVE moved[i] = buf[i + 0]
        <5>1. i \in 1 .. end + 1 /\ i < j /\ i + 0 = i
          BY <2>20, <1>0
        <5> QED
          BY <2>8, <5>1
      <4>2. Alike(moved, buf, 1, j - 1, 0)
        BY <2>5, <2>9, <2>20, <4>1 DEF Alike
      <4>3. SubSeq(moved, 1, j - 1) = SubSeq(buf, 1 + 0, (j - 1) + 0)
        <5>1. Same(moved, buf, 1, j - 1, 0)
          BY <2>5, <2>9, <4>2, SameParts
        <5> QED
          BY <5>1, Zenon DEF Same
      <4>4. 1 + 0 = 1 /\ (j - 1) + 0 = j - 1
        BY <2>20
      <4> QED
        BY <4>3, <4>4
    <3>4. SubSeq(moved, j, j) = <<code>>
      <4>1. SubSeq(moved, j, j) = <<moved[j]>>
        BY <2>9, <2>20, OneOfText
      <4>2. ~(j < j) /\ ~(j > end)
        BY <1>0, <2>5, <2>7
      <4> QED
        BY <2>8, <2>20, <4>1, <4>2
    <3>5. SubSeq(moved, j + 1, len - 1) = B
      <4>1. ASSUME NEW i \in j + 1 .. len - 1 PROVE moved[i] = buf[i + 1]
        <5>1. i \in 1 .. end + 1 /\ ~(i < j) /\ ~(i > end) /\ i # j
          BY <2>20, <2>5, <1>0
        <5> QED
          BY <2>8, <5>1
      <4>2. Alike(moved, buf, j + 1, len - 1, 1)
        BY <2>5, <2>9, <2>20, <4>1 DEF Alike
      <4>3. SubSeq(moved, j + 1, len - 1) = SubSeq(buf, (j + 1) + 1, (len - 1) + 1)
        <5>1. Same(moved, buf, j + 1, len - 1, 1)
          BY <2>5, <2>9, <4>2, SameParts
        <5> QED
          BY <5>1, Zenon DEF Same
      <4>4. (j + 1) + 1 = j + 2 /\ (len - 1) + 1 = len
        BY <2>20
      <4> QED
        BY <4>3, <4>4, Zenon
    <3> HIDE DEF A, B
    <3> QED
      BY <3>1, <3>2, <3>3, <3>4, <3>5, <2>20
  <2>12. C[SubSeq(moved, 1, len - 1)] = C[SubSeq(buf, 1, len)]
    <3>1. A \in Texts /\ B \in Texts
      <4>1. 1 \in Nat /\ 1 >= 1
        OBVIOUS
      <4> QED
        BY <2>5, <2>20, <4>1, PartOfText
    <3>2. <<a, b>> \in Texts /\ <<code>> \in Texts
      BY <1>0 DEF Texts
    <3>3. C[<<a, b>>] = C[<<code>>]
      <4>1. C[<<code>>] = h[code]
        BY SpellsOne
      <4>2. C[<<a, b>>] = h[a] \o h[b]
        BY <1>0, SpellsPair
      <4> QED
        BY <4>1, <4>2, Zenon
    <3>4. /\ \A u, v \in Texts : C[u \o v] = C[u] \o C[v]
          /\ \A u, v \in Texts : u \o v \in Texts
      <4>1. \A u, v \in Texts : C[u \o v] = C[u] \o C[v]
        BY SpellsConcat
      <4> QED
        BY <4>1, TextConcat, Zenon
    <3> HIDE DEF A, B
    <3>6. ASSUME NEW u \in Texts, NEW v \in Texts, NEW x \in Texts, NEW y \in Texts, C[x] = C[y]
          PROVE  C[u \o (x \o v)] = C[u \o (y \o v)]
      <4>1. C[u \o (x \o v)] = C[u] \o C[x \o v] /\ C[x \o v] = C[x] \o C[v]
        BY <3>4
      <4>2. C[u \o (y \o v)] = C[u] \o C[y \o v] /\ C[y \o v] = C[y] \o C[v]
        BY <3>4
      <4> QED
        BY <4>1, <4>2, <3>6
    <3>5. C[A \o (<<a, b>> \o B)] = C[A \o (<<code>> \o B)]
      <4> DEFINE X == <<a, b>>
                 Y == <<code>>
      <4>1. X \in Texts /\ Y \in Texts /\ C[X] = C[Y]
        BY <3>2, <3>3
      <4> HIDE DEF X, Y
      <4>2. C[A \o (X \o B)] = C[A \o (Y \o B)]
        BY <3>1, <4>1, <3>6
      <4> QED
        BY <4>2 DEF X, Y
    <3> QED
      BY <2>10, <2>11, <3>5
  <2>13. \A i \in len .. end + 1 : moved[i] = NUL
    <3> TAKE i \in len .. end + 1
    <3>1. i \in 1 .. end + 1 /\ ~(i < j) /\ i # j /\ (i > end => i \in len + 1 .. end + 1)
          /\ (~(i > end) => i + 1 \in len + 1 .. end + 1)
      BY <1>0, <2>5, <2>7
    <3> QED
      BY <2>5, <2>8, <3>1
  <2>14. \A i \in 1 .. len - 1 : moved[i] \in ToSet(sym) \cup {code}
    <3> TAKE i \in 1 .. len - 1
    <3>1. i \in 1 .. end + 1 /\ ~(i > end) /\ i \in 1 .. len /\ i + 1 \in 1 .. len
      BY <1>0, <2>5, <2>7
    <3> QED
      BY <2>5, <2>8, <3>1
  <2>15. len - 1 \in 0 .. end /\ (len - 1) + 1 = len /\ j + 1 \in Nat /\ j + 1 >= 1
    BY <1>0, <2>5, <2>7
  <2>16. C[SubSeq(moved, 1, len - 1)] = C[sym]
    BY <2>5, <2>12
  <2>17. new.buf = moved /\ new.p = j + 1 /\ new.len = len - 1
    BY <2>4
  <2> HIDE DEF moved
  <2>18. RoundOK(new, sym, code, C)
    BY <2>9, <2>13, <2>14, <2>15, <2>16, <2>17 DEF RoundOK, end
  <2> QED
    BY <2>1, <2>18 DEF end
<1> QED
  BY <1>1, <1>2

\* A token put in the place of its two codes: the symbol stands for the same.
LEMMA Compressed ==
    ASSUME NEW sym \in Texts, NEW a \in Characters, NEW b \in Characters, NEW code \in Codes,
           NEW h \in [Codes -> Texts], NEW C, Spells(C, h, Texts), h[code] = h[a] \o h[b]
    PROVE  LET new == CompressSym(sym, <<a, b>>, code)
           IN  /\ new \in Texts /\ C[new] = C[sym]
               /\ \A i \in 1 .. Len(new) : new[i] \in ToSet(sym) \cup {code}
<1> DEFINE f == CHOOSE g : IsRounds(g, Len(sym), sym, <<a, b>>, code)
           end == Len(sym)
<1>1. end \in Nat
  BY TextConcat
<1>2. IsRounds(f, end, sym, <<a, b>>, code)
  BY <1>1, RoundsExist
<1>3. CompressSym(sym, <<a, b>>, code) = SubSeq(f[end].buf, 1, f[end].len)
  BY DEF CompressSym, IsRounds, Round
<1> HIDE DEF f
<1>4. \A k \in 0 .. end : f[k] = IF k = 0 THEN [buf |-> Append(sym, NUL), p |-> 1, len |-> end]
                                ELSE Round(f[k - 1], end, <<a, b>>, code)
  BY <1>2, Zenon DEF IsRounds
<1>5. RoundOK(f[0], sym, code, C)
  <2>1. f[0] = [buf |-> Append(sym, NUL), p |-> 1, len |-> end]
    <3>1. 0 \in 0 .. end
      BY <1>1
    <3> QED
      BY <1>4, <3>1, Zenon
  <2> DEFINE buf == Append(sym, NUL)
  <2>2. NUL \in Codes
    BY SizeAssumption DEF NUL, Codes
  <2>3. /\ buf \in Texts /\ Len(buf) = end + 1
        /\ \A i \in 1 .. end : buf[i] = sym[i]
        /\ buf[end + 1] = NUL
    BY <2>2, AppendProperties DEF Texts
  <2>4. SubSeq(buf, 1, end) = sym
    <3>1. /\ SubSeq(buf, 1, end) \in Texts
          /\ Len(SubSeq(buf, 1, end)) = IF 1 <= end THEN end - 1 + 1 ELSE 0
          /\ \A i \in 1 .. end - 1 + 1 : SubSeq(buf, 1, end)[i] = buf[1 + i - 1]
      <4> HIDE DEF buf
      <4> QED
        BY <1>1, <2>3, PartOfText
    <3>2. Len(SubSeq(buf, 1, end)) = end
      BY <1>1, <3>1
    <3>3. \A i \in 1 .. end : SubSeq(buf, 1, end)[i] = sym[i]
      BY <1>1, <2>3, <3>1
    <3> QED
      BY <3>1, <3>2, <3>3, SeqEqual DEF Texts
  <2>5. \A i \in 1 .. end : sym[i] \in ToSet(sym)
    BY LenProperties DEF ToSet, Texts
  <2> HIDE DEF buf
  <2>6. f[0].buf = buf /\ f[0].p = 1 /\ f[0].len = end
    BY <2>1 DEF buf
  <2>7. \A i \in end + 1 .. end + 1 : i = end + 1
    BY <1>1
  <2>8. \A i \in 1 .. end : buf[i] \in ToSet(sym) \cup {code}
    BY <2>3, <2>5
  <2>9. end \in 0 .. end /\ 1 \in Nat /\ 1 >= 1
    BY <1>1
  <2> QED
    BY <2>3, <2>4, <2>6, <2>7, <2>8, <2>9 DEF RoundOK
<1>6. \A k \in 0 .. end : RoundOK(f[k], sym, code, C)
  <2> DEFINE Bad == {k \in 0 .. end : ~RoundOK(f[k], sym, code, C)}
  <2> SUFFICES ASSUME Bad # {} PROVE FALSE
    OBVIOUS
  <2>1. PICK k \in Bad : \A l \in Bad : k <= l
    <3>1. Bad \in SUBSET Nat
      BY <1>1
    <3> HIDE DEF Bad
    <3> QED
      BY <3>1, LeastNat
  <2>2. k # 0 /\ k - 1 \in 0 .. end
    BY <1>1, <1>5, <2>1
  <2>3. RoundOK(f[k - 1], sym, code, C)
    <3>1. ~(k <= k - 1)
      BY <1>1, <2>1
    <3> QED
      BY <2>1, <2>2, <3>1
  <2>4. f[k] = Round(f[k - 1], end, <<a, b>>, code)
    BY <1>4, <2>1, <2>2
  <2> QED
    BY <2>1, <2>3, <2>4, RoundKeeps
<1>7. RoundOK(f[end], sym, code, C)
  BY <1>1, <1>6
<1> DEFINE buf == f[end].buf
           len == f[end].len
<1>8. /\ buf \in Texts /\ Len(buf) = end + 1 /\ len \in 0 .. end
      /\ \A i \in 1 .. len : buf[i] \in ToSet(sym) \cup {code}
      /\ C[SubSeq(buf, 1, len)] = C[sym]
  BY <1>7 DEF RoundOK
<1> HIDE DEF buf, len
<1>9. /\ SubSeq(buf, 1, len) \in Texts
      /\ Len(SubSeq(buf, 1, len)) = IF 1 <= len THEN len - 1 + 1 ELSE 0
      /\ \A i \in 1 .. len - 1 + 1 : SubSeq(buf, 1, len)[i] = buf[1 + i - 1]
  BY <1>1, <1>8, PartOfText
<1>10. \A i \in 1 .. Len(SubSeq(buf, 1, len)) :
         SubSeq(buf, 1, len)[i] \in ToSet(sym) \cup {code}
  <2> TAKE i \in 1 .. Len(SubSeq(buf, 1, len))
  <2>1. i \in 1 .. len /\ i \in 1 .. len - 1 + 1 /\ 1 + i - 1 = i
    BY <1>8, <1>9
  <2> QED
    BY <1>8, <1>9, <2>1
<1> QED
  BY <1>3, <1>8, <1>9, <1>10 DEF buf, len

-----------------------------------------------------------------------------
(* token_profit[]: sums, and the best token.                               *)

IsTotal(f, g, n) == f = [i \in 0 .. n |-> IF i = 0 THEN 0 ELSE f[i - 1] + g[i]]

LEMMA TotalsExist ==
    ASSUME NEW g, NEW n \in Nat
    PROVE  \E f : IsTotal(f, g, n)
<1> DEFINE Bad == {k \in Nat : ~ \E f : IsTotal(f, g, k)}
<1> SUFFICES ASSUME Bad # {} PROVE FALSE
  OBVIOUS
<1>1. PICK m \in Bad : \A k \in Bad : m <= k
  BY LeastNat
<1>2. CASE m = 0
  <2>1. IsTotal([k \in 0 .. 0 |-> 0], g, 0)
    BY DEF IsTotal
  <2> QED
    BY <1>2, <2>1
<1>3. CASE m # 0
  <2>1. PICK f : IsTotal(f, g, m - 1)
    BY <1>1, <1>3
  <2> DEFINE sum(i) == f[i - 1] + g[i]
             new == [k \in 0 .. m |-> IF k = m /\ k # 0 THEN sum(m) ELSE f[k]]
  <2>2. \A k \in 0 .. m - 1 : f[k] = IF k = 0 THEN 0 ELSE f[k - 1] + g[k]
    BY <2>1, Zenon DEF IsTotal
  <2>3. ASSUME NEW k \in 0 .. m
        PROVE new[k] = IF k = 0 THEN 0 ELSE new[k - 1] + g[k]
    BY <1>3, <2>2
  <2>4. new = [k \in 0 .. m |-> IF k = 0 THEN 0 ELSE new[k - 1] + g[k]]
    BY <2>3
  <2>5. IsTotal(new, g, m)
    <3> HIDE DEF new
    <3> QED
      BY <2>4, Zenon DEF IsTotal
  <2> QED
    BY <1>1, <2>5
<1> QED
  BY <1>2, <1>3

\* A sum of integers is an integer, and one of zeros is zero.
LEMMA TotalIsSum ==
    ASSUME NEW g, NEW n \in Nat, \A i \in 1 .. n : g[i] \in Int
    PROVE  /\ Total(g, n) \in Int
           /\ Total(g, n) # 0 => \E i \in 1 .. n : g[i] # 0
<1> DEFINE f == CHOOSE h : IsTotal(h, g, n)
<1>1. IsTotal(f, g, n)
  BY TotalsExist
<1>2. Total(g, n) = f[n]
  BY DEF Total, IsTotal
<1> HIDE DEF f
<1>3. \A i \in 0 .. n : f[i] = IF i = 0 THEN 0 ELSE f[i - 1] + g[i]
  BY <1>1, Zenon DEF IsTotal
<1> DEFINE Good(i) == f[i] \in Int /\ ((\A j \in 1 .. n : g[j] = 0) => f[i] = 0)
           Bad == {i \in 0 .. n : ~Good(i)}
<1>4. ASSUME Bad # {} PROVE FALSE
  <2>1. PICK i \in Bad : \A l \in Bad : i <= l
    <3>1. Bad \in SUBSET Nat
      OBVIOUS
    <3> HIDE DEF Bad
    <3> QED
      BY <1>4, <3>1, LeastNat
  <2>2. i # 0
    BY <1>3, <2>1
  <2>3. i - 1 \in 0 .. n /\ ~(i <= i - 1) /\ i \in 1 .. n
    BY <2>1, <2>2
  <2>4. Good(i - 1)
    BY <2>1, <2>3
  <2>5. f[i] = f[i - 1] + g[i]
    BY <1>3, <2>2
  <2>6. Good(i)
    BY <2>3, <2>4, <2>5
  <2> QED
    BY <2>1, <2>6
<1>5. Good(n)
  BY <1>4
<1> QED
  BY <1>2, <1>5

\* A pair that occurs somewhere is a pair of neighbours.
LEMMA OccurrencesNat ==
    ASSUME NEW s \in Texts, NEW token
    PROVE  /\ Occurrences(s, token) \in Nat
           /\ Occurrences(s, token) # 0 => \E k \in 1 .. Len(s) - 1 : token = <<s[k], s[k + 1]>>
<1> DEFINE places == {k \in 1 .. Len(s) - 1 : <<s[k], s[k + 1]>> = token}
<1>1. IsFiniteSet(1 .. Len(s) - 1)
  BY TextConcat, FS_Interval
<1>2. IsFiniteSet(places) /\ places \in SUBSET (1 .. Len(s) - 1)
  BY <1>1, FS_Subset
<1>3. Occurrences(s, token) = Cardinality(places)
  BY DEF Occurrences
<1>4. places = {} => Cardinality(places) = 0
  BY FS_EmptySet
<1>5. Cardinality(places) \in Nat
  BY <1>2, FS_CardinalityType
<1> QED
  BY <1>3, <1>4, <1>5

\* A finite set of integers has a greatest element.
LEMMA GreatestOf ==
    ASSUME NEW S \in SUBSET Int, S # {}, IsFiniteSet(S)
    PROVE  Max(S) \in S
<1> DEFINE Top(T) == \E m \in T : \A k \in T : m >= k
           Of(T) == T \in SUBSET Int /\ T # {} /\ IsFiniteSet(T)
           Bad == {n \in Nat : \E T : Of(T) /\ Cardinality(T) = n /\ ~Top(T)}
<1>1. ASSUME Bad # {} PROVE FALSE
  <2>1. PICK n \in Bad : \A l \in Bad : n <= l
    BY <1>1, LeastNat
  <2>2. PICK T : Of(T) /\ Cardinality(T) = n /\ ~Top(T)
    BY <2>1
  <2>3. PICK x \in T : TRUE
    BY <2>2
  <2> DEFINE U == T \ {x}
  <2>4. IsFiniteSet(U) /\ Cardinality(U) = n - 1 /\ U \in SUBSET Int
    BY <2>2, <2>3, FS_RemoveElement
  <2>5. U # {}
    BY <2>2, <2>3
  <2>6. n - 1 \in Nat /\ ~(n <= n - 1)
    BY <2>1, <2>4, FS_CardinalityType
  <2>7. Top(U)
    <3>1. n - 1 \notin Bad
      BY <2>1, <2>6
    <3> HIDE DEF U
    <3> QED
      BY <2>4, <2>5, <2>6, <3>1
  <2>8. PICK m \in U : \A k \in U : m >= k
    BY <2>7
  <2>9. \A k \in T : k = x \/ k \in U
    OBVIOUS
  <2>10. x \in Int /\ m \in Int /\ m \in T
    BY <2>2, <2>3, <2>8
  <2>11. Top(T)
    <3>1. CASE m >= x
      BY <2>8, <2>9, <2>10, <3>1
    <3>2. CASE ~(m >= x)
      <4>1. \A k \in T : x >= k
        BY <2>2, <2>8, <2>9, <2>10, <3>2
      <4> QED
        BY <2>3, <4>1
    <3> QED
      BY <3>1, <3>2
  <2> QED
    BY <2>2, <2>11
<1>2. Top(S)
  <2>1. Of(S) /\ Cardinality(S) \in Nat
    BY FS_CardinalityType
  <2> HIDE DEF Top, Of
  <2> QED
    BY <1>1, <2>1
<1> QED
  BY <1>2 DEF Max

LEMMA IndexDigits ==
    ASSUME NEW N \in Nat, N > 0, NEW a \in 0 .. N - 1, NEW b \in 0 .. N - 1
    PROVE  /\ a + b * N \in Nat
           /\ (a + b * N) % N \in 0 .. N - 1
           /\ (a + b * N) \div N \in 0 .. N - 1
<1>1. b * N \in Nat /\ b * N <= (N - 1) * N
  OBVIOUS
<1> QED
  BY <1>1

\* find_best_token answers with a pair of codes.
LEMMA BestTokenIsPair ==
    ASSUME NEW p \in [Pairs -> Int]
    PROVE  FindBestToken(p) \in Pairs
<1> DEFINE greatest == Max(Range(p))
           most == {t \in Pairs : p[t] = greatest}
           indices == {t[1] + t[2] * NrCodes : t \in most}
           index == Min(indices)
<1>1. NrCodes \in Nat /\ NrCodes > 0 /\ Codes = 0 .. NrCodes - 1
  BY SizeAssumption DEF Codes
<1>2. IsFiniteSet(Pairs)
  <2>1. IsFiniteSet(Codes)
    BY <1>1, FS_Interval
  <2> QED
    BY <2>1, FS_Product DEF Pairs
<1>3. Range(p) # {} /\ Range(p) \in SUBSET Int
  <2>1. <<0, 0>> \in Pairs
    BY <1>1 DEF Pairs
  <2> QED
    BY <2>1 DEF Range
<1>4. IsFiniteSet(Range(p))
  <2>1. p \in Surjection(Pairs, Range(p))
    BY Fun_RangeProperties, Zenon
  <2> QED
    BY <1>2, <2>1, FS_Surjection
<1>5. greatest \in Range(p)
  BY <1>3, <1>4, GreatestOf
<1>6. most # {}
  <2> HIDE DEF greatest
  <2> QED
    BY <1>5 DEF Range
<1> HIDE DEF most
<1>7. \A t \in most : t[1] \in 0 .. NrCodes - 1 /\ t[2] \in 0 .. NrCodes - 1
  BY <1>1 DEF most, Pairs
<1>8. \A t \in most : t[1] + t[2] * NrCodes \in Nat
  BY <1>1, <1>7, IndexDigits
<1>9. index \in indices
  <2>1. indices \in SUBSET Nat /\ indices # {}
    BY <1>6, <1>8
  <2> HIDE DEF indices
  <2> QED
    BY <2>1, SmallestOf
<1>10. PICK t \in most : index = t[1] + t[2] * NrCodes
  BY <1>9
<1>11. index % NrCodes \in 0 .. NrCodes - 1 /\ index \div NrCodes \in 0 .. NrCodes - 1
  BY <1>1, <1>7, <1>10, IndexDigits
<1>12. FindBestToken(p) = <<index % NrCodes, index \div NrCodes>>
  BY DEF FindBestToken, most
<1> HIDE DEF index
<1> QED
  BY <1>1, <1>11, <1>12 DEF Pairs

-----------------------------------------------------------------------------
(* compare_symbols orders the symbols, and sort_symbols lists them.        *)

Entries == [addr : Int, pos : Nat, sym : Seq(Characters)]

LEMMA KeysAreIntegers ==
    ASSUME NEW a \in Entries
    PROVE  /\ a.addr \in Int /\ Weak(a) \in Int /\ Provided(a) \in Int
           /\ Underscores(a) \in Int /\ a.pos \in Int
<1>1. Underscores(a) \in Nat
  <2> DEFINE places == {k \in 2 .. Len(a.sym) : \A j \in 2 .. k : a.sym[j] = Underscore}
  <2>1. Len(a.sym) \in Nat
    BY LenProperties DEF Entries
  <2>2. IsFiniteSet(2 .. Len(a.sym)) /\ places \in SUBSET (2 .. Len(a.sym))
    BY <2>1, FS_Interval
  <2> HIDE DEF places
  <2>3. Cardinality(places) \in Nat
    BY <2>2, FS_Subset, FS_CardinalityType
  <2> QED
    BY <2>3 DEF Underscores, places
<1> QED
  BY <1>1 DEF Entries, Weak, Provided

LEMMA SortsBeforeIs ==
    ASSUME NEW a \in Entries, NEW b \in Entries
    PROVE  SortsBefore(a, b) <=>
             \/ a.addr < b.addr
             \/ a.addr = b.addr /\ Weak(a) < Weak(b)
             \/ a.addr = b.addr /\ Weak(a) = Weak(b) /\ Provided(a) < Provided(b)
             \/ /\ a.addr = b.addr /\ Weak(a) = Weak(b) /\ Provided(a) = Provided(b)
                /\ Underscores(a) < Underscores(b)
             \/ /\ a.addr = b.addr /\ Weak(a) = Weak(b) /\ Provided(a) = Provided(b)
                /\ Underscores(a) = Underscores(b) /\ a.pos < b.pos
<1> DEFINE ka == <<a.addr, Weak(a), Provided(a), Underscores(a), a.pos>>
           kb == <<b.addr, Weak(b), Provided(b), Underscores(b), b.pos>>
           Wins(i) == ka[i] < kb[i] /\ \A j \in 1 .. i - 1 : ka[j] = kb[j]
<1>1. SortsBefore(a, b) <=> \E i \in 1 .. 5 : Wins(i)
  BY DEF SortsBefore
<1>2. /\ ka[1] = a.addr /\ ka[2] = Weak(a) /\ ka[3] = Provided(a)
      /\ ka[4] = Underscores(a) /\ ka[5] = a.pos
  OBVIOUS
<1>3. /\ kb[1] = b.addr /\ kb[2] = Weak(b) /\ kb[3] = Provided(b)
      /\ kb[4] = Underscores(b) /\ kb[5] = b.pos
  OBVIOUS
<1> HIDE DEF ka, kb
<1>4. Wins(1) <=> ka[1] < kb[1]
  OBVIOUS
<1>5. Wins(2) <=> ka[1] = kb[1] /\ ka[2] < kb[2]
  <2>1. \A j \in 1 .. 2 - 1 : j = 1
    OBVIOUS
  <2> QED
    BY <2>1
<1>6. Wins(3) <=> ka[1] = kb[1] /\ ka[2] = kb[2] /\ ka[3] < kb[3]
  <2>1. \A j \in 1 .. 3 - 1 : j = 1 \/ j = 2
    OBVIOUS
  <2> QED
    BY <2>1
<1>7. Wins(4) <=> ka[1] = kb[1] /\ ka[2] = kb[2] /\ ka[3] = kb[3] /\ ka[4] < kb[4]
  <2>1. \A j \in 1 .. 4 - 1 : j = 1 \/ j = 2 \/ j = 3
    OBVIOUS
  <2> QED
    BY <2>1
<1>8. Wins(5) <=> /\ ka[1] = kb[1] /\ ka[2] = kb[2] /\ ka[3] = kb[3] /\ ka[4] = kb[4]
                  /\ ka[5] < kb[5]
  <2>1. \A j \in 1 .. 5 - 1 : j = 1 \/ j = 2 \/ j = 3 \/ j = 4
    OBVIOUS
  <2> QED
    BY <2>1
<1> HIDE DEF Wins
<1>9. (\E i \in 1 .. 5 : Wins(i)) <=> Wins(1) \/ Wins(2) \/ Wins(3) \/ Wins(4) \/ Wins(5)
  <2>1. \A i \in 1 .. 5 : i = 1 \/ i = 2 \/ i = 3 \/ i = 4 \/ i = 5
    OBVIOUS
  <2> QED
    BY <2>1
<1> QED
  BY <1>1, <1>2, <1>3, <1>4, <1>5, <1>6, <1>7, <1>8, <1>9

LEMMA SortsBeforeOrders ==
    /\ \A a \in Entries : ~SortsBefore(a, a)
    /\ \A a, b \in Entries : a.pos # b.pos => SortsBefore(a, b) \/ SortsBefore(b, a)
    /\ \A a, b, c \in Entries : SortsBefore(a, b) /\ SortsBefore(b, c) => SortsBefore(a, c)
<1>1. ASSUME NEW a \in Entries PROVE ~SortsBefore(a, a)
  BY SortsBeforeIs, KeysAreIntegers
<1>2. ASSUME NEW a \in Entries, NEW b \in Entries, a.pos # b.pos
      PROVE  SortsBefore(a, b) \/ SortsBefore(b, a)
  BY <1>2, SortsBeforeIs, KeysAreIntegers
<1>3. ASSUME NEW a \in Entries, NEW b \in Entries, NEW c \in Entries,
             SortsBefore(a, b), SortsBefore(b, c)
      PROVE  SortsBefore(a, c)
  <2>1. /\ a.addr \in Int /\ b.addr \in Int /\ c.addr \in Int
        /\ Weak(a) \in Int /\ Weak(b) \in Int /\ Weak(c) \in Int
        /\ Provided(a) \in Int /\ Provided(b) \in Int /\ Provided(c) \in Int
        /\ Underscores(a) \in Int /\ Underscores(b) \in Int /\ Underscores(c) \in Int
        /\ a.pos \in Int /\ b.pos \in Int /\ c.pos \in Int
    BY KeysAreIntegers
  <2> QED
    BY <1>3, <2>1, SortsBeforeIs
<1> QED
  BY <1>1, <1>2, <1>3

\* The rank of an entry among those of S.
Below(S, s) == {t \in S : SortsBefore(t, s)}
Rank(S) == [s \in S |-> Cardinality(Below(S, s))]

\* Different lines of the map.
Distinct(S) == S \in SUBSET Entries /\ IsFiniteSet(S) /\ \A a, b \in S : a # b => a.pos # b.pos

LEMMA RankGrows ==
    ASSUME NEW S, Distinct(S)
    PROVE  /\ \A s \in S : /\ IsFiniteSet(Below(S, s)) /\ Cardinality(Below(S, s)) \in Nat
                           /\ Cardinality(Below(S, s)) < Cardinality(S)
           /\ \A s, t \in S : SortsBefore(s, t) =>
                Cardinality(Below(S, s)) < Cardinality(Below(S, t))
<1> DEFINE n == Cardinality(S)
<1>1. n \in Nat /\ S \in SUBSET Entries /\ IsFiniteSet(S)
  BY FS_CardinalityType DEF Distinct
<1>3. ASSUME NEW s \in S
      PROVE  /\ IsFiniteSet(Below(S, s)) /\ Cardinality(Below(S, s)) \in Nat
             /\ Cardinality(Below(S, s)) < n
  <2>1. Below(S, s) \in SUBSET S /\ s \notin Below(S, s)
    BY <1>1, SortsBeforeOrders DEF Below
  <2>2. /\ IsFiniteSet(Below(S, s)) /\ Cardinality(Below(S, s)) <= n
        /\ Cardinality(Below(S, s)) # n
    BY <1>1, <2>1, FS_Subset
  <2> QED
    BY <1>1, <2>2, FS_CardinalityType
<1>4. ASSUME NEW s \in S, NEW t \in S, SortsBefore(s, t)
      PROVE  Cardinality(Below(S, s)) < Cardinality(Below(S, t))
  <2>1. Below(S, s) \in SUBSET Below(S, t)
    BY <1>1, <1>4, SortsBeforeOrders DEF Below
  <2>2. s \in Below(S, t) /\ s \notin Below(S, s)
    BY <1>1, <1>4, SortsBeforeOrders DEF Below
  <2>3. /\ Cardinality(Below(S, s)) <= Cardinality(Below(S, t))
        /\ Cardinality(Below(S, s)) # Cardinality(Below(S, t))
    BY <1>3, <2>1, <2>2, FS_Subset
  <2> QED
    BY <1>3, <2>3
<1> QED
  BY <1>3, <1>4

LEMMA RankIsPlace ==
    ASSUME NEW S, Distinct(S)
    PROVE  \A i \in 1 .. Cardinality(S) : \E s \in S : Rank(S)[s] = i - 1
<1> DEFINE n == Cardinality(S)
           T == 0 .. n - 1
           r == Rank(S)
<1>1. /\ n \in Nat /\ S \in SUBSET Entries /\ IsFiniteSet(S)
      /\ \A a, b \in S : a # b => a.pos # b.pos
  BY FS_CardinalityType DEF Distinct
<1>2. /\ IsFiniteSet(T) /\ Cardinality(T) = n
  BY <1>1, FS_Interval
<1>3. /\ \A s \in S : Cardinality(Below(S, s)) \in Nat /\ Cardinality(Below(S, s)) < n
      /\ \A s, t \in S : SortsBefore(s, t) => Cardinality(Below(S, s)) < Cardinality(Below(S, t))
  BY RankGrows
<1>4. r \in [S -> T] /\ \A s \in S : r[s] = Cardinality(Below(S, s))
  BY <1>1, <1>3 DEF Rank
<1>5. \A s, t \in S : r[s] = r[t] => s = t
  <2> SUFFICES ASSUME NEW s \in S, NEW t \in S, s # t PROVE r[s] # r[t]
    OBVIOUS
  <2>1. SortsBefore(s, t) \/ SortsBefore(t, s)
    BY <1>1, SortsBeforeOrders
  <2> QED
    BY <1>3, <1>4, <2>1
<1> HIDE DEF r, T, n
<1>6. r \in Injection(S, T)
  BY <1>4, <1>5, Fun_IsInj
<1>7. r \in Surjection(S, T)
  BY <1>1, <1>2, <1>6, FS_Injection DEF n
<1>8. \A i \in T : \E s \in S : r[s] = i
  BY <1>7, Fun_SurjectionProperties
<1>9. \A i \in 1 .. n : i - 1 \in T
  BY <1>1 DEF T
<1> QED
  BY <1>8, <1>9 DEF n, r

\* A list in the order of compare_symbols that holds each entry of S.
Ordered(L, S) ==
    /\ L \in Seq(S) /\ \A s \in S : \E i \in 1 .. Len(L) : L[i] = s
    /\ \A i, j \in 1 .. Len(L) : i < j => SortsBefore(L[i], L[j])

LEMMA SortedRanks ==
    ASSUME NEW S, Distinct(S)
    PROVE  /\ Cardinality(S) \in Nat
           /\ Sorted(S) \in Seq(S) /\ Len(Sorted(S)) = Cardinality(S)
           /\ \A i \in 1 .. Cardinality(S) :
                Sorted(S)[i] \in S /\ Cardinality(Below(S, Sorted(S)[i])) = i - 1
           /\ \A s, t \in S : s # t => Cardinality(Below(S, s)) # Cardinality(Below(S, t))
<1> DEFINE n == Cardinality(S)
           rank(s) == Cardinality(Below(S, s))
           L == Sorted(S)
<1>1. /\ n \in Nat /\ S \in SUBSET Entries /\ IsFiniteSet(S)
      /\ \A a, b \in S : a # b => a.pos # b.pos
  BY FS_CardinalityType DEF Distinct
<1>2. /\ \A s \in S : rank(s) \in Nat /\ rank(s) < n
      /\ \A s, t \in S : SortsBefore(s, t) => rank(s) < rank(t)
  BY RankGrows
<1>3. \A i \in 1 .. n : \E s \in S : rank(s) = i - 1
  BY RankIsPlace DEF Rank
<1>4. L = [i \in 1 .. n |-> CHOOSE s \in S : rank(s) = i - 1]
  BY DEF Sorted, Below
<1> HIDE DEF n, rank, L
<1>5. L \in [1 .. n -> S] /\ \A i \in 1 .. n : rank(L[i]) = i - 1
  BY <1>3, <1>4
<1>6. L \in Seq(S) /\ Len(L) = n
  BY <1>1, <1>5
<1>7. ASSUME NEW s \in S, NEW t \in S, s # t PROVE rank(s) # rank(t)
  <2>1. SortsBefore(s, t) \/ SortsBefore(t, s)
    BY <1>1, <1>7, SortsBeforeOrders
  <2> QED
    BY <1>2, <2>1
<1> QED
  BY <1>1, <1>5, <1>6, <1>7 DEF n, rank, L

LEMMA SortedOrder ==
    ASSUME NEW S, Distinct(S)
    PROVE  Ordered(Sorted(S), S)
<1> DEFINE n == Cardinality(S)
           rank(s) == Cardinality(Below(S, s))
           L == Sorted(S)
<1>1. /\ n \in Nat /\ S \in SUBSET Entries /\ IsFiniteSet(S)
      /\ \A a, b \in S : a # b => a.pos # b.pos
  BY FS_CardinalityType DEF Distinct
<1>2. /\ \A s \in S : rank(s) \in Nat /\ rank(s) < n
      /\ \A s, t \in S : SortsBefore(s, t) => rank(s) < rank(t)
  BY RankGrows
<1>5. /\ L \in Seq(S) /\ Len(L) = n
      /\ \A i \in 1 .. n : L[i] \in S /\ rank(L[i]) = i - 1
      /\ \A s, t \in S : s # t => rank(s) # rank(t)
  BY SortedRanks
<1> HIDE DEF n, rank, L
<1>6. L \in Seq(S) /\ Len(L) = n
  BY <1>5
<1>7. ASSUME NEW s \in S, NEW t \in S, s # t PROVE rank(s) # rank(t)
  BY <1>5, <1>7
<1>8. ASSUME NEW s \in S PROVE \E i \in 1 .. Len(L) : L[i] = s
  <2> DEFINE i == rank(s) + 1
  <2>1. rank(s) \in Nat /\ rank(s) < n
    BY <1>2
  <2>2. i \in 1 .. n /\ i - 1 = rank(s)
    BY <1>1, <2>1
  <2> HIDE DEF i
  <2>3. L[i] \in S /\ rank(L[i]) = rank(s)
    BY <1>5, <2>2
  <2>4. L[i] = s
    BY <1>7, <2>3
  <2> QED
    BY <1>6, <2>2, <2>4
<1>9. ASSUME NEW i \in 1 .. Len(L), NEW j \in 1 .. Len(L), i < j
      PROVE  SortsBefore(L[i], L[j])
  <2>1. L[i] \in S /\ L[j] \in S /\ rank(L[i]) = i - 1 /\ rank(L[j]) = j - 1
    BY <1>5, <1>6
  <2>2. rank(L[i]) < rank(L[j])
    BY <1>9, <2>1
  <2>3. L[i] # L[j]
    BY <1>2, <2>1, <2>2
  <2>4. SortsBefore(L[i], L[j]) \/ SortsBefore(L[j], L[i])
    BY <1>1, <2>1, <2>3, SortsBeforeOrders
  <2> QED
    BY <1>2, <2>1, <2>2, <2>4
<1>10. Ordered(L, S)
  BY <1>6, <1>8, <1>9 DEF Ordered
<1> QED
  BY <1>10 DEF L

\* A line of the map that is listed, and its entry.
Known(m) == {l \in ToSet(m) : Readable(l) /\ Valid(m, l)}
EntryOf(s, l) == s.addr = l.addr /\ s.sym = <<l.type>> \o l.name
InOrder(L, m) ==
    /\ L \in Seq(Entries)
    /\ \A i, j \in 1 .. Len(L) : i < j =>
         L[i].addr <= L[j].addr /\ (L[i].addr = L[j].addr => Weak(L[i]) <= Weak(L[j]))
    /\ \A i \in 1 .. Len(L) : \E l \in Known(m) : EntryOf(L[i], l)
    /\ \A l \in Known(m) : \E i \in 1 .. Len(L) : EntryOf(L[i], l)

\* The lines that become entries, and the entries.
Kept(m) == {j \in 1 .. Len(m) : Readable(m[j]) /\ Valid(m, m[j])}
EntryOfLine(m, j) == [addr |-> m[j].addr, pos |-> j, sym |-> <<m[j].type>> \o m[j].name]
Chosen(m) == {EntryOfLine(m, j) : j \in Kept(m)}

LEMMA ListIsSorted ==
    \A m : SymbolList(m) = Sorted(Chosen(m))
BY DEF SymbolList, Chosen, Kept, EntryOfLine

LEMMA ChosenDistinct ==
    ASSUME NEW two \in Maps, NEW k \in 1 .. 2
    PROVE  /\ Distinct(Chosen(two[k]))
           /\ two[k] \in Seq([addr : 0 .. AddrSpace - 1, type : Characters, name : Seq(Characters)])
           /\ Len(two[k]) \in Nat /\ DOMAIN two[k] = 1 .. Len(two[k])
           /\ \A j \in 1 .. Len(two[k]) :
                two[k][j] \in [addr : 0 .. AddrSpace - 1, type : Characters, name : Seq(Characters)]
           /\ \A j \in Kept(two[k]) :
                /\ EntryOfLine(two[k], j) \in Entries /\ EntryOfLine(two[k], j).pos = j
                /\ EntryOf(EntryOfLine(two[k], j), two[k][j])
<1> DEFINE m == two[k]
           Lines == [addr : 0 .. AddrSpace - 1, type : Characters, name : Seq(Characters)]
           kept == Kept(m)
           entry == [j \in kept |-> EntryOfLine(m, j)]
           S == {entry[j] : j \in kept}
<1>1. m \in Seq(Lines)
  BY MapsAssumption, Zenon
<1>2. Len(m) \in Nat /\ DOMAIN m = 1 .. Len(m) /\ \A j \in 1 .. Len(m) : m[j] \in Lines
  BY <1>1, LenProperties, ElementOfSeq
<1>3. Chosen(m) = S
  BY DEF Chosen
<1> HIDE DEF m
<1>4. ASSUME NEW j \in kept
      PROVE  /\ EntryOfLine(m, j) \in Entries /\ EntryOfLine(m, j).pos = j
             /\ EntryOf(EntryOfLine(m, j), m[j])
  <2>0. j \in 1 .. Len(m)
    BY DEF Kept
  <2>1. m[j].addr \in Int /\ m[j].type \in Characters /\ m[j].name \in Seq(Characters)
    BY <1>2, <2>0
  <2>2. <<m[j].type>> \o m[j].name \in Seq(Characters)
    <3>1. <<m[j].type>> \in Seq(Characters)
      BY <2>1
    <3> QED
      BY <2>1, <3>1, ConcatProperties, Zenon
  <2>3. j \in Nat
    BY <1>2, <2>0
  <2> QED
    BY <2>1, <2>2, <2>3 DEF Entries, EntryOf, EntryOfLine
<1>5. IsFiniteSet(kept)
  <2>1. IsFiniteSet(1 .. Len(m)) /\ kept \in SUBSET (1 .. Len(m))
    BY <1>2, FS_Interval DEF Kept
  <2> QED
    BY <2>1, FS_Subset
<1>6. \A j \in kept : entry[j] = EntryOfLine(m, j)
  OBVIOUS
<1> HIDE DEF kept
<1>8. entry \in [kept -> S] /\ \A s \in S : \E j \in kept : entry[j] = s
  OBVIOUS
<1> HIDE DEF entry
<1>10. IsFiniteSet(S) /\ S \in SUBSET Entries
  <2>1. entry \in Surjection(kept, S)
    BY <1>8, Fun_IsSurj
  <2> QED
    BY <1>4, <1>5, <1>6, <2>1, FS_Surjection
<1>11. \A a, b \in S : a # b => a.pos # b.pos
  BY <1>4, <1>6
<1> HIDE DEF S
<1>12. Distinct(Chosen(m))
  BY <1>3, <1>10, <1>11 DEF Distinct
<1> QED
  BY <1>1, <1>2, <1>4, <1>12 DEF m, kept

LEMMA KeptEntries ==
    ASSUME NEW two \in Maps, NEW k \in 1 .. 2, NEW j \in Kept(two[k])
    PROVE  EntryOfLine(two[k], j) \in Entries /\ EntryOfLine(two[k], j).pos = j
BY ChosenDistinct

LEMMA SymbolListOrder ==
    ASSUME NEW two \in Maps, NEW k \in 1 .. 2
    PROVE  InOrder(SymbolList(two[k]), two[k])
<1> DEFINE m == two[k]
           kept == Kept(m)
           entry == [j \in kept |-> EntryOfLine(m, j)]
           S == Chosen(m)
           L == Sorted(S)
<1>1. Distinct(S) /\ DOMAIN m = 1 .. Len(m)
  BY ChosenDistinct, Zenon
<1>2. \A j \in kept : EntryOf(entry[j], m[j])
  BY ChosenDistinct
<1>3. SymbolList(m) = L
  BY ListIsSorted, Zenon
<1> HIDE DEF m
<1>4. \A j \in kept : EntryOf(entry[j], m[j])
  BY <1>2
<1>6. \A j \in kept : m[j] \in Known(m)
  BY <1>1 DEF Known, ToSet, Kept
<1>7. \A l \in Known(m) : \E j \in kept : m[j] = l
  BY <1>1 DEF Known, ToSet, Kept
<1>8. \A s \in S : \E j \in kept : entry[j] = s
  BY DEF Chosen
<1>9. \A j \in kept : entry[j] \in S
  BY DEF Chosen
<1>10. S \in SUBSET Entries
  BY <1>1 DEF Distinct
<1> HIDE DEF entry, kept, S
<1>12. Ordered(L, S)
  BY <1>1, SortedOrder
<1> HIDE DEF L
<1>13. L \in Seq(S) /\ L \in Seq(Entries) /\ \A i \in 1 .. Len(L) : L[i] \in S /\ L[i] \in Entries
  <2>1. L \in Seq(S)
    BY <1>12 DEF Ordered
  <2> QED
    BY <1>10, <2>1, SeqMonotonic, ElementOfSeq
<1>14. ASSUME NEW i \in 1 .. Len(L), NEW j \in 1 .. Len(L), i < j
       PROVE  L[i].addr <= L[j].addr /\ (L[i].addr = L[j].addr => Weak(L[i]) <= Weak(L[j]))
  <2>1. SortsBefore(L[i], L[j])
    BY <1>12, <1>14 DEF Ordered
  <2> DEFINE a == L[i]
             b == L[j]
  <2>2. a \in Entries /\ b \in Entries /\ SortsBefore(a, b)
    BY <1>13, <2>1
  <2> HIDE DEF a, b
  <2>3. a.addr \in Int /\ b.addr \in Int /\ Weak(a) \in Int /\ Weak(b) \in Int
    BY <2>2, KeysAreIntegers
  <2>4. a.addr <= b.addr /\ (a.addr = b.addr => Weak(a) <= Weak(b))
    <3>1. a.addr < b.addr \/ (a.addr = b.addr /\ (Weak(a) < Weak(b) \/ Weak(a) = Weak(b)))
      BY <2>2, SortsBeforeIs
    <3> QED
      BY <2>3, <3>1
  <2> QED
    BY <2>4 DEF a, b
<1>15. ASSUME NEW i \in 1 .. Len(L) PROVE \E l \in Known(m) : EntryOf(L[i], l)
  <2>1. PICK j \in kept : entry[j] = L[i]
    BY <1>8, <1>13
  <2> QED
    BY <1>4, <1>6, <2>1
<1>16. ASSUME NEW l \in Known(m) PROVE \E i \in 1 .. Len(L) : EntryOf(L[i], l)
  <2>1. PICK j \in kept : m[j] = l
    BY <1>7
  <2>2. PICK i \in 1 .. Len(L) : L[i] = entry[j]
    BY <1>9, <1>12 DEF Ordered
  <2> QED
    BY <1>4, <2>1, <2>2
<1>17. InOrder(L, m)
  BY <1>13, <1>14, <1>15, <1>16 DEF InOrder
<1> QED
  BY <1>3, <1>17 DEF m

\* What read_map leaves in table[] for a map of the build.
LEMMA SymbolListIsTable ==
    ASSUME NEW two \in Maps, NEW k \in 1 .. 2
    PROVE  SymbolList(two[k]) \in Seq(Entries)
BY SymbolListOrder DEF InOrder

-----------------------------------------------------------------------------
(* The invariant.                                                          *)

\* Two meanings of the codes of a text spell it alike.
LEMMA SpellsAgree ==
    ASSUME NEW h, NEW g, NEW C, NEW D, Spells(C, h, Texts), Spells(D, g, Texts),
           NEW s \in Texts, \A k \in 1 .. Len(s) : h[s[k]] = g[s[k]]
    PROVE  C[s] = D[s]
<1> DEFINE Alikes(t) == \A k \in 1 .. Len(t) : h[t[k]] = g[t[k]]
           Bad == {n \in Nat : \E t \in Texts : Len(t) = n /\ Alikes(t) /\ C[t] # D[t]}
<1>1. ASSUME Bad # {} PROVE FALSE
  <2>1. PICK n \in Bad : \A l \in Bad : n <= l
    BY <1>1, LeastNat
  <2>2. PICK t \in Texts : Len(t) = n /\ Alikes(t) /\ C[t] # D[t]
    BY <2>1
  <2>3. t # <<>>
    BY <2>2 DEF Spells, Follows
  <2>4. /\ Tail(t) \in Texts /\ Len(t) \in Nat /\ Len(t) > 0 /\ Len(Tail(t)) = n - 1
        /\ Head(t) = t[1]
    BY <2>2, <2>3, TailShort, HeadIsFirst
  <2>5. \A i \in 1 .. Len(Tail(t)) : Tail(t)[i] = t[i + 1]
    BY <2>3, HeadTailProperties, Zenon DEF Texts
  <2>6. h[Head(t)] = g[Head(t)]
    BY <2>2, <2>4
  <2>7. Alikes(Tail(t))
    <3> TAKE k \in 1 .. Len(Tail(t))
    <3>1. k + 1 \in 1 .. Len(t)
      BY <2>2, <2>4
    <3> QED
      BY <2>2, <2>5, <3>1
  <2>8. n - 1 \in Nat /\ ~(n <= n - 1)
    BY <2>2, <2>4
  <2>9. n - 1 \notin Bad
    BY <2>1, <2>8
  <2> HIDE DEF Alikes
  <2>10. C[Tail(t)] = D[Tail(t)]
    BY <2>4, <2>7, <2>8, <2>9
  <2> QED
    BY <2>2, <2>3, <2>6, <2>10 DEF Spells, Follows
<1> QED
  BY <1>1, TextConcat

\* Codes that stand for themselves leave a text as it is.
LEMMA SpellsSelf ==
    ASSUME NEW h, NEW C, Spells(C, h, Texts),
           NEW s \in Texts, \A k \in 1 .. Len(s) : h[s[k]] = <<s[k]>>
    PROVE  C[s] = s
<1> DEFINE g == [c \in Codes |-> <<c>>]
           D == [t \in Texts |-> t]
<1>1. ASSUME NEW t \in Texts, t # <<>> PROVE D[t] = g[Head(t)] \o D[Tail(t)]
  <2>1. /\ Head(t) \in Codes /\ Tail(t) \in Texts /\ Head(t) = t[1]
        /\ Len(t) \in Nat /\ Len(t) >= 1 /\ 1 \in 1 .. Len(t)
    BY <1>1, TailShort, HeadIsFirst
  <2>2. SubSeq(t, 1, Len(t)) = SubSeq(t, 1, 1) \o SubSeq(t, 1 + 1, Len(t))
    <3> DEFINE one == 1
               n == Len(t)
    <3>1. /\ one \in Nat /\ one >= 1 /\ one \in Int /\ n \in Int /\ one - 1 <= one
          /\ one <= n /\ n <= Len(t)
      BY <2>1
    <3> HIDE DEF one, n
    <3>2. SubSeq(t, one, n) = SubSeq(t, one, one) \o SubSeq(t, one + 1, n)
      BY <3>1, SplitText
    <3> QED
      BY <3>2, Zenon DEF one, n
  <2>3. SubSeq(t, 1, Len(t)) = t
    BY SubSeqFull, Zenon DEF Texts
  <2>4. SubSeq(t, 1, 1) = <<t[1]>>
    BY <2>1, OneOfText
  <2>5. SubSeq(t, 1 + 1, Len(t)) = Tail(t)
    BY DEF Texts
  <2> QED
    BY <2>1, <2>2, <2>3, <2>4, <2>5
<1>2. Spells(D, g, Texts)
  BY <1>1, EmptyText DEF Spells, Follows
<1>3. \A k \in 1 .. Len(s) : h[s[k]] = g[s[k]]
  <2> TAKE k \in 1 .. Len(s)
  <2>1. s[k] \in Codes
    BY ElementOfSeq DEF Texts
  <2> QED
    BY <2>1
<1> HIDE DEF D, g
<1>4. C[s] = D[s]
  BY <1>2, <1>3, SpellsAgree
<1> QED
  BY <1>4 DEF D

\* Every character in use has a meaning, and every token that can be placed
\* is made of such.
Used(t, tab) == \A i \in DOMAIN t : \A k \in 1 .. Len(t[i].sym) : tab[t[i].sym[k]] # <<>>
Paying(p, tab) == \A x \in Pairs : p[x] # 0 => tab[x[1]] # <<>> /\ tab[x[2]] # <<>>

\* e is what the codes stand for: each symbol still stands for itself, and
\* tokens have been made from the last code downward to slot.
Meaning(tab, t, l, free, e) ==
    /\ Grounded(tab, e)
    /\ \A c \in Codes : c <= free => tab[c] = <<>> \/ tab[c] = <<c>>
    /\ \A C : Spells(C, e, Texts) => \A i \in DOMAIN t : C[t[i].sym] = l[i].sym

Packed == [addr : Int, pos : Nat, sym : Texts]
Compressing ==
    /\ slot \in Int /\ slot < NrCodes
    /\ table \in Seq(Packed) /\ DOMAIN listed = DOMAIN table
    /\ best \in [Codes -> Texts] /\ profit \in [Pairs -> Int]
    /\ Used(table, best) /\ Paying(profit, best)
    /\ slot >= 0 => best[NUL] = <<>>
    /\ \E e \in [Codes -> Texts] : Meaning(best, table, listed, slot, e)
KallsymsIInv ==
    /\ maps \in Maps /\ pass \in 1 .. 2
    /\ pc \in {"optimize", "write", "ready", "search"} => Compressing

\* Tokens only replace what they stand for, so that each symbol expands to itself.
LEMMA CompressingSurvives ==
    ASSUME Compressing
    PROVE  \A i \in DOMAIN table : Expand(best, table[i].sym) = listed[i].sym
<1>1. PICK e \in [Codes -> Texts] : Meaning(best, table, listed, slot, e)
  BY DEF Compressing
<1>2. PICK C : Spells(C, e, Texts)
  BY SpellsExists
<1> TAKE i \in DOMAIN table
<1>3. table[i].sym \in Texts
  <2>1. table[i] \in Packed
    BY DEF Compressing
  <2> QED
    BY <2>1 DEF Packed
<1>4. best \in [Codes -> Texts] /\ Grounded(best, e)
  BY <1>1 DEF Compressing, Meaning
<1>5. Expand(best, table[i].sym) = C[table[i].sym]
  BY <1>2, <1>3, <1>4, ExpandSpells
<1>6. C[table[i].sym] = listed[i].sym
  BY <1>1, <1>2 DEF Meaning
<1> QED
  BY <1>5, <1>6

LEMMA Prints == \A s \in Seq(Characters) : /\ s \in Texts
                                           /\ \A k \in 1 .. Len(s) : s[k] \in Codes /\ s[k] # NUL
<1> TAKE s \in Seq(Characters)
<1>1. Characters \in SUBSET Codes /\ NUL \notin Characters
  BY DEF Characters
<1>2. \A k \in 1 .. Len(s) : s[k] \in Characters
  BY ElementOfSeq
<1> QED
  BY <1>1, <1>2 DEF Texts

\* The first table: every character stands for itself.
LEMMA ReadMapStarts ==
    ASSUME maps \in Maps, pass \in 1 .. 2, ReadMap
    PROVE  Compressing'
<1>1. table' \in Seq(Entries) /\ listed' = table' /\ best' = RealCodes(table')
      /\ profit' = CountIn(table') /\ slot' = NrCodes - 1
  BY SymbolListIsTable DEF ReadMap
<1> DEFINE t == table'
<1>2. Len(t) \in Nat /\ DOMAIN t = 1 .. Len(t)
  BY <1>1, LenProperties
<1> HIDE DEF t
<1>3. ASSUME NEW i \in DOMAIN t
      PROVE  /\ t[i].addr \in Int /\ t[i].pos \in Nat /\ t[i].sym \in Texts /\ t[i] \in Packed
             /\ \A k \in 1 .. Len(t[i].sym) : t[i].sym[k] \in Codes /\ t[i].sym[k] # NUL
  <2>1. t[i] \in Entries
    BY <1>1, <1>2, ElementOfSeq DEF t
  <2>2. t[i].sym \in Seq(Characters)
    BY <2>1 DEF Entries
  <2>3. /\ t[i].sym \in Texts
        /\ \A k \in 1 .. Len(t[i].sym) : t[i].sym[k] \in Codes /\ t[i].sym[k] # NUL
    BY <2>2, Prints
  <2> QED
    BY <2>1, <2>3 DEF Entries, Packed
<1>4. t \in Seq(Packed)
  BY <1>1, <1>2, <1>3 DEF t
<1> DEFINE h == RealCodes(t)
<1>5. h \in [Codes -> Texts] /\ \A c \in Codes : h[c] = <<>> \/ h[c] = <<c>>
  BY DEF RealCodes, Texts
<1>6. ASSUME NEW i \in DOMAIN t, NEW k \in 1 .. Len(t[i].sym)
      PROVE  h[t[i].sym[k]] = <<t[i].sym[k]>>
  <2>1. t[i].sym[k] \in ToSet(t[i].sym)
    BY <1>3, LenProperties DEF ToSet, Texts
  <2> QED
    BY <1>3, <2>1 DEF RealCodes
<1>7. h[NUL] = <<>>
  <2>1. NUL \in Codes
    BY SizeAssumption DEF NUL, Codes
  <2>2. ASSUME NEW i \in DOMAIN t, NUL \in ToSet(t[i].sym) PROVE FALSE
    <3>1. PICK k \in 1 .. Len(t[i].sym) : NUL = t[i].sym[k]
      BY <1>3, <2>2, LenProperties DEF ToSet, Texts
    <3> QED
      BY <1>3, <3>1
  <2> QED
    BY <2>1, <2>2 DEF RealCodes
<1> HIDE DEF h
<1>8. Used(t, h)
  <2>1. \A c : <<c>> # <<>>
    OBVIOUS
  <2> QED
    BY <1>6, <2>1 DEF Used
<1>9. CountIn(t) \in [Pairs -> Int] /\ Paying(CountIn(t), h)
  <2> DEFINE g(p) == [i \in DOMAIN t |-> Occurrences(t[i].sym, p)]
  <2>1. ASSUME NEW p \in Pairs
        PROVE  /\ Total(g(p), Len(t)) \in Int
               /\ Total(g(p), Len(t)) # 0 => \E i \in 1 .. Len(t) : g(p)[i] # 0
    <3>1. \A i \in 1 .. Len(t) : g(p)[i] \in Int
      BY <1>2, <1>3, OccurrencesNat
    <3> HIDE DEF g
    <3> QED
      BY <1>2, <3>1, TotalIsSum
  <2>2. \A p \in Pairs : CountIn(t)[p] = Total(g(p), Len(t))
    BY DEF CountIn
  <2>3. CountIn(t) \in [Pairs -> Int]
    <3>1. CountIn(t) = [p \in Pairs |-> Total(g(p), Len(t))]
      BY DEF CountIn
    <3> HIDE DEF g
    <3> QED
      BY <2>1, <3>1
  <2>4. ASSUME NEW p \in Pairs, CountIn(t)[p] # 0 PROVE h[p[1]] # <<>> /\ h[p[2]] # <<>>
    <3>1. PICK i \in 1 .. Len(t) : g(p)[i] # 0
      <4> HIDE DEF g
      <4> QED
        BY <2>1, <2>2, <2>4
    <3>2. Occurrences(t[i].sym, p) # 0 /\ i \in DOMAIN t
      BY <1>2, <3>1
    <3>3. PICK k \in 1 .. Len(t[i].sym) - 1 : p = <<t[i].sym[k], t[i].sym[k + 1]>>
      BY <1>3, <3>2, OccurrencesNat
    <3>4. Len(t[i].sym) \in Nat
      BY <1>3, <3>2, TextConcat
    <3>5. k \in 1 .. Len(t[i].sym) /\ k + 1 \in 1 .. Len(t[i].sym)
      BY <3>4
    <3>6. h[t[i].sym[k]] # <<>> /\ h[t[i].sym[k + 1]] # <<>>
      BY <1>8, <3>2, <3>5 DEF Used
    <3> QED
      BY <3>3, <3>6
  <2> QED
    BY <2>3, <2>4 DEF Paying
<1>10. Meaning(h, t, t, NrCodes - 1, h)
  <2>1. Grounded(h, h)
    BY <1>5, Zenon DEF Grounded
  <2>2. ASSUME NEW C, Spells(C, h, Texts), NEW i \in DOMAIN t PROVE C[t[i].sym] = t[i].sym
    <3> DEFINE s == t[i].sym
    <3>1. s \in Texts /\ \A k \in 1 .. Len(s) : h[s[k]] = <<s[k]>>
      BY <1>3, <1>6
    <3> HIDE DEF s
    <3>2. C[s] = s
      BY <2>2, <3>1, SpellsSelf
    <3> QED
      BY <3>2 DEF s
  <2> QED
    BY <1>5, <2>1, <2>2 DEF Meaning
<1>11. NrCodes - 1 \in Int /\ NrCodes - 1 < NrCodes
  BY SizeAssumption
<1> QED
  BY <1>1, <1>4, <1>5, <1>7, <1>8, <1>9, <1>10, <1>11 DEF Compressing, t, h

\* Pairs of neighbours of a text whose codes are all in use.
LEMMA NeighboursInUse ==
    ASSUME NEW tab, NEW s \in Texts, \A k \in 1 .. Len(s) : tab[s[k]] # <<>>,
           NEW p \in Pairs, Occurrences(s, p) # 0
    PROVE  tab[p[1]] # <<>> /\ tab[p[2]] # <<>>
<1>1. PICK k \in 1 .. Len(s) - 1 : p = <<s[k], s[k + 1]>>
  BY OccurrencesNat
<1>2. Len(s) \in Nat
  BY TextConcat
<1>3. k \in 1 .. Len(s) /\ k + 1 \in 1 .. Len(s)
  BY <1>2
<1>4. tab[s[k]] # <<>> /\ tab[s[k + 1]] # <<>>
  BY <1>3
<1>5. p[1] = s[k] /\ p[2] = s[k + 1]
  BY <1>1
<1> QED
  BY <1>4, <1>5

LEMMA PlaceTokenKeeps ==
    ASSUME Compressing, PlaceToken
    PROVE  Compressing'
<1> DEFINE token == FindBestToken(profit)
           a == token[1]
           b == token[2]
           t == table
           tab == [best EXCEPT ![slot] = token]
           new == [i \in DOMAIN t |-> [t[i] EXCEPT !.sym = CompressSym(@, token, slot)]]
           delta(p) == [i \in DOMAIN t |->
                          IF Occurrences(t[i].sym, token) = 0 THEN 0
                          ELSE Occurrences(new[i].sym, p) - Occurrences(t[i].sym, p)]
<1>1. /\ slot >= 0 /\ best[slot] = <<>> /\ profit[token] # 0
      /\ best' = tab /\ table' = new /\ listed' = listed /\ slot' = slot - 1
      /\ profit' = [p \in Pairs |-> profit[p] + Total(delta(p), Len(t))]
  BY DEF PlaceToken
<1>2. /\ slot \in Int /\ slot < NrCodes /\ best \in [Codes -> Texts]
      /\ profit \in [Pairs -> Int] /\ best[NUL] = <<>> /\ DOMAIN listed = DOMAIN t
      /\ Used(t, best) /\ Paying(profit, best) /\ t \in Seq(Packed)
  BY <1>1 DEF Compressing
<1>3. slot \in Codes /\ NUL \in Codes
  BY <1>1, <1>2, SizeAssumption DEF Codes, NUL
<1>4. token \in Pairs
  BY <1>2, BestTokenIsPair
<1> HIDE DEF token
<1>5. /\ a \in Codes /\ b \in Codes /\ token = <<a, b>>
      /\ best[a] # <<>> /\ best[b] # <<>>
      /\ a # slot /\ b # slot /\ a \in Characters /\ b \in Characters
  <2>1. a \in Codes /\ b \in Codes /\ token = <<a, b>>
    BY <1>4 DEF Pairs
  <2>2. best[a] # <<>> /\ best[b] # <<>>
    BY <1>1, <1>2, <1>4 DEF Paying
  <2> QED
    BY <1>1, <1>2, <2>1, <2>2 DEF Characters
<1> HIDE DEF a, b
<1>6. Len(t) \in Nat /\ DOMAIN t = 1 .. Len(t)
  BY <1>2, LenProperties
<1>7. ASSUME NEW i \in DOMAIN t
      PROVE  /\ t[i] \in Packed /\ t[i].addr \in Int /\ t[i].pos \in Nat /\ t[i].sym \in Texts
             /\ \A k \in 1 .. Len(t[i].sym) :
                  t[i].sym[k] \in Codes /\ best[t[i].sym[k]] # <<>> /\ t[i].sym[k] # slot
  <2>1. t[i] \in Packed
    BY <1>2, <1>6, ElementOfSeq
  <2>2. t[i].sym \in Texts
    BY <2>1 DEF Packed
  <2>3. \A k \in 1 .. Len(t[i].sym) : t[i].sym[k] \in Codes
    BY <2>2, ElementOfSeq DEF Texts
  <2>4. \A k \in 1 .. Len(t[i].sym) : best[t[i].sym[k]] # <<>>
    BY <1>2 DEF Used
  <2> QED
    BY <1>1, <2>1, <2>2, <2>3, <2>4 DEF Packed
<1>8. PICK e \in [Codes -> Texts] : Meaning(best, t, listed, slot, e)
  BY DEF Compressing
<1> DEFINE h == [e EXCEPT ![slot] = e[a] \o e[b]]
<1>9. /\ h \in [Codes -> Texts] /\ h[slot] = h[a] \o h[b]
      /\ \A c \in Codes : c # slot => h[c] = e[c]
  <2>1. e[a] \o e[b] \in Texts
    BY <1>5, <1>8, TextConcat
  <2> QED
    BY <1>3, <1>5, <2>1
<1>10. /\ tab \in [Codes -> Texts] /\ tab[slot] = <<a, b>>
       /\ \A c \in Codes : c # slot => tab[c] = best[c]
  <2>1. <<a, b>> \in Texts /\ token \in Texts
    BY <1>5 DEF Texts
  <2> QED
    BY <1>2, <1>3, <1>5, <2>1
<1>11. \A c \in Codes : best[c] # <<>> => tab[c] # <<>>
  <2>1. <<a, b>> # <<>>
    OBVIOUS
  <2> QED
    BY <1>10, <2>1
<1> HIDE DEF h, tab
<1>12. ASSUME NEW i \in DOMAIN t
       PROVE  /\ new[i] = [t[i] EXCEPT !.sym = CompressSym(@, token, slot)]
              /\ new[i].sym = CompressSym(t[i].sym, <<a, b>>, slot)
              /\ new[i].sym \in Texts /\ new[i] \in Packed
              /\ \A k \in 1 .. Len(new[i].sym) : tab[new[i].sym[k]] # <<>>
              /\ \A C : Spells(C, h, Texts) => C[new[i].sym] = C[t[i].sym]
  <2> DEFINE s == t[i].sym
             x == CompressSym(s, <<a, b>>, slot)
  <2>1. new[i] = [t[i] EXCEPT !.sym = CompressSym(@, token, slot)]
    OBVIOUS
  <2>2. t[i] \in Packed /\ s \in Texts
    BY <1>7
  <2>3. new[i].sym = x
    BY <1>5, <2>1, <2>2 DEF Packed
  <2> HIDE DEF s
  <2>4. ASSUME NEW C, Spells(C, h, Texts)
        PROVE  /\ x \in Texts /\ C[x] = C[s]
               /\ \A k \in 1 .. Len(x) : x[k] \in ToSet(s) \cup {slot}
    BY <1>3, <1>5, <1>9, <2>2, <2>4, Compressed
  <2>5. PICK D : Spells(D, h, Texts)
    BY <1>9, SpellsExists
  <2>6. x \in Texts /\ \A k \in 1 .. Len(x) : x[k] \in ToSet(s) \cup {slot}
    BY <2>4, <2>5
  <2> HIDE DEF x
  <2>7. \A c \in ToSet(s) : c \in Codes /\ best[c] # <<>>
    <3> TAKE c \in ToSet(s)
    <3>1. PICK k \in 1 .. Len(s) : c = s[k]
      BY <2>2, LenProperties DEF ToSet, Texts
    <3> QED
      BY <1>7, <3>1 DEF s
  <2>8. \A k \in 1 .. Len(x) : tab[x[k]] # <<>>
    <3> TAKE k \in 1 .. Len(x)
    <3>1. CASE x[k] = slot
      <4>1. <<a, b>> # <<>>
        OBVIOUS
      <4> QED
        BY <1>10, <3>1, <4>1
    <3>2. CASE x[k] \in ToSet(s)
      BY <1>11, <2>7, <3>2
    <3> QED
      BY <2>6, <3>1, <3>2
  <2>9. new[i] \in Packed
    BY <2>1, <2>2, <2>3, <2>6 DEF Packed
  <2> HIDE DEF new
  <2> QED
    BY <1>5, <2>1, <2>3, <2>4, <2>6, <2>8, <2>9 DEF x, s
<1>13. new \in Seq(Packed) /\ DOMAIN new = DOMAIN t
  <2>1. DOMAIN new = DOMAIN t
    OBVIOUS
  <2>2. new \in [1 .. Len(t) -> Packed]
    <3>1. \A i \in 1 .. Len(t) : new[i] \in Packed
      BY <1>6, <1>12
    <3>2. new = [i \in 1 .. Len(t) |-> new[i]]
      BY <1>6
    <3> HIDE DEF new
    <3> QED
      BY <3>1, <3>2
  <2> HIDE DEF new
  <2> QED
    BY <1>6, <2>1, <2>2
<1>14. Used(new, tab)
  <2> HIDE DEF new
  <2> QED
    BY <1>12, <1>13 DEF Used
<1>15. ASSUME NEW p \in Pairs
       PROVE  /\ Total(delta(p), Len(t)) \in Int
              /\ Total(delta(p), Len(t)) # 0 => tab[p[1]] # <<>> /\ tab[p[2]] # <<>>
  <2>1. ASSUME NEW i \in DOMAIN t
        PROVE  /\ delta(p)[i] \in Int
               /\ delta(p)[i] # 0 => \/ Occurrences(new[i].sym, p) # 0
                                     \/ Occurrences(t[i].sym, p) # 0
    <3>1. Occurrences(new[i].sym, p) \in Nat /\ Occurrences(t[i].sym, p) \in Nat
      BY <1>7, <1>12, OccurrencesNat
    <3>2. delta(p)[i] = IF Occurrences(t[i].sym, token) = 0 THEN 0
                        ELSE Occurrences(new[i].sym, p) - Occurrences(t[i].sym, p)
      OBVIOUS
    <3> HIDE DEF delta, new
    <3> QED
      BY <3>1, <3>2
  <2> HIDE DEF delta, new
  <2>2. /\ Total(delta(p), Len(t)) \in Int
        /\ Total(delta(p), Len(t)) # 0 => \E i \in 1 .. Len(t) : delta(p)[i] # 0
    <3> DEFINE g == delta(p)
               n == Len(t)
    <3>1. n \in Nat /\ \A i \in 1 .. n : g[i] \in Int
      BY <1>6, <2>1
    <3> HIDE DEF g, n
    <3>2. Total(g, n) \in Int /\ (Total(g, n) # 0 => \E i \in 1 .. n : g[i] # 0)
      BY <3>1, TotalIsSum
    <3> QED
      BY <3>2 DEF g, n
  <2>3. ASSUME NEW i \in DOMAIN t, Occurrences(new[i].sym, p) # 0
        PROVE  tab[p[1]] # <<>> /\ tab[p[2]] # <<>>
    BY <1>12, <2>3, NeighboursInUse
  <2>4. ASSUME NEW i \in DOMAIN t, Occurrences(t[i].sym, p) # 0
        PROVE  tab[p[1]] # <<>> /\ tab[p[2]] # <<>>
    <3>1. best[p[1]] # <<>> /\ best[p[2]] # <<>>
      BY <1>7, <2>4, NeighboursInUse
    <3>2. p[1] \in Codes /\ p[2] \in Codes
      BY DEF Pairs
    <3> QED
      BY <1>11, <3>1, <3>2
  <2> QED
    BY <1>6, <2>1, <2>2, <2>3, <2>4
<1>16. profit' \in [Pairs -> Int] /\ Paying(profit', tab)
  <2> HIDE DEF delta
  <2>1. \A p \in Pairs : profit[p] \in Int /\ profit'[p] = profit[p] + Total(delta(p), Len(t))
    BY <1>1, <1>2
  <2>2. profit' \in [Pairs -> Int]
    BY <1>1, <1>15, <2>1
  <2>3. ASSUME NEW p \in Pairs, profit'[p] # 0 PROVE tab[p[1]] # <<>> /\ tab[p[2]] # <<>>
    <3>1. CASE profit[p] # 0
      <4>1. best[p[1]] # <<>> /\ best[p[2]] # <<>> /\ p[1] \in Codes /\ p[2] \in Codes
        BY <1>2, <3>1 DEF Paying, Pairs
      <4> QED
        BY <1>11, <4>1
    <3>2. CASE profit[p] = 0
      <4>1. Total(delta(p), Len(t)) # 0
        BY <1>15, <2>1, <2>3, <3>2
      <4> QED
        BY <1>15, <4>1
    <3> QED
      BY <3>1, <3>2
  <2> QED
    BY <2>2, <2>3 DEF Paying
<1>17. slot - 1 >= 0 => tab[NUL] = <<>>
  BY <1>2, <1>3, <1>10 DEF NUL
<1>18. Grounded(tab, h)
  <2> SUFFICES ASSUME NEW c \in Codes
      PROVE  \/ tab[c] = <<>> /\ h[c] = <<>>
             \/ tab[c] = <<c>> /\ h[c] = <<c>>
             \/ \E x, y \in Codes : /\ tab[c] = <<x, y>> /\ h[c] = h[x] \o h[y]
                                   /\ \A d \in {x, y} : tab[d] = <<d>> \/ d > c
    BY Zenon DEF Grounded
  <2>0. \A d \in Codes : d <= slot => best[d] = <<>> \/ best[d] = <<d>>
    BY <1>8, Zenon DEF Meaning
  <2>1. CASE c = slot
    <3>1. ASSUME NEW d \in {a, b} PROVE tab[d] = <<d>> \/ d > slot
      <4>1. d \in Codes /\ d # slot /\ best[d] # <<>> /\ d \in Int
        BY <1>5 DEF Codes
      <4> QED
        BY <1>2, <1>10, <2>0, <4>1
    <3> QED
      BY <1>5, <1>9, <1>10, <2>1, <3>1
  <2>2. CASE c # slot
    <3>1. tab[c] = best[c] /\ h[c] = e[c]
      BY <1>9, <1>10, <2>2
    <3>2. \/ best[c] = <<>> /\ e[c] = <<>>
          \/ best[c] = <<c>> /\ e[c] = <<c>>
          \/ \E x, y \in Codes : /\ best[c] = <<x, y>> /\ e[c] = e[x] \o e[y]
                                /\ \A d \in {x, y} : best[d] = <<d>> \/ d > c
      BY <1>8, Zenon DEF Meaning, Grounded
    <3>3. ASSUME NEW x \in Codes, NEW y \in Codes, best[c] = <<x, y>>, e[c] = e[x] \o e[y],
                 \A d \in {x, y} : best[d] = <<d>> \/ d > c
          PROVE  /\ tab[c] = <<x, y>> /\ h[c] = h[x] \o h[y]
                 /\ \A d \in {x, y} : tab[d] = <<d>> \/ d > c
      <4>1. c > slot
        <5>1. <<x, y>> # <<>> /\ <<x, y>> # <<c>>
          OBVIOUS
        <5>2. ~(c <= slot)
          BY <2>0, <3>3, <5>1
        <5> QED
          BY <1>2, <5>2 DEF Codes
      <4>2. ASSUME NEW d \in {x, y} PROVE d # slot /\ d \in Codes
        <5>1. d \in Codes
          OBVIOUS
        <5>2. CASE best[d] = <<d>>
          <6>1. <<d>> # <<>>
            OBVIOUS
          <6> QED
            BY <1>1, <5>1, <5>2, <6>1
        <5>3. CASE d > c
          BY <1>2, <4>1, <5>1, <5>3 DEF Codes
        <5> QED
          BY <3>3, <5>2, <5>3
      <4> QED
        BY <1>9, <1>10, <3>1, <3>3, <4>2
    <3>4. CASE best[c] = <<>> /\ e[c] = <<>>
      BY <3>1, <3>4
    <3>5. CASE best[c] = <<c>> /\ e[c] = <<c>>
      BY <3>1, <3>5
    <3>6. CASE \E x, y \in Codes : /\ best[c] = <<x, y>> /\ e[c] = e[x] \o e[y]
                                    /\ \A d \in {x, y} : best[d] = <<d>> \/ d > c
      <4>1. PICK x \in Codes, y \in Codes :
              /\ best[c] = <<x, y>> /\ e[c] = e[x] \o e[y]
              /\ \A d \in {x, y} : best[d] = <<d>> \/ d > c
        BY <3>6
      <4>2. /\ tab[c] = <<x, y>> /\ h[c] = h[x] \o h[y]
            /\ \A d \in {x, y} : tab[d] = <<d>> \/ d > c
        BY <3>3, <4>1, Zenon
      <4> QED
        BY <4>2, Zenon
    <3> QED
      BY <3>2, <3>4, <3>5, <3>6
  <2> QED
    BY <2>1, <2>2
<1>19. Meaning(tab, new, listed, slot - 1, h)
  <2>1. ASSUME NEW c \in Codes, c <= slot - 1 PROVE tab[c] = <<>> \/ tab[c] = <<c>>
    <3>1. c <= slot /\ c # slot
      BY <1>2, <2>1 DEF Codes
    <3> QED
      BY <1>8, <1>10, <3>1 DEF Meaning
  <2>2. ASSUME NEW C, Spells(C, h, Texts), NEW i \in DOMAIN new
        PROVE  C[new[i].sym] = listed[i].sym
    <3>1. PICK D : Spells(D, e, Texts)
      BY <1>8, SpellsExists
    <3>2. i \in DOMAIN t
      BY <1>13
    <3>3. D[t[i].sym] = listed[i].sym
      BY <1>8, <3>1, <3>2 DEF Meaning
    <3>4. C[t[i].sym] = D[t[i].sym]
      <4> DEFINE s == t[i].sym
      <4>1. s \in Texts /\ \A k \in 1 .. Len(s) : h[s[k]] = e[s[k]]
        BY <1>7, <1>9, <3>2
      <4> HIDE DEF s
      <4>2. C[s] = D[s]
        BY <2>2, <3>1, <4>1, SpellsAgree
      <4> QED
        BY <4>2 DEF s
    <3>5. C[new[i].sym] = C[t[i].sym]
      <4> HIDE DEF new
      <4> QED
        BY <1>12, <2>2, <3>2
    <3> QED
      BY <3>3, <3>4, <3>5
  <2> HIDE DEF new
  <2> QED
    BY <1>18, <2>1, <2>2 DEF Meaning
<1> HIDE DEF new, delta
<1>20. slot - 1 \in Int /\ slot - 1 < NrCodes
  BY <1>2, SizeAssumption
<1> QED
  BY <1>1, <1>2, <1>9, <1>10, <1>13, <1>14, <1>16, <1>17, <1>19, <1>20 DEF Compressing

-----------------------------------------------------------------------------
\* Init and the actions keep the invariant.
LEMMA KallsymsInit == Init => KallsymsIInv
BY DEF Init, KallsymsIInv

LEMMA KallsymsStep ==
    ASSUME KallsymsIInv, [Next]_vars
    PROVE  KallsymsIInv'
<1> DEFINE Listing == pc \in {"optimize", "write", "ready", "search"}
           table_vars == <<listed, table, best, profit, slot>>
<1>1. maps \in Maps /\ pass \in 1 .. 2 /\ (Listing => Compressing)
  BY DEF KallsymsIInv
<1>2. CASE UNCHANGED <<maps, pass, pc, listed, table, best, profit, slot>>
  BY <1>1, <1>2 DEF KallsymsIInv, Compressing
<1>3. CASE ReadMap
  <2>1. Compressing'
    BY <1>1, <1>3, ReadMapStarts
  <2> QED
    BY <1>1, <1>3, <2>1 DEF KallsymsIInv, ReadMap
<1>4. CASE SlotTaken
  <2>1. /\ Compressing /\ slot >= 0 /\ slot' = slot - 1 /\ best[slot] # <<>>
        /\ UNCHANGED <<maps, pass, pc, listed, table, best, profit>>
    BY <1>1, <1>4 DEF SlotTaken
  <2>2. PICK e \in [Codes -> Texts] : Meaning(best, table, listed, slot, e)
    BY <2>1 DEF Compressing
  <2>3. Meaning(best, table, listed, slot - 1, e)
    <3>1. \A c \in Codes : c <= slot - 1 => c <= slot
      BY <2>1 DEF Compressing, Codes
    <3> QED
      BY <2>2, <3>1 DEF Meaning
  <2>4. Compressing'
    <3>1. slot \in Int /\ slot < NrCodes /\ NrCodes \in Int /\ (slot >= 0 => best[NUL] = <<>>)
      BY <2>1, SizeAssumption DEF Compressing
    <3>2. slot - 1 \in Int /\ slot - 1 < NrCodes /\ (slot - 1 >= 0 => best[NUL] = <<>>)
      BY <3>1
    <3> QED
      BY <2>1, <2>2, <2>3, <3>2 DEF Compressing
  <2> QED
    BY <1>1, <2>1, <2>4 DEF KallsymsIInv
<1>5. CASE PlaceToken
  <2>1. Compressing'
    BY <1>1, <1>5, PlaceTokenKeeps DEF PlaceToken
  <2> QED
    BY <1>1, <1>5, <2>1 DEF KallsymsIInv, PlaceToken
<1>6. ASSUME UNCHANGED <<maps, listed, table, best, profit, slot>>, pass' \in 1 .. 2,
             Listing \/ pc' \notin {"optimize", "write", "ready", "search"}
      PROVE  KallsymsIInv'
  BY <1>1, <1>6 DEF KallsymsIInv, Compressing
<1>7. CASE OptimizeEnd
  BY <1>1, <1>6, <1>7 DEF OptimizeEnd
<1>8. CASE WriteSrc
  BY <1>1, <1>6, <1>8 DEF WriteSrc
<1>9. ASSUME NEW x \in 0 .. AddrSpace - 1, Lookup(x) PROVE KallsymsIInv'
  BY <1>1, <1>6, <1>9 DEF Lookup
<1>10. CASE SearchStep
  BY <1>1, <1>6, <1>10 DEF SearchStep
<1>11. CASE Found
  BY <1>1, <1>6, <1>11 DEF Found
<1> QED
  BY <1>2, <1>3, <1>4, <1>5, <1>7, <1>8, <1>9, <1>10, <1>11 DEF Next, vars

\* The inductive invariant: what the codes stand for, and that each symbol of
\* the table still stands for itself (build_initial_tok_table, optimize_result).
THEOREM KallsymsInvariant == Spec => []KallsymsIInv
<1>1. KallsymsIInv /\ [Next]_vars => KallsymsIInv'
  BY KallsymsStep
<1> QED
  BY <1>1, KallsymsInit, PTL DEF Spec

\* No name is lost by the compression, whatever the maps, the codes and the
\* tokens: in every state of the build tool each symbol of its table, tokens
\* of tokens included, expands to what was read.
THEOREM NamesSurviveCompression == Spec => []NamesSurvive
<1>1. KallsymsIInv => NamesSurvive
  BY CompressingSurvives DEF KallsymsIInv, NamesSurvive
<1> QED
  BY <1>1, KallsymsInvariant, PTL

-----------------------------------------------------------------------------
(* write_src lays the strings of the tables out one behind the other.      *)

\* A sum, term by term.
LEMMA TotalNext ==
    ASSUME NEW n \in Nat, NEW g, NEW h, \A i \in 1 .. n : g[i] = h[i]
    PROVE  Total(g, 0) = 0 /\ Total(h, n + 1) = Total(g, n) + h[n + 1]
<1> DEFINE f(x, k) == CHOOSE t : IsTotal(t, x, k)
<1>1. ASSUME NEW x, NEW k \in Nat
      PROVE  /\ Total(x, k) = f(x, k)[k]
             /\ \A i \in 0 .. k : f(x, k)[i] = IF i = 0 THEN 0 ELSE f(x, k)[i - 1] + x[i]
  <2>1. IsTotal(f(x, k), x, k)
    BY TotalsExist
  <2>2. Total(x, k) = f(x, k)[k]
    BY DEF Total, IsTotal
  <2> HIDE DEF f
  <2> QED
    BY <2>1, <2>2, Zenon DEF IsTotal
<1> HIDE DEF f
<1>2. Total(g, 0) = 0
  BY <1>1
<1> DEFINE p == f(g, n)
           q == f(h, n + 1)
           Bad == {i \in 0 .. n : p[i] # q[i]}
<1>3. /\ \A i \in 0 .. n : p[i] = IF i = 0 THEN 0 ELSE p[i - 1] + g[i]
      /\ \A i \in 0 .. n + 1 : q[i] = IF i = 0 THEN 0 ELSE q[i - 1] + h[i]
      /\ Total(g, n) = p[n] /\ Total(h, n + 1) = q[n + 1]
  BY <1>1
<1> HIDE DEF p, q
<1>4. ASSUME Bad # {} PROVE FALSE
  <2>1. PICK i \in Bad : \A l \in Bad : i <= l
    <3>1. Bad \in SUBSET Nat
      OBVIOUS
    <3> HIDE DEF Bad
    <3> QED
      BY <1>4, <3>1, LeastNat
  <2>2. i # 0
    BY <1>3, <2>1
  <2>3. i - 1 \in 0 .. n /\ ~(i <= i - 1) /\ i \in 1 .. n /\ i \in 0 .. n /\ i \in 0 .. n + 1
    BY <2>1, <2>2
  <2>4. p[i - 1] = q[i - 1]
    BY <2>1, <2>3
  <2>5. p[i] = p[i - 1] + g[i] /\ q[i] = q[i - 1] + h[i]
    BY <1>3, <2>2, <2>3
  <2> QED
    BY <2>1, <2>3, <2>4, <2>5
<1>5. p[n] = q[n] /\ q[n + 1] = q[n] + h[n + 1]
  <2>1. n \in 0 .. n /\ n + 1 \in 0 .. n + 1 /\ n + 1 # 0 /\ (n + 1) - 1 = n
    OBVIOUS
  <2> QED
    BY <1>3, <1>4, <2>1
<1> QED
  BY <1>2, <1>3, <1>5

\* The sequences of F, concatenated one after the other.
IsFlat(f, F, n) == f = [i \in 1 .. n |-> IF i = 1 THEN F[i] ELSE f[i - 1] \o F[i]]

LEMMA FlatsExist ==
    ASSUME NEW F, NEW n \in Nat
    PROVE  \E f : IsFlat(f, F, n)
<1> DEFINE Bad == {k \in Nat : ~ \E f : IsFlat(f, F, k)}
<1> SUFFICES ASSUME Bad # {} PROVE FALSE
  OBVIOUS
<1>1. PICK m \in Bad : \A k \in Bad : m <= k
  BY LeastNat
<1>2. CASE m = 0
  <2>1. IsFlat([k \in 1 .. 0 |-> F], F, 0)
    BY DEF IsFlat
  <2> QED
    BY <1>2, <2>1
<1>3. CASE m # 0
  <2>1. PICK f : IsFlat(f, F, m - 1)
    BY <1>1, <1>3
  <2> DEFINE last == IF m = 1 THEN F[m] ELSE f[m - 1] \o F[m]
             new == [k \in 1 .. m |-> IF k = m THEN last ELSE f[k]]
  <2>2. \A k \in 1 .. m - 1 : f[k] = IF k = 1 THEN F[k] ELSE f[k - 1] \o F[k]
    BY <2>1, Zenon DEF IsFlat
  <2>3. ASSUME NEW k \in 1 .. m
        PROVE new[k] = IF k = 1 THEN F[k] ELSE new[k - 1] \o F[k]
    <3>1. CASE k = m /\ k = 1
      BY <3>1
    <3>2. CASE k = m /\ k # 1
      <4>1. k - 1 \in 1 .. m /\ k - 1 # m
        BY <3>2
      <4>2. new[k - 1] = f[k - 1]
        BY <4>1
      <4>3. new[k] = f[k - 1] \o F[k]
        BY <3>2
      <4> QED
        BY <3>2, <4>2, <4>3
    <3>3. CASE k # m /\ k = 1
      <4>1. k \in 1 .. m - 1
        BY <1>3, <3>3
      <4> QED
        BY <2>2, <3>3, <4>1
    <3>4. CASE k # m /\ k # 1
      <4>1. k \in 1 .. m - 1 /\ k - 1 \in 1 .. m /\ k - 1 # m
        BY <1>3, <3>4
      <4>2. new[k - 1] = f[k - 1] /\ new[k] = f[k]
        BY <3>4, <4>1
      <4> QED
        BY <2>2, <3>4, <4>1, <4>2
    <3> QED
      BY <3>1, <3>2, <3>3, <3>4
  <2>4. new = [k \in 1 .. m |-> IF k = 1 THEN F[k] ELSE new[k - 1] \o F[k]]
    BY <2>3, Zenon
  <2>5. IsFlat(new, F, m)
    <3> HIDE DEF new
    <3> QED
      BY <2>4, Zenon DEF IsFlat
  <2> QED
    BY <1>1, <2>5
<1> QED
  BY <1>2, <1>3

Listed(F, X, n) == n \in Nat /\ n >= 1 /\ F \in [1 .. n -> Seq(X)]
Flattens(f, X, F, n) ==
    /\ f \in [1 .. n -> Seq(X)] /\ FlattenSeq(F) = f[n] /\ f[1] = F[1]
    /\ \A i \in 2 .. n : f[i] = f[i - 1] \o F[i]

LEMMA FlattenIs ==
    ASSUME NEW X, NEW n, NEW F, Listed(F, X, n)
    PROVE  \E f : Flattens(f, X, F, n)
<1> DEFINE f == CHOOSE g : IsFlat(g, F, Len(F))
<1> /\ n \in Nat /\ n >= 1 /\ F \in [1 .. n -> Seq(X)]
  BY DEF Listed
<1>1. Len(F) = n /\ Len(F) # 0
  OBVIOUS
<1>2. FlattenSeq(F) = f[n]
  <2>1. FlattenSeq(F) = f[Len(F)]
    BY <1>1, Zenon DEF FlattenSeq, IsFlat
  <2> HIDE DEF f
  <2> QED
    BY <1>1, <2>1
<1>3. IsFlat(f, F, n)
  <2>1. \E g : IsFlat(g, F, Len(F))
    BY <1>1, FlatsExist
  <2>2. IsFlat(f, F, Len(F))
    BY <2>1, Zenon
  <2> HIDE DEF f
  <2> QED
    BY <1>1, <2>2
<1> HIDE DEF f
<1>4. DOMAIN f = 1 .. n /\ \A i \in 1 .. n : f[i] = IF i = 1 THEN F[i] ELSE f[i - 1] \o F[i]
  BY <1>3, Zenon DEF IsFlat
<1> DEFINE Bad == {i \in 1 .. n : f[i] \notin Seq(X)}
<1>5. ASSUME Bad # {} PROVE FALSE
  <2>1. PICK i \in Bad : \A l \in Bad : i <= l
    <3>1. Bad \in SUBSET Nat
      OBVIOUS
    <3> HIDE DEF Bad
    <3> QED
      BY <1>5, <3>1, LeastNat
  <2>2. i # 1
    BY <1>4, <2>1
  <2>3. i - 1 \in 1 .. n /\ ~(i <= i - 1) /\ i \in 1 .. n
    BY <2>1, <2>2
  <2>4. f[i - 1] \in Seq(X) /\ F[i] \in Seq(X)
    BY <2>1, <2>3
  <2>5. f[i] = f[i - 1] \o F[i]
    BY <1>4, <2>2, <2>3
  <2>6. f[i] \in Seq(X)
    BY <2>4, <2>5, ConcatProperties
  <2> QED
    BY <2>1, <2>6
<1>6. f \in [1 .. n -> Seq(X)]
  <2>1. f = [i \in 1 .. n |-> f[i]]
    BY <1>3, Zenon DEF IsFlat
  <2> QED
    BY <1>5, <2>1
<1>7. f[1] = F[1] /\ \A i \in 2 .. n : f[i] = f[i - 1] \o F[i]
  <2>1. 1 \in 1 .. n /\ \A i \in 2 .. n : i \in 1 .. n /\ i # 1
    OBVIOUS
  <2> QED
    BY <1>4, <2>1, Zenon
<1> QED
  BY <1>2, <1>6, <1>7 DEF Flattens

\* Where each sequence lies in the concatenation.
Starts(s, F, n) ==
    s \in [0 .. n -> Nat] /\ s[0] = 0 /\ \A i \in 1 .. n : s[i] = s[i - 1] + Len(F[i])
LiesAt(flat, s, F, i) ==
    /\ s[i - 1] + Len(F[i]) <= Len(flat)
    /\ \A k \in 1 .. Len(F[i]) : flat[s[i - 1] + k] = F[i][k]

LEMMA Flattened ==
    ASSUME NEW X, NEW n, NEW F, Listed(F, X, n), NEW s, Starts(s, F, n)
    PROVE  /\ FlattenSeq(F) \in Seq(X) /\ Len(FlattenSeq(F)) = s[n]
           /\ \A i \in 1 .. n : LiesAt(FlattenSeq(F), s, F, i)
<1>0. n \in Nat /\ n >= 1 /\ F \in [1 .. n -> Seq(X)]
  BY DEF Listed
<1>1. PICK f : /\ f \in [1 .. n -> Seq(X)] /\ FlattenSeq(F) = f[n] /\ f[1] = F[1]
              /\ \A i \in 2 .. n : f[i] = f[i - 1] \o F[i]
  <2>1. PICK f : Flattens(f, X, F, n)
    BY FlattenIs, Zenon
  <2> QED
    BY <2>1, Zenon DEF Flattens
<1> USE <1>0
<1>2. /\ s \in [0 .. n -> Nat] /\ s[0] = 0 /\ \A i \in 1 .. n : s[i] = s[i - 1] + Len(F[i])
      /\ \A i \in 1 .. n : /\ Len(F[i]) \in Nat /\ Len(f[i]) \in Nat
                          /\ s[i] \in Nat /\ s[i - 1] \in Nat
  <2>1. s \in [0 .. n -> Nat] /\ s[0] = 0 /\ \A i \in 1 .. n : s[i] = s[i - 1] + Len(F[i])
    BY Zenon DEF Starts
  <2>2. \A i \in 1 .. n : i \in 0 .. n /\ i - 1 \in 0 .. n
    OBVIOUS
  <2>3. ASSUME NEW i \in 1 .. n PROVE Len(F[i]) \in Nat /\ Len(f[i]) \in Nat
    BY LenProperties
  <2> QED
    BY <2>1, <2>2, <2>3
<1> DEFINE Good(m) == Len(f[m]) = s[m] /\ \A i \in 1 .. m : LiesAt(f[m], s, F, i)
           Bad == {m \in 1 .. n : ~Good(m)}
<1>3. ASSUME Bad # {} PROVE FALSE
  <2>1. PICK m \in Bad : \A l \in Bad : m <= l
    <3>1. Bad \in SUBSET Nat
      OBVIOUS
    <3> HIDE DEF Bad
    <3> QED
      BY <1>3, <3>1, LeastNat
  <2>2. CASE m = 1
    <3>1. s[1] = s[0] + Len(F[1]) /\ s[0] = 0 /\ Len(F[1]) \in Nat /\ 1 - 1 = 0
      BY <1>2
    <3>2. Len(f[1]) = s[1] /\ f[1] = F[1]
      BY <1>1, <3>1
    <3>3. \A k \in 1 .. Len(F[1]) : 0 + k = k
      BY <3>1
    <3>4. LiesAt(f[1], s, F, 1)
      BY <3>1, <3>2, <3>3 DEF LiesAt
    <3>5. \A i \in 1 .. 1 : i = 1
      OBVIOUS
    <3> QED
      BY <2>1, <2>2, <3>2, <3>4, <3>5
  <2>3. CASE m # 1
    <3>1. m - 1 \in 1 .. n /\ ~(m <= m - 1) /\ m \in 2 .. n /\ m \in 1 .. n
      BY <2>1, <2>3
    <3>2. Good(m - 1)
      BY <2>1, <3>1
    <3> DEFINE a == f[m - 1]
               b == F[m]
    <3>3. a \in Seq(X) /\ b \in Seq(X) /\ f[m] = a \o b /\ Len(a) = s[m - 1]
          /\ Len(a) \in Nat /\ Len(b) \in Nat
      BY <1>1, <1>2, <3>1, <3>2
    <3>4. /\ Len(f[m]) = Len(a) + Len(b)
          /\ \A j \in 1 .. Len(a) + Len(b) : f[m][j] = IF j <= Len(a) THEN a[j] ELSE b[j - Len(a)]
      <4> HIDE DEF a, b
      <4>1. /\ Len(a \o b) = Len(a) + Len(b)
            /\ \A j \in 1 .. Len(a) + Len(b) :
                 (a \o b)[j] = IF j <= Len(a) THEN a[j] ELSE b[j - Len(a)]
        BY <3>3, ConcatProperties, Zenon
      <4> QED
        BY <3>3, <4>1, Zenon
    <3>5. Len(f[m]) = s[m]
      BY <1>2, <3>1, <3>3, <3>4
    <3>6. LiesAt(f[m], s, F, m)
      <4>1. s[m - 1] + Len(b) <= Len(f[m])
        BY <3>3, <3>4
      <4> HIDE DEF a
      <4>2. ASSUME NEW k \in 1 .. Len(b) PROVE f[m][s[m - 1] + k] = b[k]
        <5>1. /\ Len(a) + k \in 1 .. Len(a) + Len(b) /\ ~(Len(a) + k <= Len(a))
              /\ (Len(a) + k) - Len(a) = k
          <6> DEFINE z == Len(a)
                     w == Len(b)
          <6>1. z \in Nat /\ w \in Nat /\ k \in 1 .. w
            BY <3>3
          <6> HIDE DEF z, w
          <6>2. z + k \in 1 .. z + w /\ ~(z + k <= z) /\ (z + k) - z = k
            BY <6>1
          <6> QED
            BY <6>2 DEF z, w
        <5>2. f[m][Len(a) + k] = b[k]
          BY <3>4, <5>1
        <5> QED
          BY <3>3, <5>2
      <4> QED
        BY <4>1, <4>2 DEF LiesAt
    <3>7. ASSUME NEW i \in 1 .. m - 1 PROVE LiesAt(f[m], s, F, i)
      <4>1. LiesAt(a, s, F, i)
        BY <3>2
      <4> HIDE DEF a, b
      <4>2. /\ i \in 1 .. n /\ s[i - 1] \in Nat /\ Len(F[i]) \in Nat
            /\ s[i - 1] + Len(F[i]) <= Len(a)
        <5>1. i \in 1 .. n
          BY <3>1
        <5> QED
          BY <1>2, <4>1, <5>1 DEF LiesAt
      <4>3. s[i - 1] + Len(F[i]) <= Len(f[m])
        <5> DEFINE x == s[i - 1] + Len(F[i])
                   y == Len(f[m])
                   z == Len(a)
        <5>1. x \in Int /\ z \in Int /\ x <= z /\ Len(b) \in Nat /\ y = z + Len(b)
          BY <3>3, <3>4, <4>2
        <5> HIDE DEF x, y, z
        <5>2. x <= y
          BY <5>1
        <5> QED
          BY <5>2 DEF x, y
      <4>4. ASSUME NEW k \in 1 .. Len(F[i]) PROVE f[m][s[i - 1] + k] = F[i][k]
        <5>1. s[i - 1] + k \in 1 .. Len(a) + Len(b) /\ s[i - 1] + k <= Len(a)
          <6> DEFINE x == s[i - 1]
                     y == Len(F[i])
                     z == Len(a)
                     w == Len(b)
          <6>1. x \in Nat /\ y \in Nat /\ z \in Nat /\ w \in Nat /\ x + y <= z
            BY <3>3, <4>2
          <6>2. k \in 1 .. y
            OBVIOUS
          <6> HIDE DEF x, y, z, w
          <6>3. x + k \in 1 .. z + w /\ x + k <= z
            BY <6>1, <6>2
          <6> QED
            BY <6>3 DEF x, z, w
        <5>2. f[m][s[i - 1] + k] = a[s[i - 1] + k]
          BY <3>4, <5>1
        <5>3. a[s[i - 1] + k] = F[i][k]
          BY <4>1 DEF LiesAt
        <5> QED
          BY <5>2, <5>3
      <4> QED
        BY <4>3, <4>4 DEF LiesAt
    <3>8. \A i \in 1 .. m : i = m \/ i \in 1 .. m - 1
      BY <3>1
    <3> QED
      BY <2>1, <3>5, <3>6, <3>7, <3>8
  <2> QED
    BY <2>2, <2>3
<1>4. Good(n)
  <2>1. n \in 1 .. n
    OBVIOUS
  <2> QED
    BY <1>3, <2>1
<1>5. FlattenSeq(F) \in Seq(X)
  BY <1>1
<1> QED
  BY <1>1, <1>4, <1>5

\* x stands in s behind place a.
Holds(s, a, x) == a \in Nat /\ \A k \in 1 .. Len(x) : s[a + k] = x[k]
PartFrom(s, a, x) == SubSeq(s, a + 1, a + Len(x)) = x

LEMMA PartIs ==
    ASSUME NEW S, NEW s, NEW x \in Seq(S), NEW a, Holds(s, a, x)
    PROVE  PartFrom(s, a, x)
<1> DEFINE m == a + 1
           n == a + Len(x)
           y == SubSeq(s, m, n)
<1>1. a \in Nat /\ Len(x) \in Nat /\ m \in Int /\ n \in Int /\ n - m + 1 = Len(x)
  BY LenProperties DEF Holds
<1>2. \A k \in 1 .. Len(x) : s[a + k] = x[k] /\ x[k] \in S
  BY ElementOfSeq DEF Holds
<1>3. \A i \in m .. n : s[i] \in S
  <2> TAKE i \in m .. n
  <2>1. i - a \in 1 .. Len(x) /\ a + (i - a) = i
    BY <1>1
  <2> QED
    BY <1>2, <2>1
<1>4. /\ y \in Seq(S) /\ Len(y) = IF m <= n THEN n - m + 1 ELSE 0
      /\ \A i \in 1 .. n - m + 1 : y[i] = s[m + i - 1]
  <2> HIDE DEF m, n
  <2> QED
    BY <1>1, <1>3, SubSeqProperties
<1>5. Len(y) = Len(x)
  <2>1. m <= n <=> 1 <= Len(x)
    BY <1>1
  <2> HIDE DEF m, n, y
  <2> QED
    BY <1>1, <1>4, <2>1
<1>6. ASSUME NEW k \in 1 .. Len(y) PROVE y[k] = x[k]
  <2>1. k \in 1 .. Len(x) /\ m + k - 1 = a + k
    BY <1>1, <1>5
  <2> HIDE DEF m, n, y
  <2>2. y[k] = s[a + k]
    BY <1>1, <1>4, <2>1
  <2> QED
    BY <1>2, <2>1, <2>2
<1>7. y = x
  <2> HIDE DEF m, n, y
  <2> QED
    BY <1>4, <1>5, <1>6, SeqEqual
<1> QED
  BY <1>7 DEF PartFrom

\* The sums of the lengths are where each sequence starts.
LengthsUpTo(F, i) == Total([j \in 1 .. i |-> Len(F[j])], i)
LEMMA TotalStarts ==
    ASSUME NEW X, NEW n, NEW F, Listed(F, X, n)
    PROVE  Starts([i \in 0 .. n |-> LengthsUpTo(F, i)], F, n)
<1> n \in Nat /\ n >= 1 /\ F \in [1 .. n -> Seq(X)]
  BY DEF Listed
<1> DEFINE s == [i \in 0 .. n |-> LengthsUpTo(F, i)]
<1>1. ASSUME NEW i \in 0 .. n, i + 1 \in 1 .. n
      PROVE  LengthsUpTo(F, 0) = 0 /\ LengthsUpTo(F, i + 1) = LengthsUpTo(F, i) + Len(F[i + 1])
  <2> DEFINE g == [j \in 1 .. i |-> Len(F[j])]
             h == [j \in 1 .. i + 1 |-> Len(F[j])]
             z == [j \in 1 .. 0 |-> Len(F[j])]
  <2>1. \A j \in 1 .. i : g[j] = h[j]
    OBVIOUS
  <2>2. h[i + 1] = Len(F[i + 1]) /\ i \in Nat
    OBVIOUS
  <2>3. /\ LengthsUpTo(F, i) = Total(g, i) /\ LengthsUpTo(F, i + 1) = Total(h, i + 1)
        /\ LengthsUpTo(F, 0) = Total(z, 0)
    BY Zenon DEF LengthsUpTo
  <2> HIDE DEF g, h, z
  <2>4. Total(h, i + 1) = Total(g, i) + h[i + 1]
    BY <2>1, <2>2, TotalNext
  <2>5. Total(z, 0) = 0
    <3>1. \A j \in 1 .. 0 : z[j] = z[j]
      OBVIOUS
    <3> QED
      BY <3>1, TotalNext
  <2> QED
    BY <2>2, <2>3, <2>4, <2>5
<1>2. s[0] = 0
  <2>1. 0 \in 0 .. n /\ 0 + 1 \in 1 .. n
    OBVIOUS
  <2>2. LengthsUpTo(F, 0) = 0
    BY <1>1, <2>1
  <2> QED
    BY <2>1, <2>2
<1>3. ASSUME NEW i \in 1 .. n PROVE s[i] = s[i - 1] + Len(F[i])
  <2>1. i - 1 \in 0 .. n /\ (i - 1) + 1 = i /\ i \in 0 .. n
    OBVIOUS
  <2>2. LengthsUpTo(F, i) = LengthsUpTo(F, i - 1) + Len(F[i])
    BY <1>1, <2>1
  <2> QED
    BY <2>1, <2>2
<1>4. DOMAIN s = 0 .. n /\ s = [i \in 0 .. n |-> s[i]]
  OBVIOUS
<1> HIDE DEF s
<1> DEFINE Bad == {i \in 0 .. n : s[i] \notin Nat}
<1>5. ASSUME Bad # {} PROVE FALSE
  <2>1. PICK i \in Bad : \A l \in Bad : i <= l
    <3>1. Bad \in SUBSET Nat
      OBVIOUS
    <3> HIDE DEF Bad
    <3> QED
      BY <1>5, <3>1, LeastNat
  <2>2. i \in 1 .. n /\ i - 1 \in 0 .. n /\ ~(i <= i - 1)
    BY <1>2, <2>1
  <2>3. s[i - 1] \in Nat
    BY <2>1, <2>2
  <2>4. Len(F[i]) \in Nat
    BY <2>2, LenProperties
  <2>5. s[i] \in Nat
    BY <1>3, <2>2, <2>3, <2>4
  <2> QED
    BY <2>1, <2>5
<1>6. s \in [0 .. n -> Nat]
  BY <1>4, <1>5
<1>7. Starts(s, F, n)
  BY <1>2, <1>3, <1>6 DEF Starts
<1> QED
  BY <1>7 DEF s

-----------------------------------------------------------------------------
(* The kernel's reading of the tables.                                     *)

\* Entry i + 1 of kallsyms_names begins behind off.
EntryAt(o, t, off, i) ==
    /\ o.names[off + 1] = Len(t[i + 1].sym)
    /\ SubSeq(o.names, off + 2, off + 1 + Len(t[i + 1].sym)) = t[i + 1].sym
NextOffset(t, i) ==
    /\ EntryOffset(t, i) \in Nat
    /\ EntryOffset(t, i + 1) = EntryOffset(t, i) + Len(t[i + 1].sym) + 1

LEMMA EntriesAt ==
    ASSUME NEW t \in Seq(Packed), NEW tab, NEW i \in 0 .. Len(t) - 1
    PROVE  /\ EntryOffset(t, 0) = 0 /\ NextOffset(t, i)
           /\ EntryAt(Generated(t, tab), t, EntryOffset(t, i), i)
<1> DEFINE n == Len(t)
           F == [j \in DOMAIN t |-> <<Len(t[j].sym)>> \o t[j].sym]
           s == [j \in 0 .. n |-> LengthsUpTo(F, j)]
           flat == FlattenSeq(F)
<1>1. /\ n \in Nat /\ n >= 1 /\ DOMAIN t = 1 .. n /\ i + 1 \in 1 .. n
      /\ i \in 0 .. n /\ i + 1 \in 0 .. n /\ 0 \in 0 .. n
  BY LenProperties
<1>2. ASSUME NEW j \in 1 .. n
      PROVE  /\ t[j].sym \in Texts /\ Len(t[j].sym) \in Nat
             /\ F[j] = <<Len(t[j].sym)>> \o t[j].sym
             /\ F[j] \in Seq(Int) /\ Len(F[j]) = Len(t[j].sym) + 1
             /\ F[j][1] = Len(t[j].sym)
             /\ \A k \in 1 .. Len(t[j].sym) : F[j][k + 1] = t[j].sym[k]
  <2>1. t[j] \in Packed
    BY <1>1, ElementOfSeq
  <2>2. t[j].sym \in Texts /\ Len(t[j].sym) \in Nat
    BY <2>1, TextConcat DEF Packed
  <2> DEFINE w == t[j].sym
             v == <<Len(w)>>
  <2>3. F[j] = v \o w
    BY <1>1
  <2>4. w \in Seq(Int) /\ v \in Seq(Int) /\ Len(v) = 1 /\ v[1] = Len(w)
    <3>1. Codes \subseteq Int
      BY SizeAssumption DEF Codes
    <3>2. w \in Seq(Int)
      <4> HIDE DEF w
      <4>1. w \in Seq(Codes)
        BY <2>2, Zenon DEF Texts, w
      <4> QED
        BY <3>1, <4>1, SeqMonotonic
    <3>3. Len(w) \in Int
      BY <2>2
    <3> HIDE DEF w
    <3> QED
      BY <3>2, <3>3
  <2>5. /\ v \o w \in Seq(Int) /\ Len(v \o w) = 1 + Len(w)
        /\ \A k \in 1 .. 1 + Len(w) : (v \o w)[k] = IF k <= 1 THEN v[k] ELSE w[k - 1]
    <3> HIDE DEF v, w
    <3>1. /\ v \o w \in Seq(Int) /\ Len(v \o w) = Len(v) + Len(w)
          /\ \A k \in 1 .. Len(v) + Len(w) :
               (v \o w)[k] = IF k <= Len(v) THEN v[k] ELSE w[k - Len(v)]
      BY <2>4, ConcatProperties, Zenon
    <3>2. Len(v) = 1
      BY <2>4
    <3> QED
      BY <3>1, <3>2
  <2>6. (v \o w)[1] = Len(w)
    <3> HIDE DEF v, w
    <3>1. 1 \in 1 .. 1 + Len(w)
      BY <2>2 DEF w
    <3> QED
      BY <2>4, <2>5, <3>1
  <2>7. ASSUME NEW k \in 1 .. Len(w) PROVE (v \o w)[k + 1] = w[k]
    <3> HIDE DEF v, w
    <3>1. k + 1 \in 1 .. 1 + Len(w) /\ ~(k + 1 <= 1) /\ (k + 1) - 1 = k
      BY <2>2 DEF w
    <3> QED
      BY <2>5, <3>1
  <2> QED
    BY <2>2, <2>3, <2>5, <2>6, <2>7
<1>3. Listed(F, Int, n)
  <2>1. F = [j \in 1 .. n |-> F[j]]
    BY <1>1
  <2> HIDE DEF F
  <2>2. F \in [1 .. n -> Seq(Int)]
    BY <1>2, <2>1
  <2> QED
    BY <1>1, <2>2 DEF Listed
<1>4. Starts(s, F, n)
  <2> HIDE DEF F, n
  <2> QED
    BY <1>3, TotalStarts
<1>5. ASSUME NEW j \in 0 .. n PROVE s[j] = EntryOffset(t, j)
  <2>1. ASSUME NEW k \in 1 .. j PROVE Len(F[k]) = Len(t[k].sym) + 1
    <3>1. k \in 1 .. n
      BY <1>1
    <3> QED
      BY <1>2, <3>1
  <2> HIDE DEF F
  <2>2. [k \in 1 .. j |-> Len(F[k])] = [k \in 1 .. j |-> Len(t[k].sym) + 1]
    BY <2>1
  <2>3. LengthsUpTo(F, j) = EntryOffset(t, j)
    BY <2>2, Zenon DEF LengthsUpTo, EntryOffset
  <2> QED
    BY <2>3
<1>6. flat \in Seq(Int) /\ LiesAt(flat, s, F, i + 1)
  <2> HIDE DEF F, s, n
  <2> QED
    BY <1>1, <1>3, <1>4, Flattened
<1>7. Generated(t, tab).names = flat
  BY DEF Generated
<1> DEFINE off == s[i]
           w == t[i + 1].sym
<1>8. /\ off \in Nat /\ s[0] = 0 /\ s[i + 1] = off + (Len(w) + 1)
      /\ w \in Texts /\ Len(w) \in Nat
  <2> HIDE DEF F, s, n
  <2>1. s \in [0 .. n -> Nat] /\ s[0] = 0 /\ \A j \in 1 .. n : s[j] = s[j - 1] + Len(F[j])
    BY <1>4 DEF Starts
  <2>2. (i + 1) - 1 = i /\ Len(F[i + 1]) = Len(w) + 1 /\ w \in Texts /\ Len(w) \in Nat
    <3>1. \A j \in 1 .. n : Len(F[j]) = Len(t[j].sym) + 1 /\ t[j].sym \in Texts
                           /\ Len(t[j].sym) \in Nat
      BY <1>2
    <3> QED
      BY <1>1, <3>1
  <2> QED
    BY <1>1, <2>1, <2>2
<1>9. /\ flat[off + 1] = Len(w)
      /\ \A k \in 1 .. Len(w) : flat[(off + 1) + k] = w[k]
  <2> HIDE DEF F, s, n, flat
  <2>1. \A k \in 1 .. Len(F[i + 1]) : flat[s[i] + k] = F[i + 1][k]
    <3>1. (i + 1) - 1 = i
      BY <1>1
    <3> QED
      BY <1>6, <3>1 DEF LiesAt
  <2>2. Len(F[i + 1]) = Len(w) + 1 /\ F[i + 1][1] = Len(w)
        /\ \A k \in 1 .. Len(w) : F[i + 1][k + 1] = w[k]
    BY <1>1, <1>2
  <2> HIDE DEF w
  <2>3. flat[off + 1] = Len(w)
    <3>1. 1 \in 1 .. Len(w) + 1
      BY <1>8
    <3> QED
      BY <2>1, <2>2, <3>1
  <2>4. ASSUME NEW k \in 1 .. Len(w) PROVE flat[(off + 1) + k] = w[k]
    <3>1. k + 1 \in 1 .. Len(w) + 1 /\ (off + 1) + k = off + (k + 1)
      BY <1>8
    <3>2. flat[off + (k + 1)] = F[i + 1][k + 1]
      BY <2>1, <2>2, <3>1
    <3> QED
      BY <2>2, <3>1, <3>2
  <2> QED
    BY <2>3, <2>4
<1>10. SubSeq(flat, off + 2, off + 1 + Len(w)) = w
  <2> DEFINE a == off + 1
  <2> HIDE DEF F, s, n, flat, w, off
  <2>1. Holds(flat, a, w)
    BY <1>8, <1>9 DEF Holds
  <2> HIDE DEF a
  <2>2. PartFrom(flat, a, w)
    BY <1>8, <2>1, PartIs DEF Texts
  <2>3. a + 1 = off + 2 /\ a + Len(w) = off + 1 + Len(w)
    BY <1>8 DEF a
  <2> QED
    BY <2>2, <2>3 DEF PartFrom
<1>11. off = EntryOffset(t, i) /\ s[i + 1] = EntryOffset(t, i + 1) /\ s[0] = EntryOffset(t, 0)
  <2> HIDE DEF F, s, n
  <2> QED
    BY <1>1, <1>5
<1>12. NextOffset(t, i)
  <2> HIDE DEF F, s, n, w
  <2>1. off + (Len(w) + 1) = off + Len(w) + 1
    BY <1>8
  <2> QED
    BY <1>8, <1>11, <2>1 DEF NextOffset, w
<1>13. EntryAt(Generated(t, tab), t, off, i)
  <2> HIDE DEF F, s, n, flat, off
  <2> QED
    BY <1>7, <1>9, <1>10 DEF EntryAt
<1> HIDE DEF F, s, n, flat, w, off
<1> QED
  BY <1>8, <1>11, <1>12, <1>13

LEMMA SmallDivision ==
    ASSUME NEW N \in Nat, N > 0, NEW a \in Nat
    PROVE  /\ a < N => a % N = a /\ a \div N = 0
           /\ a >= N => a \div N >= 1
<1>1. ASSUME a < N PROVE a % N = a
  BY <1>1
<1>2. ASSUME a < N PROVE a \div N = 0
  BY <1>2
<1>3. ASSUME a >= N PROVE a \div N >= 1
  BY <1>3
<1> QED
  BY <1>1, <1>2, <1>3

IsSkip(f, o, i) ==
    f = [n \in 0 .. i % MarkerEvery |->
           IF n = 0 THEN MarkerWord(o, i \div MarkerEvery)
           ELSE f[n - 1] + o.names[f[n - 1] + 1] + 1]

LEMMA FirstMarker ==
    ASSUME NEW t \in Seq(Packed), Len(t) >= 1, NEW tab
    PROVE  MarkerWord(Generated(t, tab), 0) = 0
<1> DEFINE M == MarkerEvery
           last == (Len(t) + M - 1) \div M
<1>1. M \in Nat /\ M > 0 /\ Len(t) \in Nat
  BY SizeAssumption, LenProperties
<1>2. last \in Int /\ last >= 1
  <2> HIDE DEF M
  <2> DEFINE a == Len(t) + M - 1
  <2>1. a \in Nat /\ a >= M
    BY <1>1
  <2> HIDE DEF a
  <2>2. a \div M \in Int /\ a \div M >= 1
    BY <1>1, <2>1, SmallDivision
  <2> QED
    BY <2>2 DEF a
<1>3. Generated(t, tab).markers = [k \in 1 .. last |-> EntryOffset(t, (k - 1) * M)]
  BY DEF Generated
<1> HIDE DEF last
<1>4. Generated(t, tab).markers[1] = EntryOffset(t, (1 - 1) * M)
  <2>1. 1 \in 1 .. last
    BY <1>2
  <2> QED
    BY <1>3, <2>1
<1>5. EntryOffset(t, (1 - 1) * M) = 0
  <2>1. (1 - 1) * M = 0
    BY <1>1
  <2>2. 0 \in 0 .. Len(t) - 1
    BY <1>1
  <2>3. EntryOffset(t, 0) = 0
    BY <2>2, EntriesAt
  <2> QED
    BY <2>1, <2>3
<1>6. 0 % 2 = 0 /\ (0 \div 2) + 1 = 1
  OBVIOUS
<1> QED
  BY <1>4, <1>5, <1>6 DEF MarkerWord

\* Within the first marker, get_symbol_offset finds the entry.
FirstMarkerHolds(t) == Len(t) <= MarkerEvery
LEMMA OffsetRight ==
    ASSUME NEW t \in Seq(Packed), FirstMarkerHolds(t), NEW tab, NEW i \in 0 .. Len(t) - 1
    PROVE  GetSymbolOffset(Generated(t, tab), i) = EntryOffset(t, i)
<1> DEFINE o == Generated(t, tab)
           right == [n \in 0 .. i |-> EntryOffset(t, n)]
           f == CHOOSE g : IsSkip(g, o, i)
<1>1. /\ i \in Nat /\ Len(t) \in Nat /\ i + 1 <= Len(t) /\ i < MarkerEvery /\ Len(t) >= 1
      /\ MarkerEvery \in Nat /\ MarkerEvery > 0
  BY SizeAssumption, LenProperties DEF FirstMarkerHolds
<1>2. i % MarkerEvery = i /\ i \div MarkerEvery = 0
  BY <1>1, SmallDivision
<1>3. MarkerWord(o, 0) = 0
  BY <1>1, FirstMarker
<1>4. ASSUME NEW n \in 0 .. i
      PROVE  /\ EntryOffset(t, 0) = 0 /\ EntryOffset(t, n) \in Nat
             /\ o.names[EntryOffset(t, n) + 1] = Len(t[n + 1].sym)
             /\ EntryOffset(t, n + 1) = EntryOffset(t, n) + Len(t[n + 1].sym) + 1
  <2>1. n \in 0 .. Len(t) - 1
    BY <1>1
  <2>2. EntryOffset(t, 0) = 0 /\ NextOffset(t, n) /\ EntryAt(o, t, EntryOffset(t, n), n)
    <3> HIDE DEF o
    <3> QED
      BY <2>1, EntriesAt DEF o
  <2> QED
    BY <2>2 DEF NextOffset, EntryAt
<1> HIDE DEF o
<1>5. ASSUME NEW n \in 0 .. i
      PROVE right[n] = IF n = 0 THEN 0 ELSE right[n - 1] + o.names[right[n - 1] + 1] + 1
  <2>1. CASE n = 0
    BY <1>4, <2>1
  <2>2. CASE n # 0
    <3>1. n - 1 \in 0 .. i /\ (n - 1) + 1 = n
      BY <2>2
    <3>2. right[n - 1] = EntryOffset(t, n - 1) /\ right[n] = EntryOffset(t, n)
      BY <3>1
    <3> QED
      BY <1>4, <2>2, <3>1, <3>2
  <2> QED
    BY <2>1, <2>2
<1>6. IsSkip(right, o, i)
  <2>1. right = [n \in 0 .. i |-> right[n]]
    OBVIOUS
  <2> HIDE DEF right
  <2>2. right = [n \in 0 .. i |-> IF n = 0 THEN 0 ELSE right[n - 1] + o.names[right[n - 1] + 1] + 1]
    BY <1>5, <2>1, Zenon
  <2> QED
    BY <1>2, <1>3, <2>2 DEF IsSkip
<1>7. IsSkip(f, o, i)
  <2> HIDE DEF right
  <2> QED
    BY <1>6, Zenon
<1>8. GetSymbolOffset(o, i) = f[i]
  <2>1. GetSymbolOffset(o, i) = f[i % MarkerEvery]
    BY Zenon DEF GetSymbolOffset, IsSkip
  <2> HIDE DEF f
  <2> QED
    BY <1>2, <2>1
<1> HIDE DEF f
<1>9. \A n \in 0 .. i : f[n] = IF n = 0 THEN 0 ELSE f[n - 1] + o.names[f[n - 1] + 1] + 1
  <2>1. f = [n \in 0 .. i |-> IF n = 0 THEN 0 ELSE f[n - 1] + o.names[f[n - 1] + 1] + 1]
    BY <1>2, <1>3, <1>7 DEF IsSkip
  <2> QED
    BY <2>1, Zenon
<1> HIDE DEF right
<1> DEFINE Bad == {n \in 0 .. i : f[n] # right[n]}
<1>10. ASSUME Bad # {} PROVE FALSE
  <2>1. PICK n \in Bad : \A l \in Bad : n <= l
    <3>1. Bad \in SUBSET Nat
      OBVIOUS
    <3> HIDE DEF Bad
    <3> QED
      BY <1>10, <3>1, LeastNat
  <2>2. n \in 0 .. i /\ n # 0
    BY <1>5, <1>9, <2>1
  <2>3. n - 1 \in 0 .. i /\ ~(n <= n - 1)
    BY <2>2
  <2>4. f[n - 1] = right[n - 1]
    BY <2>1, <2>3
  <2> QED
    BY <1>5, <1>9, <2>1, <2>2, <2>4
<1>11. f[i] = right[i]
  <2>1. i \in 0 .. i
    BY <1>1
  <2> QED
    BY <1>10, <2>1
<1>12. right[i] = EntryOffset(t, i)
  BY <1>1 DEF right
<1> QED
  BY <1>8, <1>11, <1>12 DEF o

\* What a code expands to, when e is what the codes stand for.
LEMMA CodeExpands ==
    ASSUME NEW tab \in [Codes -> Texts], NEW e \in [Codes -> Texts], Grounded(tab, e),
           NEW c \in Codes
    PROVE  Expand(tab, tab[c]) = e[c]
<1>1. PICK C : Spells(C, e, Texts)
  BY SpellsExists
<1>2. Expand(tab, tab[c]) = C[tab[c]]
  BY <1>1, ExpandSpells
<1>3. C[<<>>] = <<>>
  BY <1>1 DEF Spells, Follows
<1>4. CASE tab[c] = <<>> /\ e[c] = <<>>
  BY <1>2, <1>3, <1>4
<1>5. CASE tab[c] = <<c>> /\ e[c] = <<c>>
  <2>1. C[<<c>>] = e[c]
    BY <1>1, SpellsOne
  <2> QED
    BY <1>2, <1>5, <2>1
<1>6. ASSUME NEW a \in Codes, NEW b \in Codes, tab[c] = <<a, b>>, e[c] = e[a] \o e[b]
      PROVE  C[tab[c]] = e[c]
  <2>1. C[<<a, b>>] = e[a] \o e[b]
    BY <1>1, SpellsPair
  <2> QED
    BY <1>6, <2>1
<1> QED
  BY <1>2, <1>4, <1>5, <1>6 DEF Grounded

\* No code stands for a string with a terminator in it.
LEMMA NoTerminator ==
    ASSUME NEW tab \in [Codes -> Texts], NEW e \in [Codes -> Texts], Grounded(tab, e),
           tab[NUL] # <<NUL>>
    PROVE  \A c \in Codes : e[c] \in Seq(Characters)
<1> DEFINE Bad == {c \in Codes : e[c] \notin Seq(Characters)}
           Up == {NrCodes - c : c \in Bad}
<1>0. NrCodes \in Nat /\ \A c \in Codes : c \in Nat /\ c < NrCodes
  BY SizeAssumption DEF Codes
<1> SUFFICES ASSUME Bad # {} PROVE FALSE
  OBVIOUS
<1>1. PICK c \in Bad : \A d \in Bad : ~(d > c)
  <2>1. Up \in SUBSET Nat /\ Up # {}
    BY <1>0
  <2>2. PICK u \in Up : \A v \in Up : u <= v
    <3> HIDE DEF Up
    <3> QED
      BY <2>1, LeastNat
  <2>3. PICK c \in Bad : u = NrCodes - c
    OBVIOUS
  <2>4. ASSUME NEW d \in Bad PROVE ~(d > c)
    <3>1. NrCodes - d \in Up
      OBVIOUS
    <3>2. u <= NrCodes - d
      BY <2>2, <3>1
    <3> QED
      BY <1>0, <2>3, <3>2
  <2> QED
    BY <2>4
<1>2. c \in Codes /\ e[c] \notin Seq(Characters)
  OBVIOUS
<1>3. ASSUME NEW d \in Codes, tab[d] = <<d>> PROVE e[d] = <<d>> /\ e[d] \in Seq(Characters)
  <2>1. d # NUL
    BY <1>3
  <2>2. d \in Characters
    BY <2>1 DEF Characters
  <2>3. e[d] = <<d>>
    <3>1. <<d>> # <<>> /\ \A a, b : <<d>> # <<a, b>>
      OBVIOUS
    <3> QED
      BY <1>3, <3>1 DEF Grounded
  <2> QED
    BY <2>2, <2>3
<1>4. CASE tab[c] = <<>> /\ e[c] = <<>>
  BY <1>2, <1>4
<1>5. CASE tab[c] = <<c>>
  BY <1>2, <1>3, <1>5
<1>6. ASSUME NEW a \in Codes, NEW b \in Codes, e[c] = e[a] \o e[b],
             \A d \in {a, b} : tab[d] = <<d>> \/ d > c
      PROVE  FALSE
  <2>1. e[a] \in Seq(Characters)
    BY <1>1, <1>3, <1>6
  <2>2. e[b] \in Seq(Characters)
    BY <1>1, <1>3, <1>6
  <2>3. e[a] \o e[b] \in Seq(Characters)
    BY <2>1, <2>2, ConcatProperties
  <2> QED
    BY <1>2, <1>6, <2>3
<1> QED
  BY <1>2, <1>4, <1>5, <1>6, Zenon DEF Grounded

\* A spelling is the concatenation of what the codes stand for.
LEMMA SpellIsFlat ==
    ASSUME NEW e \in [Codes -> Texts], NEW C, Spells(C, e, Texts), NEW s \in Texts, s # <<>>
    PROVE  FlattenSeq([k \in DOMAIN s |-> e[s[k]]]) = C[s]
<1> DEFINE n == Len(s)
           F == [k \in DOMAIN s |-> e[s[k]]]
           part(k) == SubSeq(s, 1, k)
<1>1. n \in Nat /\ n >= 1 /\ DOMAIN s = 1 .. n /\ \A k \in 1 .. n : s[k] \in Codes
  <2>1. n \in Nat /\ n >= 1
    BY TailShort
  <2>2. DOMAIN s = 1 .. n /\ \A k \in 1 .. n : s[k] \in Codes
    BY LenProperties, ElementOfSeq DEF Texts
  <2> QED
    BY <2>1, <2>2
<1>2. Listed(F, Codes, n)
  <2>1. F \in [1 .. n -> Texts]
    <3> HIDE DEF n
    <3> QED
      BY <1>1
  <2> HIDE DEF F, n
  <2> QED
    BY <1>1, <2>1 DEF Listed, Texts
<1>3. PICK f : Flattens(f, Codes, F, n)
  <2> HIDE DEF F, n
  <2> QED
    BY <1>2, FlattenIs
<1>4. /\ FlattenSeq(F) = f[n] /\ f[1] = F[1]
      /\ \A i \in 2 .. n : f[i] = f[i - 1] \o F[i]
  <2> HIDE DEF F, n
  <2> QED
    BY <1>3, Zenon DEF Flattens
<1>5. \A k \in 1 .. n : F[k] = e[s[k]]
  <2> HIDE DEF n
  <2> QED
    BY <1>1
<1> HIDE DEF F
<1>6. ASSUME NEW k \in 1 .. n
      PROVE  part(k) \in Texts /\ SubSeq(s, k, k) = <<s[k]>> /\ C[<<s[k]>>] = e[s[k]]
  <2>1. k \in Int /\ k <= n /\ 1 \in Nat /\ 1 >= 1
    BY <1>1
  <2>2. part(k) \in Texts
    BY <2>1, PartOfText
  <2>3. SubSeq(s, k, k) = <<s[k]>>
    BY OneOfText
  <2>4. C[<<s[k]>>] = e[s[k]]
    BY <1>1, SpellsOne
  <2> QED
    BY <2>2, <2>3, <2>4
<1> DEFINE Bad == {k \in 1 .. n : f[k] # C[part(k)]}
<1>7. ASSUME Bad # {} PROVE FALSE
  <2>1. PICK k \in Bad : \A l \in Bad : k <= l
    <3>1. Bad \in SUBSET Nat
      OBVIOUS
    <3> HIDE DEF Bad
    <3> QED
      BY <1>7, <3>1, LeastNat
  <2>2. CASE k = 1
    <3>1. part(1) = <<s[1]>> /\ 1 \in 1 .. n
      <4>1. 1 \in 1 .. n
        BY <1>1
      <4>2. SubSeq(s, 1, 1) = <<s[1]>>
        BY <1>6, <4>1
      <4> QED
        BY <4>1, <4>2
    <3>2. C[<<s[1]>>] = e[s[1]] /\ f[1] = e[s[1]]
      BY <1>4, <1>5, <1>6, <3>1
    <3> HIDE DEF part
    <3>3. f[1] = C[part(1)]
      BY <3>1, <3>2
    <3> QED
      BY <2>1, <2>2, <3>3
  <2>3. CASE k # 1
    <3>1. k - 1 \in 1 .. n /\ ~(k <= k - 1) /\ k \in 2 .. n /\ k \in 1 .. n
      BY <2>1, <2>3
    <3>2. f[k - 1] = C[part(k - 1)]
      BY <2>1, <3>1
    <3>3. part(k) = part(k - 1) \o <<s[k]>>
      <4>1. /\ 1 \in Nat /\ 1 >= 1 /\ k - 1 \in Int /\ k \in Int /\ 1 - 1 <= k - 1
            /\ k - 1 <= k /\ k <= Len(s) /\ (k - 1) + 1 = k
        BY <1>1, <3>1
      <4>2. SubSeq(s, 1, k) = SubSeq(s, 1, k - 1) \o SubSeq(s, (k - 1) + 1, k)
        BY <4>1, SplitText
      <4> QED
        BY <1>6, <3>1, <4>1, <4>2
    <3>4. part(k - 1) \in Texts /\ <<s[k]>> \in Texts
      BY <1>1, <1>6, <3>1 DEF Texts
    <3>5. C[part(k)] = C[part(k - 1)] \o C[<<s[k]>>]
      <4> DEFINE x == part(k - 1)
                 y == <<s[k]>>
      <4>1. \A v, w \in Texts : C[v \o w] = C[v] \o C[w]
        BY SpellsConcat
      <4>2. x \in Texts /\ y \in Texts /\ part(k) = x \o y
        BY <3>3, <3>4
      <4> HIDE DEF part, x, y
      <4>3. C[part(k)] = C[x] \o C[y]
        BY <4>1, <4>2
      <4> QED
        BY <4>3 DEF x, y
    <3>6. f[k] = f[k - 1] \o e[s[k]]
      BY <1>4, <1>5, <3>1
    <3> QED
      BY <1>6, <2>1, <3>1, <3>2, <3>5, <3>6
  <2> QED
    BY <2>2, <2>3
<1>8. f[n] = C[part(n)] /\ part(n) = s
  <2>1. n \in 1 .. n
    BY <1>1
  <2>2. part(n) = s
    BY SubSeqFull DEF Texts
  <2> QED
    BY <1>7, <2>1, <2>2
<1> QED
  BY <1>4, <1>8 DEF F

\* The string of code c in kallsyms_token_table, up to its terminator.
StringAt(o, c) ==
    LET from == o.index[c] + 1
        nul == Min({k \in from .. Len(o.tokens) : o.tokens[k] = NUL})
    IN  SubSeq(o.tokens, from, nul - 1)

LEMMA StringRight ==
    ASSUME NEW t, NEW tab \in [Codes -> Texts], NEW e \in [Codes -> Texts], Grounded(tab, e),
           tab[NUL] # <<NUL>>, NEW c \in Codes
    PROVE  StringAt(Generated(t, tab), c) = e[c]
<1> DEFINE o == Generated(t, tab)
           n == NrCodes
           G == [d \in 1 .. n |-> Append(Expand(tab, tab[d - 1]), NUL)]
           s == [i \in 0 .. n |-> LengthsUpTo(G, i)]
           flat == FlattenSeq(G)
           w == e[c]
<1>1. n \in Nat /\ n >= 1 /\ c \in 0 .. n /\ c + 1 \in 1 .. n /\ (c + 1) - 1 = c /\ c \in Nat
      /\ NUL \in Codes
  BY SizeAssumption DEF Codes, NUL
<1>2. ASSUME NEW d \in 1 .. n PROVE G[d] = Append(e[d - 1], NUL) /\ G[d] \in Texts
  <2>1. d - 1 \in Codes
    BY <1>1 DEF Codes
  <2>2. Expand(tab, tab[d - 1]) = e[d - 1] /\ e[d - 1] \in Texts
    BY <2>1, CodeExpands
  <2>3. G[d] = Append(e[d - 1], NUL)
    BY <2>2
  <2>4. Append(e[d - 1], NUL) \in Texts
    BY <1>1, <2>2, AppendProperties DEF Texts
  <2> QED
    BY <2>3, <2>4
<1>3. o.tokens = flat /\ o.index[c] = s[c]
  <2>1. o.tokens = flat
    BY DEF Generated
  <2>2. o.index[c] = Total([d \in 1 .. c |-> Len(G[d])], c)
    BY DEF Generated
  <2> HIDE DEF G
  <2>3. o.index[c] = LengthsUpTo(G, c)
    BY <2>2, Zenon DEF LengthsUpTo
  <2>4. s[c] = LengthsUpTo(G, c)
    BY <1>1
  <2> QED
    BY <2>1, <2>3, <2>4
<1>4. Listed(G, Codes, n)
  <2>1. G = [d \in 1 .. n |-> G[d]]
    OBVIOUS
  <2> HIDE DEF G, n
  <2>2. G \in [1 .. n -> Texts]
    BY <1>2, <2>1
  <2> QED
    BY <1>1, <2>2 DEF Listed, Texts
<1> DEFINE from == s[c] + 1
           word == G[c + 1]
<1>5. word = Append(w, NUL)
  <2> HIDE DEF G, n
  <2> QED
    BY <1>1, <1>2
<1> HIDE DEF G, o
<1>6. Starts(s, G, n)
  <2> HIDE DEF n
  <2> QED
    BY <1>4, TotalStarts
<1> HIDE DEF s
<1>7. flat \in Texts /\ LiesAt(flat, s, G, c + 1)
  <2> HIDE DEF n
  <2> QED
    BY <1>1, <1>4, <1>6, Flattened DEF Texts
<1>8. s[c] \in Nat
  <2> HIDE DEF n
  <2> QED
    BY <1>1, <1>6 DEF Starts
<1> HIDE DEF flat
<1>9. /\ s[c] + Len(word) <= Len(flat)
      /\ \A k \in 1 .. Len(word) : flat[s[c] + k] = word[k]
  BY <1>1, <1>7 DEF LiesAt
<1>10. /\ w \in Texts /\ Len(w) \in Nat /\ Len(word) = Len(w) + 1 /\ Len(flat) \in Nat
       /\ word[Len(w) + 1] = NUL /\ \A k \in 1 .. Len(w) : word[k] = w[k]
  <2>1. w \in Texts
    OBVIOUS
  <2> HIDE DEF w, word
  <2> QED
    BY <1>1, <1>5, <1>7, <2>1, TextConcat, AppendProperties DEF Texts
<1>11. \A k \in 1 .. Len(w) : w[k] # NUL
  <2>1. w \in Seq(Characters)
    BY NoTerminator
  <2> HIDE DEF w
  <2> QED
    BY <2>1, Prints
<1> HIDE DEF w, word
<1> DEFINE at == s[c]
           l == Len(w)
           end == at + l + 1
           nuls == {k \in from .. Len(flat) : flat[k] = NUL}
<1>12. end \in nuls /\ \A k \in nuls : end <= k
  <2>1. at \in Nat /\ l \in Nat /\ at + (l + 1) <= Len(flat) /\ Len(flat) \in Nat /\ from = at + 1
    BY <1>8, <1>9, <1>10
  <2>2. flat[at + (l + 1)] = NUL /\ \A k \in 1 .. l : flat[at + k] # NUL
    <3>1. l + 1 \in 1 .. Len(word) /\ \A k \in 1 .. l : k \in 1 .. Len(word)
      BY <1>10
    <3> QED
      BY <1>9, <1>10, <1>11, <3>1
  <2> HIDE DEF at, l, from
  <2>3. end = at + (l + 1) /\ end \in from .. Len(flat)
    BY <2>1
  <2>4. ASSUME NEW k \in nuls PROVE end <= k
    <3>1. k \in Int /\ from <= k
      BY <2>1
    <3>2. CASE k < end
      <4>1. k - at \in 1 .. l /\ at + (k - at) = k
        BY <2>1, <3>1, <3>2
      <4> QED
        BY <2>2, <4>1
    <3> QED
      BY <2>1, <3>1, <3>2
  <2> QED
    BY <2>2, <2>3, <2>4
<1>13. Min(nuls) = end
  <2>1. nuls \in SUBSET Nat /\ end \in Int
    BY <1>8, <1>10
  <2> HIDE DEF nuls, end
  <2>2. Min(nuls) \in nuls /\ \A k \in nuls : Min(nuls) <= k
    BY <1>12, <2>1, SmallestOf
  <2>3. Min(nuls) \in Nat /\ Min(nuls) <= end /\ end <= Min(nuls)
    BY <1>12, <2>1, <2>2
  <2> QED
    BY <2>1, <2>3
<1>14. SubSeq(flat, at + 1, at + l) = w
  <2>1. Holds(flat, at, w)
    <3>1. \A k \in 1 .. Len(w) : k \in 1 .. Len(word)
      BY <1>10
    <3> QED
      BY <1>8, <1>9, <1>10, <3>1 DEF Holds
  <2>2. PartFrom(flat, at, w)
    <3> HIDE DEF at
    <3> QED
      BY <1>10, <2>1, PartIs DEF Texts
  <2> QED
    BY <2>2 DEF PartFrom
<1>15. StringAt(o, c) = SubSeq(flat, from, Min(nuls) - 1)
  BY <1>3, Zenon DEF StringAt
<1>16. from = at + 1 /\ end - 1 = at + l
  BY <1>8, <1>10
<1> HIDE DEF at, l, end, nuls, from
<1> QED
  BY <1>13, <1>14, <1>15, <1>16 DEF o, w

\* What the kernel prints for entry i is what its symbol stands for, without the type.
\* What it takes to read the name of the i-th symbol.
Legible(t, tab, e, C, i) ==
    /\ t \in Seq(Packed) /\ tab \in [Codes -> Texts] /\ e \in [Codes -> Texts]
    /\ Grounded(tab, e) /\ tab[NUL] # <<NUL>> /\ Spells(C, e, Texts)
    /\ i \in 0 .. Len(t) - 1 /\ t[i + 1].sym # <<>>

LEMMA NameRight ==
    ASSUME NEW t, NEW tab, NEW e, NEW C, NEW i, Legible(t, tab, e, C, i)
    PROVE  KernelName(Generated(t, tab), EntryOffset(t, i)) = Tail(C[t[i + 1].sym])
<1> SUFFICES ASSUME t \in Seq(Packed), tab \in [Codes -> Texts], e \in [Codes -> Texts],
                    Grounded(tab, e), tab[NUL] # <<NUL>>, Spells(C, e, Texts),
                    i \in 0 .. Len(t) - 1, t[i + 1].sym # <<>>
             PROVE  KernelName(Generated(t, tab), EntryOffset(t, i)) = Tail(C[t[i + 1].sym])
  BY Zenon DEF Legible
<1> DEFINE o == Generated(t, tab)
           off == EntryOffset(t, i)
           w == t[i + 1].sym
           F == [k \in DOMAIN w |-> StringAt(o, w[k])]
<1>1. w \in Texts
  <2>1. i + 1 \in 1 .. Len(t)
    BY LenProperties
  <2>2. t[i + 1] \in Packed
    BY <2>1, ElementOfSeq
  <2> QED
    BY <2>2 DEF Packed
<1>2. o.names[off + 1] = Len(w) /\ SubSeq(o.names, off + 2, off + 1 + Len(w)) = w
  <2>1. EntryAt(o, t, off, i)
    BY EntriesAt
  <2> HIDE DEF o, off
  <2> QED
    BY <2>1 DEF EntryAt
<1> HIDE DEF off
<1>3. \A c \in Codes : StringAt(o, c) = e[c]
  BY StringRight
<1> HIDE DEF o
<1>4. KernelName(o, off) = Tail(FlattenSeq(F))
  <2>1. SubSeq(o.names, off + 2, off + 1 + o.names[off + 1]) = w
    BY <1>2
  <2> HIDE DEF w
  <2> QED
    BY <2>1, Zenon DEF KernelName, StringAt
<1> HIDE DEF w
<1>5. F = [k \in DOMAIN w |-> e[w[k]]]
  <2>1. \A k \in DOMAIN w : w[k] \in Codes
    BY <1>1, LenProperties, ElementOfSeq DEF Texts
  <2> QED
    BY <1>3, <2>1
<1>6. FlattenSeq(F) = C[w]
  <2>1. w # <<>>
    BY DEF w
  <2> HIDE DEF F
  <2> QED
    BY <1>1, <1>5, <2>1, SpellIsFlat
<1> QED
  BY <1>4, <1>6 DEF w, o, off

-----------------------------------------------------------------------------
(* kallsyms_lookup: the symbols are in order, the search keeps the address
   between its ends, and its last entry answers.                           *)

\* The labels of the text, as the lines of a map give them.
Stext(m) == Line(m, StextName)
Etext(m) == Line(m, EtextName)
InText(m, a) == a \in Nat /\ a < AddrSpace /\ Stext(m).addr <= a /\ a <= Etext(m).addr

LEMMA LabelsAre ==
    ASSUME NEW two \in Maps, NEW a, InText(two[2], a)
    PROVE  LET m == two[2]
           IN  /\ \A l \in ToSet(m) : l.addr \in Nat /\ l.addr < AddrSpace
               /\ Stext(m).addr \in Nat /\ Etext(m).addr \in Nat
               /\ a < Etext(m).addr => Etext(m) \in Known(m)
               /\ \E l \in Known(m) : l.addr <= a
<1> DEFINE m == two[2]
           Lines == [addr : 0 .. AddrSpace - 1, type : Characters, name : Seq(Characters)]
           st == Stext(m)
           et == Etext(m)
<1>1. /\ m \in Seq(Lines) /\ \E l \in ToSet(m) : l.name = StextName
      /\ \E l \in ToSet(m) : l.name = EtextName
  <2>1. /\ two[2] \in Seq(Lines)
        /\ \A n \in {StextName, EtextName, TextName} : \E l \in ToSet(two[2]) : l.name = n
    <3>1. 2 \in 1 .. 2
      OBVIOUS
    <3> QED
      BY <3>1, MapsAssumption, Zenon
  <2> QED
    BY <2>1
<1>2. st \in ToSet(m) /\ st.name = StextName /\ et \in ToSet(m) /\ et.name = EtextName
  <2> HIDE DEF m
  <2> QED
    BY <1>1, Zenon DEF Line, Stext, Etext
<1>3. st.addr # 0 /\ StextName \notin Excluded /\ EtextName \notin Excluded
  BY LabelsAssumption, Zenon DEF Stext
<1>4. \A l \in ToSet(m) : l.addr \in Nat /\ l.addr < AddrSpace
  <2>1. \A l \in ToSet(m) : l \in Lines
    <3> HIDE DEF m, Lines
    <3> QED
      BY <1>1, LenProperties, ElementOfSeq DEF ToSet
  <2> QED
    BY <2>1, SizeAssumption
<1>5. <<st.addr, et.addr>> \in TextRanges(m)
  BY DEF TextRanges, Stext, Etext
<1>6. a \in Nat /\ st.addr <= a /\ a <= et.addr
  BY DEF InText
<1>7. et.addr = Line(m, EtextName).addr
  BY DEF Etext
<1> HIDE DEF m, st, et
<1>8. st.addr \in Nat /\ et.addr \in Nat /\ st.addr <= et.addr
  BY <1>2, <1>4, <1>6
<1>9. et \in Known(m)
  <2>1. Readable(et)
    BY <1>2 DEF Readable
  <2>2. \E r \in TextRanges(m) : r[1] <= et.addr /\ et.addr <= r[2]
    BY <1>5, <1>8
  <2>3. et.addr # 0
    BY <1>3, <1>8
  <2> QED
    BY <1>2, <1>3, <2>1, <2>2, <2>3 DEF Known, Valid
<1>10. CASE st.addr # et.addr
  <2>1. Readable(st)
    BY <1>2 DEF Readable
  <2>2. \E r \in TextRanges(m) : r[1] <= st.addr /\ st.addr <= r[2]
    BY <1>5, <1>8
  <2>3. st \in Known(m)
    BY <1>2, <1>3, <1>7, <1>10, <2>1, <2>2 DEF Known, Valid
  <2> QED
    BY <1>4, <1>6, <1>8, <1>9, <2>3 DEF m, st, et
<1>11. CASE st.addr = et.addr
  BY <1>4, <1>6, <1>8, <1>9, <1>11 DEF m, st, et
<1> QED
  BY <1>10, <1>11

\* The body of LookupRight: r is the answer for address a and the map m.
Answers(m, a, r) ==
    LET known == {l \in ToSet(m) : Readable(l) /\ Valid(m, l)}
        start == Max({l.addr : l \in {k \in known : k.addr <= a}})
        aliases == {l \in known : l.addr = start}
        weak == {l \in aliases : l.type \in WeakTypes}
    IN  /\ \E l \in IF weak = {} THEN aliases ELSE weak : r.name = l.name
        /\ r.offset = a - start
        /\ r.size = Min({l.addr : l \in {k \in known : k.addr > a}}) - start

\* The search ends at entry i of the list L, of which A holds the addresses.
EndsAt(L, A, a, i) ==
    /\ i \in 0 .. Len(L) - 1 /\ L[i + 1].addr <= a
    /\ i + 1 < Len(L) => a < L[i + 2].addr
    /\ A = [k \in 1 .. Len(L) |-> L[k].addr]
EndOf(A, i) ==
    LET here == A[i + 1]
        later == {A[k] : k \in i + 2 .. Len(A)} \ {here}
    IN  IF later = {} THEN 0 ELSE Min(later)
Reported(A, L, a, i) ==
    [name |-> Tail(L[i + 1].sym), offset |-> a - A[i + 1],
     size |-> (EndOf(A, i) - A[i + 1]) % AddrSpace]

LEMMA LastIsAnswer ==
    ASSUME NEW two \in Maps, NEW L, InOrder(L, two[2]), NEW a, InText(two[2], a),
           a < Etext(two[2]).addr, NEW A, NEW i, EndsAt(L, A, a, i)
    PROVE  Answers(two[2], a, Reported(A, L, a, i))
<1> DEFINE m == two[2]
           n == Len(L)
           known == Known(m)
           here == A[i + 1]
           below == {l.addr : l \in {k \in known : k.addr <= a}}
           above == {l.addr : l \in {k \in known : k.addr > a}}
           later == {A[k] : k \in i + 2 .. n} \ {here}
           start == Max(below)
           aliases == {l \in known : l.addr = start}
           weak == {l \in aliases : l.type \in WeakTypes}
           r == Reported(A, L, a, i)
<1>1. /\ L \in Seq(Entries) /\ n \in Nat
      /\ \A j, k \in 1 .. n : j < k =>
           L[j].addr <= L[k].addr /\ (L[j].addr = L[k].addr => Weak(L[j]) <= Weak(L[k]))
      /\ \A k \in 1 .. n : \E l \in known : EntryOf(L[k], l)
      /\ \A l \in known : \E k \in 1 .. n : EntryOf(L[k], l)
  BY LenProperties DEF InOrder
<1>2. /\ i \in Nat /\ i < n /\ i + 1 \in 1 .. n /\ L[i + 1].addr <= a
      /\ i + 1 < n => a < L[i + 2].addr
      /\ \A k \in 1 .. n : A[k] = L[k].addr
      /\ Len(A) = n
  BY <1>1 DEF EndsAt
<1>3. /\ \A l \in known : l.addr \in Nat /\ l.addr < AddrSpace
      /\ Etext(m) \in known /\ Etext(m).addr > a /\ a \in Nat /\ AddrSpace \in Nat
  <2>1. /\ \A l \in ToSet(m) : l.addr \in Nat /\ l.addr < AddrSpace
        /\ Etext(m) \in known /\ Etext(m).addr \in Nat
    BY LabelsAre
  <2>2. \A l \in known : l \in ToSet(m)
    BY DEF Known
  <2> QED
    BY <2>1, <2>2, SizeAssumption DEF InText
<1> HIDE DEF m, known, n
<1>4. \A k \in 1 .. n : L[k].addr \in Nat /\ Weak(L[k]) \in Int
  <2> TAKE k \in 1 .. n
  <2>1. PICK l \in known : EntryOf(L[k], l)
    BY <1>1
  <2>2. L[k] \in Entries
    BY <1>1, ElementOfSeq DEF n
  <2> QED
    BY <1>3, <2>1, <2>2, KeysAreIntegers DEF EntryOf
<1>5. here = L[i + 1].addr /\ here \in Nat /\ here <= a
  BY <1>2, <1>4
\* Where an entry lies in the list and where its address.
<1>6. ASSUME NEW k \in 1 .. n
      PROVE  /\ k <= i + 1 => L[k].addr <= here
             /\ k >= i + 2 => L[k].addr > a
  <2>1. ASSUME k <= i + 1 PROVE L[k].addr <= here
    <3>1. CASE k = i + 1
      BY <1>4, <1>5, <3>1
    <3>2. CASE k < i + 1
      BY <1>1, <1>2, <1>5, <3>2
    <3> QED
      BY <1>2, <2>1, <3>1, <3>2
  <2>2. ASSUME k >= i + 2 PROVE L[k].addr > a
    <3>1. i + 2 \in 1 .. n /\ i + 1 < n
      BY <1>1, <1>2, <2>2
    <3>2. a < L[i + 2].addr
      BY <1>2, <3>1
    <3>3. CASE k = i + 2
      BY <3>2, <3>3
    <3>4. CASE k > i + 2
      <4>1. L[i + 2].addr <= L[k].addr
        BY <1>1, <3>1, <3>4
      <4> QED
        BY <1>3, <1>4, <3>1, <3>2, <4>1
    <3> QED
      BY <1>2, <2>2, <3>3, <3>4
  <2> QED
    BY <2>1, <2>2
<1> HIDE DEF here
<1>7. start = here
  <2>1. here \in below
    <3>1. PICK l \in known : EntryOf(L[i + 1], l)
      BY <1>1, <1>2
    <3> QED
      BY <1>5, <3>1 DEF EntryOf
  <2>2. \A x \in below : x \in Nat /\ x <= here
    <3> SUFFICES ASSUME NEW l \in known, l.addr <= a PROVE l.addr \in Nat /\ l.addr <= here
      OBVIOUS
    <3>1. PICK k \in 1 .. n : EntryOf(L[k], l)
      BY <1>1
    <3>2. ~(k >= i + 2)
      BY <1>3, <1>6, <3>1 DEF EntryOf
    <3>3. k <= i + 1
      BY <1>2, <3>2
    <3> QED
      BY <1>3, <1>6, <3>1, <3>3 DEF EntryOf
  <2> HIDE DEF below
  <2>3. \E x \in below : \A y \in below : x >= y
    BY <1>5, <2>1, <2>2
  <2>4. start \in below /\ \A y \in below : start >= y
    BY <2>3, Zenon DEF Max
  <2> HIDE DEF start
  <2>5. start >= here /\ start <= here /\ start \in Nat
    BY <2>1, <2>2, <2>4
  <2> QED
    BY <1>5, <2>5
<1> HIDE DEF below, start
<1>8. later = above
  <2>1. ASSUME NEW x \in later PROVE x \in above
    <3>1. PICK k \in i + 2 .. n : x = A[k]
      OBVIOUS
    <3>2. k \in 1 .. n /\ k >= i + 2
      BY <1>2
    <3>3. L[k].addr > a /\ x = L[k].addr
      BY <1>2, <1>6, <3>1, <3>2
    <3>4. PICK l \in known : EntryOf(L[k], l)
      BY <1>1, <3>2
    <3> QED
      BY <3>3, <3>4 DEF EntryOf
  <2>2. ASSUME NEW l \in known, l.addr > a PROVE l.addr \in later
    <3>1. PICK k \in 1 .. n : EntryOf(L[k], l)
      BY <1>1
    <3>2. L[k].addr = l.addr
      BY <3>1 DEF EntryOf
    <3>3. l.addr # here /\ ~(l.addr <= here)
      BY <1>3, <1>5, <2>2
    <3>4. ~(k <= i + 1)
      BY <1>6, <3>2, <3>3
    <3>5. k \in i + 2 .. n
      BY <1>1, <1>2, <3>4
    <3>6. A[k] = l.addr
      BY <1>2, <3>2
    <3> QED
      BY <3>3, <3>5, <3>6
  <2> QED
    BY <2>1, <2>2
<1>9. above # {} /\ above \in SUBSET Nat /\ \A x \in above : x < AddrSpace /\ x > a
  BY <1>3
<1> HIDE DEF above
<1>10. EndOf(A, i) = Min(above)
  <2>1. later # {}
    BY <1>8, <1>9
  <2>2. EndOf(A, i) = IF later = {} THEN 0 ELSE Min(later)
    BY <1>2 DEF EndOf, here
  <2> HIDE DEF later
  <2> QED
    BY <1>8, <2>1, <2>2
<1>11. (EndOf(A, i) - here) % AddrSpace = Min(above) - start
  <2> DEFINE x == Min(above)
  <2>1. x \in above
    BY <1>9, SmallestOf
  <2> HIDE DEF x
  <2>2. x \in Nat /\ x < AddrSpace /\ x > a
    BY <1>9, <2>1
  <2> DEFINE d == x - here
  <2>3. d \in Nat /\ d < AddrSpace /\ AddrSpace > 0
    BY <1>3, <1>5, <2>2
  <2> HIDE DEF d
  <2>4. d % AddrSpace = d
    BY <1>3, <2>3, SmallDivision
  <2> QED
    BY <1>7, <1>10, <2>4 DEF d, x
<1>12. \E l \in IF weak = {} THEN aliases ELSE weak : Tail(L[i + 1].sym) = l.name
  <2>1. PICK l \in known : EntryOf(L[i + 1], l)
    BY <1>1, <1>2
  <2>2. L[i + 1].sym = <<l.type>> \o l.name /\ l.addr = here
    BY <1>5, <2>1 DEF EntryOf
  <2>3. \A j \in ToSet(m) : j.type \in Characters /\ j.name \in Seq(Characters)
    <3> DEFINE Lines == [addr : 0 .. AddrSpace - 1, type : Characters, name : Seq(Characters)]
    <3>1. m \in Seq(Lines)
      <4>1. 2 \in 1 .. 2
        OBVIOUS
      <4> QED
        BY <4>1, MapsAssumption, Zenon DEF m
    <3>2. \A j \in ToSet(m) : j \in Lines
      <4> HIDE DEF Lines
      <4> QED
        BY <3>1, LenProperties, ElementOfSeq DEF ToSet
    <3> QED
      BY <3>2
  <2>4. ASSUME NEW j \in known, NEW s, EntryOf(s, j)
        PROVE  s.sym[1] = j.type /\ Tail(s.sym) = j.name
    <3>1. j.type \in Characters /\ j.name \in Seq(Characters) /\ s.sym = <<j.type>> \o j.name
      BY <2>3, <2>4 DEF Known, EntryOf, known
    <3> DEFINE w == j.name
               c == j.type
    <3>2. w \in Seq(Characters) /\ c \in Characters
      BY <3>1
    <3> HIDE DEF w, c
    <3>3. (<<c>> \o w)[1] = c /\ Tail(<<c>> \o w) = w
      BY <3>2
    <3> QED
      BY <3>1, <3>3 DEF w, c
  <2>5. L[i + 1].sym[1] = l.type /\ Tail(L[i + 1].sym) = l.name
    BY <2>1, <2>4
  <2>6. l \in aliases
    BY <1>7, <2>2
  <2>7. ASSUME weak # {} PROVE l \in weak
    <3>1. PICK j \in known : j.addr = here /\ j.type \in WeakTypes
      BY <1>7, <2>7
    <3>2. PICK k \in 1 .. n : EntryOf(L[k], j)
      BY <1>1
    <3>3. L[k].addr = here /\ L[k].sym[1] \in WeakTypes
      BY <2>4, <3>1, <3>2 DEF EntryOf
    <3>4. Weak(L[k]) = 1
      BY <3>3 DEF Weak
    <3>5. ~(k >= i + 2)
      BY <1>3, <1>5, <1>6, <3>3
    <3>6. k = i + 1 \/ k < i + 1
      BY <1>2, <3>5
    <3>7. Weak(L[i + 1]) >= 1
      <4>1. CASE k = i + 1
        BY <3>4, <4>1
      <4>2. CASE k < i + 1
        <5>1. Weak(L[k]) <= Weak(L[i + 1])
          BY <1>1, <1>2, <1>5, <3>3, <4>2
        <5> QED
          BY <1>2, <1>4, <3>4, <5>1
      <4> QED
        BY <3>6, <4>1, <4>2
    <3>8. L[i + 1].sym[1] \in WeakTypes
      BY <3>7 DEF Weak
    <3> QED
      BY <2>5, <2>6, <3>8
  <2> QED
    BY <2>5, <2>6, <2>7
<1>13. r.name = Tail(L[i + 1].sym) /\ r.offset = a - here
       /\ r.size = (EndOf(A, i) - here) % AddrSpace
  BY DEF Reported, here
<1> HIDE DEF r
<1>14. /\ \E l \in IF weak = {} THEN aliases ELSE weak : r.name = l.name
       /\ r.offset = a - start
       /\ r.size = Min(above) - start
  BY <1>7, <1>11, <1>12, <1>13
<1> QED
  BY <1>14, Zenon DEF Answers, Known, known, start, below, above, r, m

\* The kernel's look-up, from the symbols listed to the interval searched.
Listing == pc \in {"optimize", "write", "ready", "search"}
Lists ==
    /\ listed = SymbolList(maps[pass])
    /\ \A i \in DOMAIN table : table[i].addr = listed[i].addr
InKernel == pass = 2 /\ out = Generated(table, best)
Searching ==
    /\ InText(maps[2], addr)
    /\ low \in Nat /\ high \in Nat /\ low < high /\ high <= Len(listed)
    /\ listed[low + 1].addr <= addr
    /\ high < Len(listed) => addr < listed[high + 1].addr
LookupIInv ==
    /\ KallsymsIInv
    /\ best[NUL] # <<NUL>>
    /\ Listing => Lists
    /\ pc \in {"ready", "search"} => InKernel
    /\ pc = "search" => Searching
    /\ pc \notin {"ready", "search"} => result = NoResult
    /\ LookupRight

\* The symbols of the second pass have one entry of kallsyms_markers, the one that is read rightly.
OneMarker == \A two \in Maps : Len(SymbolList(two[2])) <= MarkerEvery

LEMMA RightIsAnswers ==
    LookupRight <=>
      (pc = "ready" /\ result # NoResult /\ addr < Line(maps[2], EtextName).addr
         => Answers(maps[2], addr, result))
BY Zenon DEF LookupRight, Answers

\* What is listed and what is linked, before a search step or an answer.
LEMMA ListedIs ==
    ASSUME LookupIInv, pc \in {"ready", "search"}
    PROVE  /\ maps \in Maps /\ Compressing /\ pass = 2
           /\ InOrder(listed, maps[2]) /\ listed \in Seq(Entries)
           /\ \A i \in 1 .. Len(listed) : listed[i].addr \in Int
           /\ Len(listed) \in Nat /\ Len(table) = Len(listed)
           /\ out = Generated(table, best)
           /\ out.addresses = [k \in 1 .. Len(listed) |-> listed[k].addr]
           /\ listed = SymbolList(maps[2])
<1>1. /\ maps \in Maps /\ Compressing /\ pass = 2 /\ listed = SymbolList(maps[2])
      /\ out = Generated(table, best)
      /\ \A i \in DOMAIN table : table[i].addr = listed[i].addr
  BY DEF LookupIInv, KallsymsIInv, Lists, InKernel, Listing
<1>2. InOrder(listed, maps[2])
  <2>1. 2 \in 1 .. 2
    OBVIOUS
  <2> QED
    BY <1>1, <2>1, SymbolListOrder
<1>3. listed \in Seq(Entries) /\ table \in Seq(Packed) /\ DOMAIN listed = DOMAIN table
  BY <1>1, <1>2 DEF InOrder, Compressing
<1>4. Len(listed) \in Nat /\ Len(table) = Len(listed) /\ DOMAIN table = 1 .. Len(listed)
  <2>1. DOMAIN listed = 1 .. Len(listed) /\ Len(listed) \in Nat
    BY <1>3, LenProperties
  <2>2. DOMAIN table = 1 .. Len(table) /\ Len(table) \in Nat
    BY <1>3, LenProperties
  <2> DEFINE m == Len(listed)
             n == Len(table)
  <2>3. m \in Nat /\ n \in Nat /\ 1 .. m = 1 .. n
    BY <1>3, <2>1, <2>2
  <2> HIDE DEF m, n
  <2>4. m = n
    BY <2>3
  <2> QED
    BY <2>1, <2>2, <2>4 DEF m, n
<1>5. out.addresses = [k \in DOMAIN table |-> table[k].addr]
  BY <1>1 DEF Generated
<1>6. out.addresses = [k \in 1 .. Len(listed) |-> listed[k].addr]
  BY <1>1, <1>4, <1>5
<1>7. \A i \in 1 .. Len(listed) : listed[i].addr \in Int
  <2>1. \A i \in 1 .. Len(listed) : listed[i] \in Entries
    BY <1>3, ElementOfSeq
  <2> QED
    BY <2>1 DEF Entries
<1> QED
  BY <1>1, <1>2, <1>3, <1>4, <1>6, <1>7

LEMMA LookupStarts ==
    ASSUME LookupIInv, NEW a \in 0 .. AddrSpace - 1, Lookup(a)
    PROVE  LookupIInv'
<1>1. /\ pc = "ready" /\ addr' = a
      /\ UNCHANGED <<maps, pass, listed, table, best, profit, slot, out>>
  BY DEF Lookup
<1>2. /\ maps \in Maps /\ Compressing /\ pass = 2 /\ InOrder(listed, maps[2])
      /\ Len(listed) \in Nat /\ listed \in Seq(Entries) /\ out = Generated(table, best)
      /\ \A i \in 1 .. Len(listed) : listed[i].addr \in Int
      /\ out.addresses = [k \in 1 .. Len(listed) |-> listed[k].addr]
  BY <1>1, ListedIs
<1>3. KallsymsIInv'
  BY KallsymsStep DEF LookupIInv, Next
<1>4. /\ (best[NUL] # <<NUL>>)' /\ Lists' /\ InKernel'
  BY <1>1 DEF LookupIInv, Lists, InKernel, Listing
<1>5. CASE IsKernel(a)
  <2>1. /\ pc' = "search" /\ low' = 0 /\ high' = Len(out.addresses) /\ UNCHANGED result
    BY <1>5 DEF Lookup
  <2>2. InText(maps[2], a)
    BY <1>5, SizeAssumption DEF IsKernel, InText, Stext, Etext
  <2>3. PICK l \in Known(maps[2]) : l.addr <= a
    BY <1>2, <2>2, LabelsAre
  <2>4. PICK i \in 1 .. Len(listed) : EntryOf(listed[i], l)
    BY <1>2, <2>3 DEF InOrder
  <2>5. Len(listed) >= 1 /\ 1 \in 1 .. Len(listed) /\ high' = Len(listed)
    BY <1>2, <2>1, <2>4
  <2>6. listed[1].addr <= a
    <3>1. listed[i].addr <= a
      BY <2>3, <2>4 DEF EntryOf
    <3>2. listed[1].addr \in Int /\ listed[i].addr \in Int
      BY <1>2, <2>4, <2>5
    <3>3. i = 1 \/ 1 < i
      BY <2>4
    <3>4. listed[1].addr <= listed[i].addr
      <4>1. \A j, k \in 1 .. Len(listed) : j < k => listed[j].addr <= listed[k].addr
        BY <1>2 DEF InOrder
      <4>2. CASE i = 1
        BY <3>2, <4>2
      <4>3. CASE 1 < i
        BY <2>4, <2>5, <4>1, <4>3
      <4> QED
        BY <3>3, <4>2, <4>3
    <3> QED
      BY <2>2, <3>1, <3>2, <3>4 DEF InText
  <2>7. Searching'
    <3>1. InText(maps[2], addr)'
      BY <1>1, <2>2 DEF InText, Stext, Etext, Line
    <3>2. /\ low' \in Nat /\ high' \in Nat /\ low' < high' /\ high' <= Len(listed)
          /\ listed[low' + 1].addr <= a /\ ~(high' < Len(listed))
      BY <1>2, <2>1, <2>5, <2>6
    <3> QED
      BY <1>1, <3>1, <3>2 DEF Searching
  <2>8. LookupRight'
    BY <2>1 DEF LookupRight
  <2> QED
    BY <1>3, <1>4, <2>1, <2>7, <2>8 DEF LookupIInv
<1>6. CASE ~IsKernel(a)
  <2>1. result' = NoResult /\ pc' = "ready"
    BY <1>1, <1>6 DEF Lookup
  <2>2. LookupRight'
    BY <2>1 DEF LookupRight, NoResult
  <2> QED
    BY <1>3, <1>4, <2>1, <2>2 DEF LookupIInv
<1> QED
  BY <1>5, <1>6

LEMMA SearchNarrows ==
    ASSUME LookupIInv, SearchStep
    PROVE  LookupIInv'
<1> DEFINE mid == (low + high) \div 2
<1>1. /\ pc = "search" /\ high - low > 1 /\ pc' = "search"
      /\ UNCHANGED <<maps, pass, listed, table, best, profit, slot, out, addr, result>>
  BY DEF SearchStep
<1>2. /\ Len(listed) \in Nat /\ \A i \in 1 .. Len(listed) : listed[i].addr \in Int
      /\ out.addresses = [k \in 1 .. Len(listed) |-> listed[k].addr]
  BY <1>1, ListedIs
<1>3. KallsymsIInv'
  BY KallsymsStep DEF LookupIInv, Next
<1>4. /\ (best[NUL] # <<NUL>>)' /\ Lists' /\ InKernel'
  BY <1>1 DEF LookupIInv, Lists, InKernel, Listing
<1>5. LookupRight'
  BY <1>1 DEF LookupRight
<1>6. Searching
  BY <1>1 DEF LookupIInv
<1>7. /\ low \in Nat /\ high \in Nat /\ high <= Len(listed) /\ addr \in Nat
      /\ mid \in Nat /\ low < mid /\ mid < high
  BY <1>1, <1>6 DEF Searching, InText
<1>8. IF out.addresses[mid + 1] <= addr
      THEN low' = mid /\ UNCHANGED high
      ELSE high' = mid /\ UNCHANGED low
  BY DEF SearchStep
<1> HIDE DEF mid
<1>9. mid + 1 \in 1 .. Len(listed) /\ out.addresses[mid + 1] = listed[mid + 1].addr
  BY <1>2, <1>7
<1>10. listed[mid + 1].addr \in Int
  BY <1>2, <1>9
<1>11. InText(maps[2], addr)'
  BY <1>1, <1>6 DEF Searching, InText, Stext, Etext, Line
<1>12. Searching'
  <2>1. CASE listed[mid + 1].addr <= addr
    <3>1. low' = mid /\ high' = high
      BY <1>8, <1>9, <2>1
    <3>2. high < Len(listed) => addr < listed[high + 1].addr
      BY <1>6 DEF Searching
    <3> QED
      BY <1>1, <1>7, <1>11, <2>1, <3>1, <3>2 DEF Searching
  <2>2. CASE ~(listed[mid + 1].addr <= addr)
    <3>1. high' = mid /\ low' = low
      BY <1>8, <1>9, <2>2
    <3>2. listed[low + 1].addr <= addr
      BY <1>6 DEF Searching
    <3>3. addr < listed[mid + 1].addr /\ mid <= Len(listed)
      BY <1>2, <1>7, <1>10, <2>2
    <3> QED
      BY <1>1, <1>7, <1>11, <3>1, <3>2, <3>3 DEF Searching
  <2> QED
    BY <2>1, <2>2
<1> QED
  BY <1>1, <1>3, <1>4, <1>5, <1>12 DEF LookupIInv

\* The name that the kernel reads is the one listed.
LEMMA FoundName ==
    ASSUME OneMarker, LookupIInv, pc = "search"
    PROVE  KernelName(out, GetSymbolOffset(out, low)) = Tail(listed[low + 1].sym)
<1>1. /\ maps \in Maps /\ Compressing /\ Len(listed) \in Nat /\ Len(table) = Len(listed)
      /\ out = Generated(table, best) /\ listed = SymbolList(maps[2]) /\ InOrder(listed, maps[2])
  BY ListedIs
<1>2. low \in 0 .. Len(table) - 1 /\ low + 1 \in 1 .. Len(table)
  BY <1>1 DEF LookupIInv, Searching
<1>3. FirstMarkerHolds(table)
  BY <1>1 DEF OneMarker, FirstMarkerHolds
<1>4. /\ table \in Seq(Packed) /\ best \in [Codes -> Texts]
      /\ best[NUL] # <<NUL>>
  BY <1>1 DEF Compressing, LookupIInv
<1>5. PICK e \in [Codes -> Texts] : Meaning(best, table, listed, slot, e)
  BY <1>1 DEF Compressing
<1>6. PICK C : Spells(C, e, Texts)
  BY SpellsExists
<1>7. Grounded(best, e) /\ C[table[low + 1].sym] = listed[low + 1].sym
  BY <1>2, <1>4, <1>5, <1>6, LenProperties DEF Meaning
<1>8. table[low + 1].sym # <<>>
  <2>1. C[<<>>] = <<>>
    BY <1>6 DEF Spells, Follows
  <2>2. PICK l \in Known(maps[2]) : EntryOf(listed[low + 1], l)
    BY <1>1, <1>2 DEF InOrder
  <2>3. listed[low + 1] \in Entries
    <3>1. listed \in Seq(Entries)
      BY <1>1 DEF InOrder
    <3> QED
      BY <1>1, <1>2, <3>1, ElementOfSeq
  <2>4. listed[low + 1].sym # <<>>
    <3>1. l.type \in Characters /\ l.name \in Seq(Characters)
      <4> DEFINE Lines == [addr : 0 .. AddrSpace - 1, type : Characters, name : Seq(Characters)]
      <4>1. maps[2] \in Seq(Lines)
        <5>1. 2 \in 1 .. 2
          OBVIOUS
        <5> QED
          BY <1>1, <5>1, MapsAssumption, Zenon
      <4>2. \A j \in ToSet(maps[2]) : j \in Lines
        <5> HIDE DEF Lines
        <5> QED
          BY <4>1, LenProperties, ElementOfSeq DEF ToSet
      <4>3. l \in Lines
        BY <4>2 DEF Known
      <4> QED
        BY <4>3
    <3> DEFINE w == l.name
               c == l.type
    <3>2. w \in Seq(Characters) /\ c \in Characters
      BY <3>1
    <3> HIDE DEF w, c
    <3>3. <<c>> \o w # <<>>
      BY <3>2
    <3> QED
      BY <2>2, <3>3 DEF EntryOf, w, c
  <2> QED
    BY <1>7, <2>1, <2>4
<1>9. GetSymbolOffset(out, low) = EntryOffset(table, low)
  BY <1>1, <1>2, <1>3, <1>4, OffsetRight
<1>10. KernelName(out, EntryOffset(table, low)) = Tail(C[table[low + 1].sym])
  <2>1. Legible(table, best, e, C, low)
    BY <1>2, <1>4, <1>6, <1>7, <1>8, Zenon DEF Legible
  <2>2. out = Generated(table, best)
    BY <1>1
  <2>3. KernelName(Generated(table, best), EntryOffset(table, low)) = Tail(C[table[low + 1].sym])
    BY <2>1, NameRight
  <2> QED
    BY <2>2, <2>3
<1> QED
  BY <1>7, <1>9, <1>10

LEMMA FoundAnswers ==
    ASSUME OneMarker, LookupIInv, Found
    PROVE  LookupIInv'
<1>1. /\ pc = "search" /\ high - low <= 1 /\ pc' = "ready"
      /\ UNCHANGED <<maps, pass, listed, table, best, profit, slot, out, addr, low, high>>
  BY DEF Found
<1>2. /\ maps \in Maps /\ Len(listed) \in Nat /\ InOrder(listed, maps[2])
      /\ out.addresses = [k \in 1 .. Len(listed) |-> listed[k].addr]
  BY <1>1, ListedIs
<1>3. KallsymsIInv'
  BY KallsymsStep DEF LookupIInv, Next
<1>4. /\ (best[NUL] # <<NUL>>)' /\ Lists' /\ InKernel'
  BY <1>1 DEF LookupIInv, Lists, InKernel, Listing
<1>5. Searching
  BY <1>1 DEF LookupIInv
<1> DEFINE A == out.addresses
<1>6. result' = Reported(A, listed, addr, low)
  <2>1. KernelName(out, GetSymbolOffset(out, low)) = Tail(listed[low + 1].sym)
    BY <1>1, FoundName
  <2>2. result' = [name |-> KernelName(out, GetSymbolOffset(out, low)),
                   offset |-> addr - A[low + 1],
                   size |-> (EndOf(A, low) - A[low + 1]) % AddrSpace]
    BY Zenon DEF Found, EndOf
  <2> QED
    BY <2>1, <2>2 DEF Reported
<1>7. EndsAt(listed, A, addr, low)
  <2>1. /\ low \in Nat /\ high = low + 1 /\ high <= Len(listed)
        /\ listed[low + 1].addr <= addr
        /\ high < Len(listed) => addr < listed[high + 1].addr
    BY <1>1, <1>5 DEF Searching
  <2>2. high + 1 = low + 2 /\ low \in 0 .. Len(listed) - 1
    BY <1>2, <2>1
  <2> HIDE DEF A
  <2>3. low + 1 < Len(listed) => addr < listed[low + 2].addr
    BY <2>1, <2>2
  <2> QED
    BY <1>2, <2>1, <2>2, <2>3 DEF EndsAt, A
<1>8. InText(maps[2], addr)
  BY <1>5 DEF Searching
<1> HIDE DEF A
<1>9. addr < Line(maps[2], EtextName).addr => Answers(maps[2], addr, result')
  BY <1>2, <1>6, <1>7, <1>8, LastIsAnswer DEF Etext
<1>10. LookupRight'
  <2>1. maps' = maps /\ addr' = addr
    BY <1>1
  <2> QED
    BY <1>9, <2>1, Zenon DEF LookupRight, Answers
<1> QED
  BY <1>1, <1>3, <1>4, <1>10 DEF LookupIInv

LEMMA LookupInit == Init => LookupIInv
<1> SUFFICES ASSUME Init PROVE LookupIInv
  OBVIOUS
<1>1. KallsymsIInv
  BY KallsymsInit
<1>2. pc = "read" /\ best = [c \in Codes |-> <<>>] /\ NUL \in Codes
  BY SizeAssumption DEF Init, Codes, NUL
<1>3. best[NUL] # <<NUL>>
  BY <1>2
<1> QED
  BY <1>1, <1>2, <1>3 DEF LookupIInv, Listing, LookupRight, Init

LEMMA LookupStep ==
    ASSUME OneMarker, LookupIInv, [Next]_vars
    PROVE  LookupIInv'
<1>1. KallsymsIInv /\ KallsymsIInv' /\ best[NUL] # <<NUL>>
  BY KallsymsStep DEF LookupIInv
<1>2. CASE UNCHANGED vars
  <2>1. UNCHANGED <<pc, maps, pass, listed, table, best, out, addr, low, high, result>>
    BY <1>2 DEF vars
  <2>2. InText(maps[2], addr) => InText(maps[2], addr)'
    BY <2>1 DEF InText, Stext, Etext, Line
  <2>3. LookupRight'
    BY <2>1, Zenon DEF LookupIInv, LookupRight
  <2> QED
    BY <1>1, <2>1, <2>2, <2>3 DEF LookupIInv, Listing, Lists, InKernel, Searching
<1>3. CASE ReadMap
  <2>1. /\ pc = "read" /\ pc' = "optimize" /\ table' = SymbolList(maps[pass]) /\ listed' = table'
        /\ slot' = NrCodes - 1 /\ maps' = maps /\ pass' = pass /\ result' = result
    BY <1>3 DEF ReadMap
  <2>2. Compressing'
    BY <1>1, <2>1 DEF KallsymsIInv
  <2>3. best'[NUL] = <<>>
    <3>1. NrCodes - 1 >= 0
      BY SizeAssumption
    <3> QED
      BY <2>1, <2>2, <3>1 DEF Compressing
  <2>4. best'[NUL] # <<NUL>>
    BY <2>3
  <2>5. Lists'
    BY <2>1 DEF Lists
  <2> QED
    BY <1>1, <2>1, <2>4, <2>5 DEF LookupIInv, LookupRight
<1>4. CASE SlotTaken
  BY <1>1, <1>4 DEF LookupIInv, SlotTaken, Listing, Lists, LookupRight, NoResult
<1>5. CASE PlaceToken
  <2>1. /\ pc = "optimize" /\ UNCHANGED <<pc, maps, pass, listed, result>>
        /\ Compressing
    BY <1>1, <1>5 DEF PlaceToken, KallsymsIInv
  <2>2. PICK token \in {FindBestToken(profit)} :
          /\ best' = [best EXCEPT ![slot] = token]
          /\ table' = [i \in DOMAIN table |->
                         [table[i] EXCEPT !.sym = CompressSym(@, token, slot)]]
    BY <1>5 DEF PlaceToken
  <2>3. best'[NUL] # <<NUL>>
    <3>1. token \in Pairs
      BY <2>1, <2>2, BestTokenIsPair DEF Compressing
    <3>2. token # <<NUL>>
      BY <3>1 DEF Pairs
    <3>3. NUL \in DOMAIN best
      BY <2>1, SizeAssumption DEF Compressing, Codes, NUL
    <3> QED
      BY <1>1, <2>2, <3>2, <3>3
  <2>4. Lists'
    <3>1. listed = SymbolList(maps[pass]) /\ \A i \in DOMAIN table : table[i].addr = listed[i].addr
      BY <2>1 DEF LookupIInv, Listing, Lists
    <3>2. ASSUME NEW i \in DOMAIN table PROVE table'[i].addr = table[i].addr
      <4>1. table[i] \in Packed
        BY <2>1, ElementOfSeq, LenProperties DEF Compressing
      <4>2. table'[i] = [table[i] EXCEPT !.sym = CompressSym(@, token, slot)]
        BY <2>2
      <4> QED
        BY <4>1, <4>2 DEF Packed
    <3>3. DOMAIN table' = DOMAIN table
      BY <2>2
    <3> QED
      BY <2>1, <3>1, <3>2, <3>3 DEF Lists
  <2> QED
    BY <1>1, <2>1, <2>3, <2>4 DEF LookupIInv, LookupRight
<1>6. CASE OptimizeEnd
  BY <1>1, <1>6 DEF LookupIInv, OptimizeEnd, Listing, Lists, LookupRight
<1>7. CASE WriteSrc
  <2>1. /\ pc = "write" /\ out' = Generated(table, best)
        /\ UNCHANGED <<maps, listed, table, best, result>>
        /\ pass \in 1 .. 2
    BY <1>1, <1>7 DEF WriteSrc, KallsymsIInv
  <2>2. Lists
    BY <2>1 DEF LookupIInv, Listing
  <2>3. CASE pass = 1
    <3>1. pc' = "read"
      BY <1>7, <2>3 DEF WriteSrc
    <3> QED
      BY <1>1, <2>1, <3>1 DEF LookupIInv, Listing, LookupRight
  <2>4. CASE pass # 1
    <3>1. pc' = "ready" /\ pass' = pass /\ pass = 2
      BY <1>7, <2>1, <2>4 DEF WriteSrc
    <3>2. Lists' /\ InKernel'
      BY <2>1, <2>2, <3>1 DEF Lists, InKernel, Generated
    <3>3. LookupRight'
      BY <2>1 DEF LookupIInv, LookupRight, NoResult
    <3> QED
      BY <1>1, <2>1, <3>1, <3>2, <3>3 DEF LookupIInv
  <2> QED
    BY <2>3, <2>4
<1>8. ASSUME NEW a \in 0 .. AddrSpace - 1, Lookup(a) PROVE LookupIInv'
  BY <1>8, LookupStarts
<1>9. CASE SearchStep
  BY <1>9, SearchNarrows
<1>10. CASE Found
  BY <1>10, FoundAnswers
<1> QED
  BY <1>2, <1>3, <1>4, <1>5, <1>6, <1>7, <1>8, <1>9, <1>10 DEF Next

\* kallsyms_lookup answers for every address of the text, whatever the map of
\* the second link and the compression, as long as its symbols have one marker:
\* the function with the greatest address not above it, the weakest of its
\* aliases, the offset and the size.  With more symbols get_symbol_offset reads
\* the wrong word of kallsyms_markers.
THEOREM LookupFindsSymbols ==
    ASSUME OneMarker
    PROVE  Spec => []LookupRight
<1>1. LookupIInv /\ [Next]_vars => LookupIInv'
  BY LookupStep
<1>2. LookupIInv => LookupRight
  BY DEF LookupIInv
<1> QED
  BY <1>1, <1>2, LookupInit, PTL DEF Spec

-----------------------------------------------------------------------------
(* Both passes list the same symbols.                                      *)

\* The places of a set of numbers are 0, 1, 2 and so on, in order.
LEMMA PlacesAre ==
    ASSUME NEW N \in SUBSET Nat, IsFiniteSet(N)
    PROVE  /\ Cardinality(N) \in Nat
           /\ \A j \in N : PlaceIn(N, j) \in 0 .. Cardinality(N) - 1
           /\ \A i, j \in N : i < j => PlaceIn(N, i) < PlaceIn(N, j)
           /\ \A p \in 0 .. Cardinality(N) - 1 : \E j \in N : PlaceIn(N, j) = p
<1> DEFINE n == Cardinality(N)
           T == 0 .. n - 1
           Lower(j) == {k \in N : k < j}
           r == [j \in N |-> PlaceIn(N, j)]
<1>1. n \in Nat
  BY FS_CardinalityType
<1>2. ASSUME NEW j \in N
      PROVE  /\ IsFiniteSet(Lower(j)) /\ PlaceIn(N, j) \in Nat /\ PlaceIn(N, j) < n
             /\ PlaceIn(N, j) = Cardinality(Lower(j))
  <2>1. PlaceIn(N, j) = Cardinality(Lower(j))
    BY DEF PlaceIn
  <2>2. Lower(j) \in SUBSET N /\ j \notin Lower(j)
    OBVIOUS
  <2> HIDE DEF Lower
  <2>3. /\ IsFiniteSet(Lower(j)) /\ Cardinality(Lower(j)) <= n
        /\ Cardinality(Lower(j)) # n
    BY <2>2, FS_Subset
  <2> QED
    BY <1>1, <2>1, <2>3, FS_CardinalityType
<1>3. ASSUME NEW i \in N, NEW j \in N, i < j
      PROVE  PlaceIn(N, i) < PlaceIn(N, j)
  <2>1. Lower(i) \in SUBSET Lower(j) /\ i \in Lower(j) /\ i \notin Lower(i)
    <3>1. \A k \in N : k \in Nat
      OBVIOUS
    <3>2. /\ \A k \in N : k < i => k < j
          /\ ~(i < i)
      BY <1>3, <3>1
    <3>3. \A k \in Lower(i) : k \in Lower(j)
      BY <3>2
    <3>4. i \in Lower(j) /\ i \notin Lower(i)
      BY <1>3, <3>2
    <3> QED
      BY <3>3, <3>4
  <2> HIDE DEF Lower
  <2>2. /\ Cardinality(Lower(i)) <= Cardinality(Lower(j))
        /\ Cardinality(Lower(i)) # Cardinality(Lower(j))
    BY <1>2, <2>1, FS_Subset
  <2> QED
    BY <1>2, <2>2
<1> HIDE DEF Lower
<1>4. r \in [N -> T] /\ \A j \in N : r[j] = PlaceIn(N, j) /\ r[j] \in T
  BY <1>1, <1>2
<1>5. \A i, j \in N : r[i] = r[j] => i = j
  <2> SUFFICES ASSUME NEW i \in N, NEW j \in N, i # j PROVE r[i] # r[j]
    OBVIOUS
  <2>1. i < j \/ j < i
    OBVIOUS
  <2> QED
    BY <1>2, <1>3, <1>4, <2>1
<1>6. IsFiniteSet(T) /\ Cardinality(T) = n
  <2> HIDE DEF n
  <2> QED
    BY <1>1, FS_Interval
<1> HIDE DEF r, T, n
<1>7. r \in Injection(N, T)
  BY <1>4, <1>5, Fun_IsInj
<1>8. r \in Surjection(N, T)
  BY <1>6, <1>7, FS_Injection DEF n
<1>9. \A p \in T : \E j \in N : r[j] = p
  BY <1>8, Fun_SurjectionProperties
<1> QED
  BY <1>1, <1>3, <1>4, <1>9 DEF n, T

\* g takes the entries of S to those of T and keeps their order.
SameOrder(g, S, T) ==
    /\ g \in [S -> T] /\ \A t \in T : \E s \in S : g[s] = t
    /\ \A a, b \in S : SortsBefore(a, b) <=> SortsBefore(g[a], g[b])

LEMMA SameSorted ==
    ASSUME NEW S, Distinct(S), NEW T, Distinct(T), NEW g, SameOrder(g, S, T)
    PROVE  /\ Len(Sorted(S)) = Len(Sorted(T)) /\ Len(Sorted(S)) \in Nat
           /\ \A i \in 1 .. Len(Sorted(S)) : Sorted(S)[i] \in S /\ Sorted(T)[i] = g[Sorted(S)[i]]
<1>1. /\ g \in [S -> T] /\ \A t \in T : \E s \in S : g[s] = t
      /\ \A a, b \in S : SortsBefore(a, b) <=> SortsBefore(g[a], g[b])
  BY DEF SameOrder
<1>2. /\ S \in SUBSET Entries /\ IsFiniteSet(S) /\ \A a, b \in S : a # b => a.pos # b.pos
      /\ T \in SUBSET Entries /\ IsFiniteSet(T)
  BY DEF Distinct
<1>3. \A a, b \in S : g[a] = g[b] => a = b
  <2> SUFFICES ASSUME NEW a \in S, NEW b \in S, a # b PROVE g[a] # g[b]
    OBVIOUS
  <2>1. SortsBefore(a, b) \/ SortsBefore(b, a)
    BY <1>2, SortsBeforeOrders
  <2>2. SortsBefore(g[a], g[b]) \/ SortsBefore(g[b], g[a])
    BY <1>1, <2>1
  <2>3. g[a] \in Entries
    BY <1>1, <1>2
  <2> QED
    BY <2>2, <2>3, SortsBeforeOrders
<1>4. Cardinality(T) = Cardinality(S)
  <2>1. g \in Bijection(S, T)
    BY <1>1, <1>3, Fun_IsBij
  <2>2. ExistsBijection(S, T)
    BY <2>1 DEF ExistsBijection
  <2> QED
    BY <1>2, <2>2, FS_Bijection
<1>5. ASSUME NEW s \in S
      PROVE  Cardinality(Below(T, g[s])) = Cardinality(Below(S, s))
  <2> DEFINE A == Below(S, s)
             B == Below(T, g[s])
             h == [x \in A |-> g[x]]
  <2>1. A \in SUBSET S /\ IsFiniteSet(A)
    BY <1>2, FS_Subset DEF Below
  <2>2. h \in [A -> B] /\ \A x \in A : h[x] = g[x]
    BY <1>1, <2>1 DEF Below
  <2>3. \A a, b \in A : h[a] = h[b] => a = b
    BY <1>3, <2>1, <2>2
  <2>4. ASSUME NEW t \in B PROVE \E x \in A : h[x] = t
    <3>1. t \in T /\ SortsBefore(t, g[s])
      BY DEF Below
    <3>2. PICK x \in S : g[x] = t
      BY <1>1, <3>1
    <3>3. x \in A
      BY <1>1, <3>1, <3>2 DEF Below
    <3> QED
      BY <2>2, <3>2, <3>3
  <2> HIDE DEF A, B, h
  <2>5. h \in Bijection(A, B)
    BY <2>2, <2>3, <2>4, Fun_IsBij
  <2>6. ExistsBijection(A, B)
    BY <2>5 DEF ExistsBijection
  <2> QED
    BY <2>1, <2>6, FS_Bijection DEF A, B
<1>6. /\ Cardinality(S) \in Nat
      /\ Len(Sorted(S)) = Cardinality(S) /\ Len(Sorted(T)) = Cardinality(T)
      /\ \A i \in 1 .. Cardinality(S) :
           Sorted(S)[i] \in S /\ Cardinality(Below(S, Sorted(S)[i])) = i - 1
      /\ \A i \in 1 .. Cardinality(T) :
           Sorted(T)[i] \in T /\ Cardinality(Below(T, Sorted(T)[i])) = i - 1
      /\ \A s, t \in T : s # t => Cardinality(Below(T, s)) # Cardinality(Below(T, t))
  BY SortedRanks
<1>7. ASSUME NEW i \in 1 .. Len(Sorted(S)) PROVE Sorted(T)[i] = g[Sorted(S)[i]]
  <2> DEFINE a == Sorted(S)[i]
             b == Sorted(T)[i]
  <2>1. /\ a \in S /\ Cardinality(Below(S, a)) = i - 1
        /\ b \in T /\ Cardinality(Below(T, b)) = i - 1
    BY <1>4, <1>6
  <2> HIDE DEF a, b
  <2>2. g[a] \in T /\ Cardinality(Below(T, g[a])) = i - 1
    BY <1>1, <1>5, <2>1
  <2>3. b = g[a]
    BY <1>6, <2>1, <2>2
  <2> QED
    BY <2>3 DEF a, b
<1> QED
  BY <1>4, <1>6, <1>7

\* The lines of the first link, in the second.
Lasting(f, one, two) ==
    /\ f \in [Own(one) -> Own(two)] /\ \A j \in Own(two) : \E i \in Own(one) : f[i] = j
    /\ \A i, j \in Own(one) : i < j => f[i] < f[j]
    /\ \A i \in Own(one) : Relinked(one, two, one[i], two[f[i]])

LEMMA LinesLast ==
    ASSUME NEW both \in Maps
    PROVE  \E f : Lasting(f, both[1], both[2])
<1> DEFINE one == both[1]
           two == both[2]
           A == Own(one)
           B == Own(two)
           n == Cardinality(A)
<1>1. Len(one) \in Nat /\ Len(two) \in Nat
  <2>1. 1 \in 1 .. 2 /\ 2 \in 1 .. 2
    OBVIOUS
  <2> QED
    BY <2>1, ChosenDistinct, Zenon
<1>2. /\ A \in SUBSET Nat /\ IsFiniteSet(A) /\ B \in SUBSET Nat /\ IsFiniteSet(B)
  <2>1. /\ A \in SUBSET (1 .. Len(one)) /\ IsFiniteSet(1 .. Len(one))
        /\ B \in SUBSET (1 .. Len(two)) /\ IsFiniteSet(1 .. Len(two))
    <3>1. A \in SUBSET (1 .. Len(one)) /\ B \in SUBSET (1 .. Len(two))
      BY DEF Own
    <3>2. \A k \in Nat : IsFiniteSet(1 .. k)
      BY FS_Interval
    <3> QED
      BY <1>1, <3>1, <3>2
  <2>2. IsFiniteSet(A) /\ IsFiniteSet(B)
    BY <2>1, FS_Subset
  <2> QED
    BY <2>1, <2>2
<1>3. /\ Cardinality(B) = n
      /\ \A i \in A, j \in B : PlaceIn(A, i) = PlaceIn(B, j) => Relinked(one, two, one[i], two[j])
  BY RelinkAssumption, Zenon
<1> HIDE DEF A, B, one, two
<1>4. /\ n \in Nat
      /\ \A j \in A : PlaceIn(A, j) \in 0 .. n - 1
      /\ \A i, j \in A : i < j => PlaceIn(A, i) < PlaceIn(A, j)
      /\ \A p \in 0 .. n - 1 : \E j \in A : PlaceIn(A, j) = p
  BY <1>2, PlacesAre
<1>5. /\ \A j \in B : PlaceIn(B, j) \in 0 .. n - 1
      /\ \A i, j \in B : i < j => PlaceIn(B, i) < PlaceIn(B, j)
      /\ \A p \in 0 .. n - 1 : \E j \in B : PlaceIn(B, j) = p
  BY <1>2, <1>3, PlacesAre, Zenon
<1> HIDE DEF n
<1> DEFINE f == [i \in A |-> CHOOSE j \in B : PlaceIn(B, j) = PlaceIn(A, i)]
<1>6. f \in [A -> B] /\ \A i \in A : f[i] \in B /\ PlaceIn(B, f[i]) = PlaceIn(A, i)
  BY <1>4, <1>5
<1> HIDE DEF f
<1>7. \A i, j \in B : PlaceIn(B, i) = PlaceIn(B, j) => i = j
  <2> SUFFICES ASSUME NEW i \in B, NEW j \in B, i # j PROVE PlaceIn(B, i) # PlaceIn(B, j)
    OBVIOUS
  <2>1. i \in Nat /\ j \in Nat /\ PlaceIn(B, i) \in Int /\ PlaceIn(B, j) \in Int
    BY <1>2, <1>5
  <2>2. i < j \/ j < i
    BY <2>1
  <2> QED
    BY <1>5, <2>1, <2>2
<1>8. \A j \in B : \E i \in A : f[i] = j
  <2> TAKE j \in B
  <2>1. PICK i \in A : PlaceIn(A, i) = PlaceIn(B, j)
    BY <1>4, <1>5
  <2> QED
    BY <1>6, <1>7, <2>1
<1>9. ASSUME NEW i \in A, NEW j \in A, i < j PROVE f[i] < f[j]
  <2>1. /\ PlaceIn(B, f[i]) < PlaceIn(B, f[j]) /\ f[i] \in B /\ f[j] \in B
        /\ PlaceIn(B, f[i]) \in Int /\ PlaceIn(B, f[j]) \in Int
    BY <1>4, <1>5, <1>6, <1>9
  <2>2. f[i] \in Nat /\ f[j] \in Nat
    BY <1>2, <2>1
  <2>3. ~(f[j] < f[i]) /\ f[i] # f[j]
    BY <1>5, <2>1
  <2> QED
    BY <2>2, <2>3
<1>10. \A i \in A : Relinked(one, two, one[i], two[f[i]])
  BY <1>3, <1>6
<1>11. Lasting(f, one, two)
  BY <1>6, <1>8, <1>9, <1>10 DEF Lasting, A, B
<1> QED
  BY <1>11 DEF one, two

LEMMA LabelsLast ==
    ASSUME NEW both \in Maps, NEW f, Lasting(f, both[1], both[2]), NEW n \in {StextName, EtextName}
    PROVE  /\ Line(both[1], n).addr = Line(both[2], n).addr
           /\ Line(both[1], n).addr \in Nat
<1> DEFINE one == both[1]
           two == both[2]
           Lines == [addr : 0 .. AddrSpace - 1, type : Characters, name : Seq(Characters)]
           l == Line(one, n)
<1>1. /\ DOMAIN one = 1 .. Len(one) /\ DOMAIN two = 1 .. Len(two)
      /\ \A j \in 1 .. Len(one) : one[j] \in Lines
  <2>1. 1 \in 1 .. 2 /\ 2 \in 1 .. 2
    OBVIOUS
  <2> QED
    BY <2>1, ChosenDistinct, Zenon
<1>2. \E k \in ToSet(one) : k.name = n
  <2>1. 1 \in 1 .. 2 /\ n \in {StextName, EtextName, TextName}
    OBVIOUS
  <2>2. \A k \in 1 .. 2 : \A x \in {StextName, EtextName, TextName} :
          \E j \in ToSet(both[k]) : j.name = x
    BY MapsAssumption, Zenon
  <2> QED
    BY <2>1, <2>2, Zenon
<1>3. \A k \in ToSet(two) : k.name = n => k = Line(two, n)
  BY RelinkAssumption, Zenon
<1>4. n \notin Excluded
  BY LabelsAssumption, Zenon
<1> HIDE DEF one, two, Lines
<1>5. l \in ToSet(one) /\ l.name = n
  BY <1>2, Zenon DEF Line
<1> HIDE DEF l
<1>6. PICK i \in 1 .. Len(one) : one[i] = l
  BY <1>1, <1>5 DEF ToSet
<1>7. i \in Own(one)
  BY <1>4, <1>5, <1>6 DEF Own
<1>8. f[i] \in Own(two) /\ Relinked(one, two, one[i], two[f[i]])
  BY <1>7 DEF Lasting, one, two
<1>9. two[f[i]] \in ToSet(two)
  BY <1>1, <1>8 DEF Own, ToSet
<1>10. two[f[i]].name = n /\ two[f[i]].addr = l.addr
  BY <1>5, <1>6, <1>8 DEF Relinked
<1>11. two[f[i]] = Line(two, n)
  BY <1>3, <1>9, <1>10
<1>12. l.addr \in Nat
  <2>1. l \in Lines
    BY <1>1, <1>6
  <2>2. \A k \in Lines : k.addr \in Nat
    BY SizeAssumption DEF Lines
  <2> QED
    BY <2>1, <2>2
<1> QED
  BY <1>10, <1>11, <1>12 DEF l, one, two

\* What is listed of the first link is listed of the second.
LEMMA ValidLasts ==
    ASSUME NEW both \in Maps, NEW f, Lasting(f, both[1], both[2]),
           NEW i \in Own(both[1])
    PROVE  /\ f[i] \in Own(both[2])
           /\ i \in Kept(both[1]) <=> f[i] \in Kept(both[2])
           /\ i \in Kept(both[1]) =>
                /\ both[1][i].addr = both[2][f[i]].addr
                /\ both[1][i].type = both[2][f[i]].type /\ both[1][i].name = both[2][f[i]].name
<1> DEFINE one == both[1]
           two == both[2]
           a == one[i]
           b == two[f[i]]
           s == Line(one, StextName).addr
           e == Line(one, EtextName).addr
<1>1. f[i] \in Own(two) /\ Relinked(one, two, a, b)
  BY DEF Lasting
<1>2. /\ s \in Nat /\ e \in Nat
      /\ Line(two, StextName).addr = s /\ Line(two, EtextName).addr = e
  BY LabelsLast
<1>3. i \in 1 .. Len(one) /\ f[i] \in 1 .. Len(two)
  BY <1>1 DEF Own
<1>4. a.addr \in Nat /\ b.addr \in Nat
  <2> DEFINE Lines == [addr : 0 .. AddrSpace - 1, type : Characters, name : Seq(Characters)]
  <2>1. 1 \in 1 .. 2 /\ 2 \in 1 .. 2
    OBVIOUS
  <2>2. (\A j \in 1 .. Len(one) : one[j] \in Lines) /\ (\A j \in 1 .. Len(two) : two[j] \in Lines)
    BY <2>1, ChosenDistinct, Zenon
  <2>3. \A k \in Lines : k.addr \in Nat
    BY SizeAssumption
  <2> HIDE DEF Lines, one, two
  <2> QED
    BY <1>3, <2>2, <2>3
<1> HIDE DEF one, two, a, b, s, e
<1>5. /\ TextRanges(one) = {<<s, e>>, <<0, 0>>}
      /\ TextRanges(two) = {<<s, e>>, <<0, 0>>}
  BY <1>2 DEF TextRanges, s, e
<1> DEFINE In(l) == /\ (s <= l.addr /\ l.addr <= e) \/ (0 <= l.addr /\ l.addr <= 0)
                    /\ l.addr = e => l.name = EtextName
                    /\ l.addr # 0
                    /\ l.name \notin Excluded
<1>6. \A l : (Valid(one, l) <=> In(l)) /\ (Valid(two, l) <=> In(l))
  <2>1. \A l : (\E r \in {<<s, e>>, <<0, 0>>} : r[1] <= l.addr /\ l.addr <= r[2])
                 <=> (s <= l.addr /\ l.addr <= e) \/ (0 <= l.addr /\ l.addr <= 0)
    OBVIOUS
  <2>2. Line(one, EtextName).addr = e /\ Line(two, EtextName).addr = e
    BY <1>2 DEF e
  <2> QED
    BY <1>5, <2>1, <2>2, Zenon DEF Valid
<1>7. a.name = b.name /\ a.type = b.type
  BY <1>1 DEF Relinked
<1>8. Readable(a) <=> Readable(b)
  BY <1>7, Zenon DEF Readable
<1>9. a.addr = b.addr \/ (a.addr >= e /\ b.addr >= e /\ a.name # EtextName)
  BY <1>1, <1>2 DEF Relinked, e
<1>10. In(a) <=> In(b)
  BY <1>2, <1>4, <1>7, <1>9
<1>11. In(a) => a.addr = b.addr
  BY <1>2, <1>4, <1>7, <1>9
<1> HIDE DEF In
<1>12. i \in Kept(one) <=> Readable(a) /\ In(a)
  BY <1>3, <1>6 DEF Kept, a
<1>13. f[i] \in Kept(two) <=> Readable(b) /\ In(b)
  BY <1>3, <1>6 DEF Kept, b
<1> QED
  BY <1>1, <1>7, <1>8, <1>10, <1>11, <1>12, <1>13 DEF a, b, one, two

LEMMA KeptIsOwn ==
    \A m : Kept(m) \in SUBSET Own(m)
BY DEF Kept, Own, Valid

LEMMA SameKeys ==
    ASSUME NEW a, NEW b, a.addr = b.addr, a.sym = b.sym
    PROVE  Weak(a) = Weak(b) /\ Provided(a) = Provided(b) /\ Underscores(a) = Underscores(b)
BY Zenon DEF Weak, Provided, Underscores

LEMMA ChosenLast ==
    ASSUME NEW both \in Maps
    PROVE  \E g : /\ SameOrder(g, Chosen(both[1]), Chosen(both[2]))
                  /\ \A s \in Chosen(both[1]) : g[s].addr = s.addr /\ g[s].sym = s.sym
<1> DEFINE one == both[1]
           two == both[2]
           S == Chosen(one)
           T == Chosen(two)
<1>1. PICK f : Lasting(f, one, two)
  BY LinesLast
<1>2. /\ f \in [Own(one) -> Own(two)] /\ \A j \in Own(two) : \E i \in Own(one) : f[i] = j
      /\ \A i, j \in Own(one) : i < j => f[i] < f[j]
  BY <1>1, Zenon DEF Lasting
<1>3. /\ Distinct(S) /\ Distinct(T)
      /\ \A j \in Kept(one) : EntryOfLine(one, j) \in Entries /\ EntryOfLine(one, j).pos = j
      /\ \A j \in Kept(two) : EntryOfLine(two, j) \in Entries /\ EntryOfLine(two, j).pos = j
      /\ Own(one) \in SUBSET Nat /\ Own(two) \in SUBSET Nat
  <2>1. 1 \in 1 .. 2 /\ 2 \in 1 .. 2
    OBVIOUS
  <2>2. Own(one) \in SUBSET Nat /\ Own(two) \in SUBSET Nat
    <3>1. Len(one) \in Nat /\ Len(two) \in Nat
      BY <2>1, ChosenDistinct, Zenon
    <3> QED
      BY <3>1 DEF Own
  <2>3. /\ Distinct(S)
        /\ \A j \in Kept(one) : EntryOfLine(one, j) \in Entries /\ EntryOfLine(one, j).pos = j
    <3>1. Distinct(S)
      BY <2>1, ChosenDistinct
    <3>2. ASSUME NEW j \in Kept(one)
          PROVE  EntryOfLine(one, j) \in Entries /\ EntryOfLine(one, j).pos = j
      BY <2>1, KeptEntries, Zenon
    <3> QED
      BY <3>1, <3>2
  <2>4. /\ Distinct(T)
        /\ \A j \in Kept(two) : EntryOfLine(two, j) \in Entries /\ EntryOfLine(two, j).pos = j
    <3>1. Distinct(T)
      BY <2>1, ChosenDistinct
    <3>2. ASSUME NEW j \in Kept(two)
          PROVE  EntryOfLine(two, j) \in Entries /\ EntryOfLine(two, j).pos = j
      BY <2>1, KeptEntries, Zenon
    <3> QED
      BY <3>1, <3>2
  <2> QED
    BY <2>2, <2>3, <2>4, Zenon
<1>4. ASSUME NEW i \in Own(one)
      PROVE  /\ f[i] \in Own(two)
             /\ i \in Kept(one) <=> f[i] \in Kept(two)
             /\ i \in Kept(one) =>
                  /\ one[i].addr = two[f[i]].addr
                  /\ one[i].type = two[f[i]].type /\ one[i].name = two[f[i]].name
  BY <1>1, ValidLasts, Zenon
<1>5. Kept(one) \in SUBSET Own(one) /\ Kept(two) \in SUBSET Own(two)
  BY KeptIsOwn, Zenon
<1> HIDE DEF one, two
<1> DEFINE g == [s \in S |-> EntryOfLine(two, f[s.pos])]
<1>6. ASSUME NEW i \in Kept(one)
      PROVE  /\ EntryOfLine(one, i) \in S /\ EntryOfLine(two, f[i]) \in T /\ f[i] \in Kept(two)
             /\ EntryOfLine(one, i).pos = i /\ EntryOfLine(two, f[i]).pos = f[i]
             /\ EntryOfLine(two, f[i]).addr = EntryOfLine(one, i).addr
             /\ EntryOfLine(two, f[i]).sym = EntryOfLine(one, i).sym
  <2>1. f[i] \in Kept(two) /\ i \in Own(one)
    BY <1>4, <1>5
  <2>2. EntryOfLine(one, i) \in S /\ EntryOfLine(two, f[i]) \in T
    BY <2>1 DEF Chosen
  <2>3. /\ EntryOfLine(two, f[i]).addr = EntryOfLine(one, i).addr
        /\ EntryOfLine(two, f[i]).sym = EntryOfLine(one, i).sym
    BY <1>4, <2>1 DEF EntryOfLine
  <2> QED
    BY <1>3, <2>1, <2>2, <2>3
<1>7. ASSUME NEW s \in S
      PROVE  \E i \in Kept(one) : s = EntryOfLine(one, i) /\ g[s] = EntryOfLine(two, f[i])
  <2>1. PICK i \in Kept(one) : s = EntryOfLine(one, i)
    BY DEF Chosen
  <2>2. s.pos = i
    BY <1>6, <2>1
  <2> QED
    BY <2>1, <2>2
<1> HIDE DEF g, S, T
<1>8. \A s \in S : /\ g[s] \in T /\ g[s].addr = s.addr /\ g[s].sym = s.sym
                   /\ s.pos \in Own(one) /\ g[s].pos = f[s.pos]
  BY <1>5, <1>6, <1>7
<1>9. g \in [S -> T]
  <2>1. g = [s \in S |-> g[s]]
    BY DEF g
  <2> QED
    BY <1>8, <2>1
<1>10. \A t \in T : \E s \in S : g[s] = t
  <2> TAKE t \in T
  <2>1. PICK j \in Kept(two) : t = EntryOfLine(two, j)
    BY DEF T, Chosen
  <2>2. PICK i \in Own(one) : f[i] = j
    BY <1>2, <1>5, <2>1
  <2>3. i \in Kept(one)
    BY <1>4, <2>1, <2>2
  <2>4. EntryOfLine(one, i) \in S
    BY <1>6, <2>3
  <2>5. g[EntryOfLine(one, i)] = t
    <3> DEFINE s == EntryOfLine(one, i)
    <3>1. PICK k \in Kept(one) : s = EntryOfLine(one, k) /\ g[s] = EntryOfLine(two, f[k])
      BY <1>7, <2>4
    <3>2. k = i
      BY <1>6, <2>3, <3>1
    <3> QED
      BY <2>1, <2>2, <3>1, <3>2
  <2> QED
    BY <2>4, <2>5
<1>11. ASSUME NEW a \in S, NEW b \in S
       PROVE  SortsBefore(a, b) <=> SortsBefore(g[a], g[b])
  <2> DEFINE c == g[a]
             d == g[b]
  <2>1. /\ c \in T /\ c.addr = a.addr /\ c.sym = a.sym
        /\ d \in T /\ d.addr = b.addr /\ d.sym = b.sym
        /\ a.pos \in Own(one) /\ b.pos \in Own(one) /\ c.pos = f[a.pos] /\ d.pos = f[b.pos]
    BY <1>8
  <2>2. a \in Entries /\ b \in Entries /\ c \in Entries /\ d \in Entries
    BY <1>3, <2>1 DEF Distinct
  <2> HIDE DEF c, d
  <2>3. /\ Weak(c) = Weak(a) /\ Provided(c) = Provided(a) /\ Underscores(c) = Underscores(a)
        /\ Weak(d) = Weak(b) /\ Provided(d) = Provided(b) /\ Underscores(d) = Underscores(b)
    BY <2>1, SameKeys
  <2>4. a.pos < b.pos <=> c.pos < d.pos
    <3>1. f[a.pos] \in Nat /\ f[b.pos] \in Nat /\ a.pos \in Nat /\ b.pos \in Nat
      BY <1>2, <1>3, <2>1
    <3>2. a.pos < b.pos => f[a.pos] < f[b.pos]
      BY <1>2, <2>1
    <3>3. b.pos < a.pos => f[b.pos] < f[a.pos]
      BY <1>2, <2>1
    <3>4. a.pos = b.pos => f[b.pos] = f[a.pos]
      OBVIOUS
    <3> QED
      BY <2>1, <3>1, <3>2, <3>3, <3>4
  <2>5. SortsBefore(a, b) <=> SortsBefore(c, d)
    BY <2>1, <2>2, <2>3, <2>4, SortsBeforeIs, Zenon
  <2> QED
    BY <2>5 DEF c, d
<1>12. SameOrder(g, S, T)
  BY <1>9, <1>10, <1>11 DEF SameOrder
<1> QED
  BY <1>8, <1>12 DEF S, T, one, two

LEMMA ListsAgree ==
    ASSUME NEW both \in Maps
    PROVE  LET one == SymbolList(both[1])
               two == SymbolList(both[2])
           IN  /\ Len(one) = Len(two)
               /\ \A i \in DOMAIN one : one[i].addr = two[i].addr /\ one[i].sym = two[i].sym
<1> DEFINE S == Chosen(both[1])
           T == Chosen(both[2])
           one == SymbolList(both[1])
           two == SymbolList(both[2])
<1>1. Distinct(S) /\ Distinct(T)
  <2>1. 1 \in 1 .. 2 /\ 2 \in 1 .. 2
    OBVIOUS
  <2> QED
    BY <2>1, ChosenDistinct, Zenon
<1>2. one = Sorted(S) /\ two = Sorted(T)
  BY ListIsSorted, Zenon
<1>3. PICK g : SameOrder(g, S, T) /\ \A s \in S : g[s].addr = s.addr /\ g[s].sym = s.sym
  BY ChosenLast
<1> HIDE DEF S, T, one, two
<1>4. /\ Len(one) = Len(two) /\ Len(one) \in Nat
      /\ \A i \in 1 .. Len(one) : one[i] \in S /\ two[i] = g[one[i]]
  BY <1>1, <1>2, <1>3, SameSorted
<1>5. DOMAIN one = 1 .. Len(one)
  <2>1. one \in Seq(S)
    BY <1>1, <1>2, SortedRanks
  <2> QED
    BY <2>1, LenProperties
<1>6. /\ Len(one) = Len(two)
      /\ \A i \in DOMAIN one : one[i].addr = two[i].addr /\ one[i].sym = two[i].sym
  BY <1>3, <1>4, <1>5
<1> QED
  BY <1>6 DEF one, two

\* The list that a pass of the tool has made is still there when the next begins.
ListedOf ==
    /\ maps \in Maps /\ pass \in 1 .. 2
    /\ pc # "read" => listed = SymbolList(maps[pass])
    /\ pc = "read" /\ pass = 2 => listed = SymbolList(maps[1])

\* "Passes 1 and 2 must have identical symbol lists" (symbol_valid): whatever the
\* second link adds under the names of special_symbols[] and moves behind _etext.
THEOREM PassesListTheSame == Spec => PassesAgree
<1>1. Init => ListedOf
  BY DEF Init, ListedOf
<1>2. ListedOf /\ [Next]_vars => ListedOf'
  <2> SUFFICES ASSUME ListedOf, [Next]_vars PROVE ListedOf'
    OBVIOUS
  <2>1. CASE ReadMap
    BY <2>1 DEF ReadMap, ListedOf
  <2>2. CASE WriteSrc
    <3>1. /\ pc = "write" /\ pass \in 1 .. 2 /\ listed' = listed /\ maps' = maps
          /\ IF pass = 1 THEN pc' = "read" /\ pass' = 2 ELSE pc' = "ready" /\ pass' = pass
      BY <2>2 DEF WriteSrc, ListedOf
    <3>2. CASE pass = 1
      BY <3>1, <3>2 DEF ListedOf
    <3>3. CASE pass # 1
      BY <3>1, <3>3 DEF ListedOf
    <3> QED
      BY <3>2, <3>3
  <2>3. CASE \/ SlotTaken \/ PlaceToken \/ OptimizeEnd \/ SearchStep \/ Found
             \/ \E a \in 0 .. AddrSpace - 1 : Lookup(a)
    <3>1. pc # "read" /\ pc' # "read" /\ UNCHANGED <<maps, pass, listed>>
      BY <2>3 DEF SlotTaken, PlaceToken, OptimizeEnd, SearchStep, Found, Lookup
    <3> QED
      BY <3>1 DEF ListedOf
  <2>4. CASE UNCHANGED vars
    BY <2>4 DEF vars, ListedOf
  <2> QED
    BY <2>1, <2>2, <2>3, <2>4 DEF Next
<1>3. ListedOf /\ [Next]_vars =>
        [pc = "read" /\ pass = 2 =>
           /\ Len(listed) = Len(listed')
           /\ \A i \in DOMAIN listed : /\ listed[i].addr = listed'[i].addr
                                       /\ listed[i].sym = listed'[i].sym]_vars
  <2> SUFFICES ASSUME ListedOf, Next, pc = "read", pass = 2
               PROVE  /\ Len(listed) = Len(listed')
                      /\ \A i \in DOMAIN listed : /\ listed[i].addr = listed'[i].addr
                                                  /\ listed[i].sym = listed'[i].sym
    BY DEF vars
  <2>1. ReadMap
    BY DEF Next, SlotTaken, PlaceToken, OptimizeEnd, WriteSrc, SearchStep, Found, Lookup
  <2>2. maps \in Maps /\ listed = SymbolList(maps[1]) /\ listed' = SymbolList(maps[2])
    BY <2>1 DEF ListedOf, ReadMap
  <2> QED
    BY <2>2, ListsAgree, Zenon
<1> QED
  BY <1>1, <1>2, <1>3, PTL DEF Spec, PassesAgree
=============================================================================
