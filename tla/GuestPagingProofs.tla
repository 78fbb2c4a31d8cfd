------------------------- MODULE GuestPagingProofs -------------------------
(***************************************************************************)
(* Theorems about GuestPaging for every layout of the memory.              *)
(***************************************************************************)
EXTENDS GuestPaging, TLAPS, FiniteSetTheorems, SequenceTheorems, WellFoundedInduction

-----------------------------------------------------------------------------
(* The inductive invariant.                                                 *)
(*                                                                          *)
(* The places that can hold a page are taken together in one function, so   *)
(* that "no page in two places" and "the marked pages are those in a place" *)
(* are about that function and mem_map alone.                               *)

Slots ==
    {<<"gpa", 0>>, <<"new", 0>>} \cup ({"s2_pgd", "vs_pgd"} \X Gigs)
        \cup ({"s2_pmd", "vs_pmd"} \X Regions)

\* What each place holds.
Held ==
    [t \in Slots |->
        CASE t[1] = "gpa"    -> gpa
          [] t[1] = "new"    -> page
          [] t[1] = "s2_pgd" -> s2_pgd[t[2]]
          [] t[1] = "vs_pgd" -> vs_pgd[t[2]]
          [] t[1] = "s2_pmd" -> s2_pmd[t[2]]
          [] t[1] = "vs_pmd" -> vs_pmd[t[2]]]

Exclusive(h) == \A t, u \in Slots : h[t] = h[u] /\ h[t] # NoPage => t = u

\* From gpa_addr on, the pages in map are those that h holds.
Accounted(h, map) ==
    \A k \in 0 .. NR_PAGES - 1 :
        (k \in map /\ gpa <= End + k) <=> \E t \in Slots : h[t] = End + k

\* No page is left that both the hypervisor and the guest can reach.
Full(map) == \A k \in 0 .. NR_PAGES - 1 : End + k < DdrEnd => k \in map

PagesOK ==
    /\ 0 .. gpa - End \subseteq mem_map
    /\ Exclusive(Held)
    /\ ~panicked => Accounted(Held, mem_map)
    /\ \A t \in Slots : Held[t] >= DdrEnd => Full(mem_map)
    /\ panicked => Full(mem_map)

\* Stage 2 has the tables above every leaf, and those of the image as soon as the
\* guest has run: so no fault between the test and the set of get_free_page
\* allocates.
Mapped(p) == s2_pgd[Gig(p)] # NoPage /\ s2_pmd[Region(p)] # NoPage

Stage2OK ==
    /\ \A p \in Pages : s2_pte[p] # {} => Mapped(p)
    /\ pc # "pgd" => Mapped(VsDir)

Allocating == {"scan", "take", "zero", "hang"}

\* The guest's get_free_page, and what it allocates for.
AllocOK ==
    /\ pc = "pmd" => vs_pgd[Gig(virt)] # NoPage
    /\ pc = "pte" => vs_pmd[Region(virt)] # NoPage
    /\ pc \in Allocating => vs_pgd[Gig(virt)] = NoPage \/ vs_pmd[Region(virt)] = NoPage
    /\ pc \in {"scan", "take"} => 0 .. i - 1 \subseteq mem_map
    /\ pc \notin {"scan", "take"} => i = 0
    /\ pc = "take" => i \notin mem_map
    /\ pc \notin {"zero", "hang"} => page = NoPage
    /\ pc = "hang" => page # NoPage
    /\ pc = "zero" /\ page = NoPage => Full(mem_map)

Testing == {"print", "read", "hlv", "hsv", "reread", "done"}

\* Stage 1 maps what has been mapped so far, and all of it when it is turned on.
Stage1OK ==
    /\ \A k \in 1 .. job - 1 : vs_pte[VsPages[k]] # NoPage
    /\ job = Len(VsPages) <=> vsatp \/ pc = "vsatp"
    /\ pc \in Testing => vsatp /\ vs_pte[VsMem] = gpa

\* The word at gpa_addr, and what has been read of it.
WordOK ==
    /\ cell = IF pc \in {"reread", "done"} THEN "host" ELSE "mark"
    /\ seen = CASE pc = "hlv"                -> <<"mark">>
                [] pc \in {"hsv", "reread"} -> <<"mark", "mark">>
                [] pc = "done"               -> <<"mark", "mark", "host">>
                [] OTHER                     -> <<>>

IInv == TypeOK /\ gpa < DdrEnd /\ PagesOK /\ Stage2OK /\ AllocOK /\ Stage1OK /\ WordOK

-----------------------------------------------------------------------------
(* The layout. *)

\* Between two numbers with the same quotient every number has it.
LEMMA SameQuotient ==
    ASSUME NEW n \in Nat \ {0}, NEW x \in Nat, NEW y \in Nat, NEW z \in Nat,
           x <= y, y <= z, x \div n = z \div n
    PROVE  y \div n = x \div n
OBVIOUS

\* A set of three elements has three different elements.
LEMMA ThreeApart ==
    ASSUME NEW x, NEW y, NEW z, Cardinality({x, y, z}) = 3
    PROVE  x # z /\ y # z
<1> SUFFICES ASSUME z \in {x, y} PROVE FALSE
  OBVIOUS
<1>1. {x, y, z} = {x} \cup {y}
  OBVIOUS
<1>2. IsFiniteSet({x}) /\ Cardinality({x}) = 1
  BY FS_Singleton
<1>3. Cardinality({x} \cup {y}) <= 2
  BY <1>2, FS_AddElement
<1> QED
  BY <1>1, <1>3

LEMMA Numbers ==
    /\ DdrBase \in Nat /\ DdrEnd \in Nat /\ TextBoot \in Nat /\ Etext \in Nat /\ End \in Nat
    /\ MemMap \in Nat /\ VsDir \in Nat /\ Uart \in Nat /\ Clint \in Nat /\ VsMem \in Nat
    /\ PtrsPerPte \in Nat \ {0} /\ PtrsPerPmd \in Nat \ {0}
BY LayoutAssumption

\* The parts of memory that matter lie inside it, and apart from each other.
LEMMA Layout ==
    /\ NR_PAGES \in Nat /\ NR_PAGES > 0 /\ End \in Nat /\ DdrEnd \in Nat /\ TextBoot \in Nat
    /\ TextBoot <= VsDir /\ VsDir < End
    /\ DdrEnd < End + NR_PAGES
    /\ Pages \subseteq Nat /\ Frames \subseteq Pages /\ TextBoot .. DdrEnd - 1 \subseteq Pages
    /\ TextBoot .. End - 1 \subseteq TextBoot .. DdrEnd - 1
    /\ {TextBoot, MemMap, VsDir} \subseteq TextBoot .. End - 1
    /\ {Uart, Clint, VsMem} \subseteq Pages
    /\ VsMem # Uart /\ VsMem # Clint /\ VsMem < TextBoot
    /\ NoPage \notin Pages
<1>1. VsMem # Uart /\ VsMem # Clint
  BY LayoutAssumption, ThreeApart
<1>2. /\ DdrBase <= TextBoot /\ TextBoot < Etext /\ Etext < End /\ End < DdrEnd
      /\ MemMap \in Etext .. End - 1 /\ VsDir \in Etext .. End - 1
      /\ Uart < DdrBase /\ Clint < DdrBase /\ VsMem < DdrBase
  BY LayoutAssumption
<1>3. /\ NR_PAGES \in Nat /\ NR_PAGES > 0 /\ DdrEnd < End + NR_PAGES
      /\ TextBoot <= VsDir /\ VsDir < End /\ VsMem < TextBoot
  BY <1>2, Numbers DEF NR_PAGES
<1>4. Pages = 0 .. End + NR_PAGES - 1 /\ Frames = End .. End + NR_PAGES - 1
  BY DEF Pages, Frames
<1>5. Pages \subseteq Nat /\ Frames \subseteq Pages /\ NoPage \notin Pages
  BY <1>3, <1>4, Numbers DEF NoPage
<1>6. /\ TextBoot .. DdrEnd - 1 \subseteq Pages
      /\ TextBoot .. End - 1 \subseteq TextBoot .. DdrEnd - 1
      /\ {TextBoot, MemMap, VsDir} \subseteq TextBoot .. End - 1
      /\ {Uart, Clint, VsMem} \subseteq Pages
  BY <1>2, <1>3, <1>4, Numbers
<1> QED
  BY <1>1, <1>3, <1>5, <1>6, Numbers

\* All of the image is in one region, and so in one gigabyte.
LEMMA ImageRegion ==
    ASSUME NEW p \in TextBoot .. End - 1
    PROVE  Region(p) = Region(VsDir) /\ Gig(p) = Gig(VsDir)
<1>1. /\ p \in Nat /\ VsDir \in Nat /\ TextBoot \in Nat /\ End - 1 \in Nat
      /\ TextBoot <= p /\ p <= End - 1 /\ TextBoot <= VsDir /\ VsDir <= End - 1
      /\ PtrsPerPte \in Nat \ {0}
      /\ TextBoot \div PtrsPerPte = (End - 1) \div PtrsPerPte
  BY Layout, Numbers, LayoutAssumption DEF Region
<1>2. p \div PtrsPerPte = TextBoot \div PtrsPerPte
  BY <1>1, SameQuotient
<1>3. VsDir \div PtrsPerPte = TextBoot \div PtrsPerPte
  BY <1>1, SameQuotient
<1> QED
  BY <1>2, <1>3 DEF Region, Gig

\* Every page has its entries.
LEMMA Entries ==
    ASSUME NEW p \in Pages
    PROVE  Gig(p) \in Gigs /\ Region(p) \in Regions
BY DEF Gigs, Regions

\* The pages the guest maps: the DDR from the image on, the devices, VS_MEM last.
LEMMA VsPagesList ==
    /\ Len(VsPages) \in Nat /\ Len(VsPages) > 1
    /\ \A k \in 1 .. Len(VsPages) : VsPages[k] \in Pages
    /\ \A k \in 1 .. Len(VsPages) : VsPages[k] = VsMem <=> k = Len(VsPages)
    /\ \A p \in (TextBoot .. DdrEnd - 1) \cup {Uart, Clint} :
           \E k \in 1 .. Len(VsPages) - 1 : VsPages[k] = p
<1> DEFINE N == DdrEnd - TextBoot
           D == [k \in 1 .. N |-> TextBoot + k - 1]
           E == <<Uart, Clint, VsMem>>
<1>1. N \in Nat /\ N > 0
  BY LayoutAssumption
<1>2. D \in Seq(Int) /\ Len(D) = N /\ E \in Seq(Int) /\ Len(E) = 3
  <2>1. \A k \in 1 .. N : TextBoot + k - 1 \in Int
    BY <1>1, Numbers
  <2>2. D \in Seq(Int) /\ Len(D) = N
    BY <1>1, <2>1
  <2>3. E \in Seq(Int) /\ Len(E) = 3
    <3>1. Uart \in Int /\ Clint \in Int /\ VsMem \in Int
      BY Numbers
    <3> HIDE DEF D, N
    <3> QED
      BY <3>1
  <2> HIDE DEF D, E, N
  <2> QED
    BY <2>2, <2>3
<1>3. /\ Len(VsPages) = N + 3
      /\ \A k \in 1 .. N + 3 : VsPages[k] = IF k <= N THEN D[k] ELSE E[k - N]
  <2> HIDE DEF N, D, E
  <2>1. VsPages = D \o E
    BY DEF VsPages, D, E, N
  <2>2. /\ Len(D \o E) = Len(D) + Len(E)
        /\ \A k \in 1 .. Len(D) + Len(E) : (D \o E)[k] = IF k <= Len(D) THEN D[k] ELSE E[k - Len(D)]
    BY <1>2, Zenon, ConcatProperties
  <2> QED
    BY <1>2, <2>1, <2>2
<1>4. /\ \A k \in 1 .. N : VsPages[k] = TextBoot + k - 1
      /\ VsPages[N + 1] = Uart /\ VsPages[N + 2] = Clint /\ VsPages[N + 3] = VsMem
  <2>1. E[1] = Uart /\ E[2] = Clint /\ E[3] = VsMem
    OBVIOUS
  <2>2. \A k \in 1 .. N : D[k] = TextBoot + k - 1 /\ k \in 1 .. N + 3 /\ k <= N
    BY <1>1
  <2> HIDE DEF N, D, E
  <2>3. {N + 1, N + 2, N + 3} \subseteq 1 .. N + 3 /\ N + 1 - N = 1 /\ N + 2 - N = 2 /\ N + 3 - N = 3
    BY <1>1
  <2> QED
    BY <1>1, <1>3, <2>1, <2>2, <2>3
<1> HIDE DEF D, E
<1>5. \A p \in (TextBoot .. DdrEnd - 1) \cup {Uart, Clint} :
          \E k \in 1 .. Len(VsPages) - 1 : VsPages[k] = p
  <2>1. ASSUME NEW p \in TextBoot .. DdrEnd - 1
        PROVE  p - TextBoot + 1 \in 1 .. N /\ VsPages[p - TextBoot + 1] = p
    BY <1>4, LayoutAssumption
  <2>2. 1 .. N \subseteq 1 .. Len(VsPages) - 1 /\ {N + 1, N + 2} \subseteq 1 .. Len(VsPages) - 1
    BY <1>1, <1>3
  <2> QED
    BY <1>4, <2>1, <2>2
<1>6. ASSUME NEW k \in 1 .. Len(VsPages)
      PROVE  VsPages[k] \in Pages /\ (VsPages[k] = VsMem <=> k = Len(VsPages))
  <2>1. k \in 1 .. N \/ k = N + 1 \/ k = N + 2 \/ k = N + 3
    BY <1>1, <1>3
  <2>2. CASE k \in 1 .. N
    <3>1. VsPages[k] \in TextBoot .. DdrEnd - 1
      BY <1>1, <1>4, <2>2, Layout
    <3> QED
      BY <1>1, <1>3, <2>2, <3>1, Layout, SMTT(30)
  <2> QED
    BY <1>1, <1>3, <1>4, <2>1, <2>2, Layout
<1> QED
  BY <1>1, <1>3, <1>5, <1>6

-----------------------------------------------------------------------------
(* The places of a page, and what is done to them.                          *)

LEMMA SlotCases ==
    ASSUME NEW t \in Slots
    PROVE  \/ t = <<"gpa", 0>> \/ t = <<"new", 0>>
           \/ \E g \in Gigs : t = <<"s2_pgd", g>> \/ t = <<"vs_pgd", g>>
           \/ \E r \in Regions : t = <<"s2_pmd", r>> \/ t = <<"vs_pmd", r>>
BY DEF Slots

LEMMA HeldValues ==
    /\ <<"gpa", 0>> \in Slots /\ Held[<<"gpa", 0>>] = gpa
    /\ <<"new", 0>> \in Slots /\ Held[<<"new", 0>>] = page
    /\ \A g \in Gigs : /\ <<"s2_pgd", g>> \in Slots /\ Held[<<"s2_pgd", g>>] = s2_pgd[g]
                       /\ <<"vs_pgd", g>> \in Slots /\ Held[<<"vs_pgd", g>>] = vs_pgd[g]
    /\ \A r \in Regions : /\ <<"s2_pmd", r>> \in Slots /\ Held[<<"s2_pmd", r>>] = s2_pmd[r]
                          /\ <<"vs_pmd", r>> \in Slots /\ Held[<<"vs_pmd", r>>] = vs_pmd[r]
BY DEF Held, Slots

\* A place holds a frame or nothing.
LEMMA HeldType == TypeOK => \A t \in Slots : Held[t] \in Frames \cup {NoPage}
<1> SUFFICES ASSUME TypeOK, NEW t \in Slots PROVE Held[t] \in Frames \cup {NoPage}
  OBVIOUS
<1>1. CASE t \in {<<"gpa", 0>>, <<"new", 0>>}
  BY <1>1, HeldValues DEF TypeOK
<1>2. ASSUME NEW g \in Gigs, t \in {<<"s2_pgd", g>>, <<"vs_pgd", g>>}
      PROVE  Held[t] \in Frames \cup {NoPage}
  <2>1. s2_pgd[g] \in Frames \cup {NoPage} /\ vs_pgd[g] \in Frames \cup {NoPage}
    BY DEF TypeOK
  <2> QED
    BY <1>2, <2>1, HeldValues
<1>3. ASSUME NEW r \in Regions, t \in {<<"s2_pmd", r>>, <<"vs_pmd", r>>}
      PROVE  Held[t] \in Frames \cup {NoPage}
  <2>1. s2_pmd[r] \in Frames \cup {NoPage} /\ vs_pmd[r] \in Frames \cup {NoPage}
    BY DEF TypeOK
  <2> QED
    BY <1>3, <2>1, HeldValues
<1> QED
  BY <1>1, <1>2, <1>3, SlotCases

\* What PagesOK says while nothing has panicked, of any holding of the pages.
Kept(h, map) ==
    /\ 0 .. gpa - End \subseteq map
    /\ Exclusive(h)
    /\ Accounted(h, map)
    /\ \A t \in Slots : h[t] >= DdrEnd => Full(map)

\* The lowest page that is not marked goes into an empty place.
LEMMA Give ==
    ASSUME gpa \in Frames, NEW h, NEW g, NEW map \in SUBSET (0 .. NR_PAGES - 1), Kept(h, map),
           NEW k \in 0 .. NR_PAGES - 1, k \notin map, 0 .. k - 1 \subseteq map,
           NEW t0 \in Slots, h[t0] = NoPage, g[t0] = End + k,
           \A t \in Slots : t # t0 => g[t] = h[t]
    PROVE  Kept(g, map \cup {k}) /\ gpa < End + k
<1> USE Layout
<1>1. gpa \in Nat /\ gpa < End + k
  BY DEF Kept, Frames
<1>2. ASSUME NEW t \in Slots, t # t0 PROVE h[t] # End + k
  BY <1>1 DEF Kept, Accounted
<1>3. Exclusive(g)
  BY <1>2 DEF Kept, Exclusive
<1>4. Accounted(g, map \cup {k})
  <2> SUFFICES ASSUME NEW l \in 0 .. NR_PAGES - 1
               PROVE  (l \in map \cup {k} /\ gpa <= End + l) <=> \E t \in Slots : g[t] = End + l
    BY DEF Accounted
  <2>1. CASE l = k
    BY <1>1, <2>1
  <2>2. CASE l # k
    <3>1. End + l # End + k /\ End + l # NoPage
      BY <2>2 DEF NoPage
    <3>2. (\E t \in Slots : g[t] = End + l) <=> (\E t \in Slots : h[t] = End + l)
      BY <3>1
    <3> QED
      BY <2>2, <3>2 DEF Kept, Accounted
  <2> QED
    BY <2>1, <2>2
<1>5. ASSUME NEW t \in Slots, g[t] >= DdrEnd PROVE Full(map \cup {k})
  <2>1. CASE t = t0
    BY <1>5, <2>1 DEF Full
  <2>2. CASE t # t0
    BY <1>5, <2>2 DEF Kept, Full
  <2> QED
    BY <2>1, <2>2
<1> QED
  BY <1>1, <1>3, <1>4, <1>5 DEF Kept

\* A page goes from one place to an empty one.
LEMMA Move ==
    ASSUME NEW h, NEW g, NEW map, Kept(h, map),
           NEW t0 \in Slots, NEW t1 \in Slots, t0 # t1, h[t1] = NoPage,
           g[t0] = NoPage, g[t1] = h[t0],
           \A t \in Slots : t \notin {t0, t1} => g[t] = h[t]
    PROVE  Kept(g, map)
<1> USE Layout
<1>1. Exclusive(g)
  BY DEF Kept, Exclusive
<1>2. Accounted(g, map)
  <2> SUFFICES ASSUME NEW l \in 0 .. NR_PAGES - 1
               PROVE  (\E t \in Slots : g[t] = End + l) <=> (\E t \in Slots : h[t] = End + l)
    BY DEF Kept, Accounted
  <2>1. End + l # NoPage
    BY DEF NoPage
  <2> QED
    BY <2>1
<1>3. ASSUME NEW t \in Slots, g[t] >= DdrEnd PROVE Full(map)
  <2>1. t # t0
    BY <1>3 DEF NoPage
  <2> QED
    BY <1>3, <2>1 DEF Kept
<1> QED
  BY <1>1, <1>2, <1>3 DEF Kept

-----------------------------------------------------------------------------
(* get_free_page.                                                           *)

\* A non-empty set of natural numbers has a least element.
LEMMA LeastNat ==
    ASSUME NEW S \in SUBSET Nat, S # {}
    PROVE  \E m \in S : \A k \in S : m <= k
<1>1. PICK m \in S : \A k \in S : <<k, m>> \notin OpToRel(<, Nat)
  BY WFMin, NatLessThanWellFounded, Zenon
<1>2. \A k \in S : ~(k < m)
  BY <1>1, Zenon DEF OpToRel
<1> QED
  BY <1>2

\* It returns the lowest page that is not marked, if there is one.
LEMMA FreePage ==
    ASSUME NEW map \in SUBSET (0 .. NR_PAGES - 1)
    PROVE  \/ get_free_page(map) = NoPage /\ 0 .. NR_PAGES - 1 \subseteq map
           \/ \E k \in (0 .. NR_PAGES - 1) \ map :
                  get_free_page(map) = End + k /\ 0 .. k - 1 \subseteq map
<1> DEFINE free == (0 .. NR_PAGES - 1) \ map
           low == CHOOSE k \in free : \A l \in free : k <= l
<1>1. CASE free = {}
  BY <1>1 DEF get_free_page
<1>2. CASE free # {}
  <2>1. \E k \in free : \A l \in free : k <= l
    <3>1. free \in SUBSET Nat
      BY Layout
    <3> HIDE DEF free
    <3> QED
      BY <1>2, <3>1, LeastNat
  <2>2. low \in free /\ \A l \in free : low <= l
    BY <2>1
  <2>3. get_free_page(map) = End + low
    BY <1>2 DEF get_free_page
  <2>4. 0 .. low - 1 \subseteq map
    BY <2>2, Layout
  <2> QED
    BY <2>2, <2>3, <2>4
<1> QED
  BY <1>1, <1>2

\* It never returns gpa_addr, which is marked.
LEMMA NotGpa ==
    ASSUME gpa \in Frames, NEW map \in SUBSET (0 .. NR_PAGES - 1), 0 .. gpa - End \subseteq map
    PROVE  get_free_page(map) # gpa
<1>1. gpa - End \in map /\ gpa = End + (gpa - End) /\ gpa # NoPage
  BY Layout DEF Frames, NoPage
<1> QED
  BY <1>1, FreePage, Layout

\* A table from get_free_page, in the place it is for: if it cannot be reached, no
\* page is left.
LEMMA TakeTable ==
    ASSUME gpa \in Frames, NEW h, NEW g, NEW map \in SUBSET (0 .. NR_PAGES - 1), Kept(h, map),
           NEW t0 \in Slots, h[t0] = NoPage, g[t0] = get_free_page(map),
           \A t \in Slots : t # t0 => g[t] = h[t]
    PROVE  LET f == get_free_page(map)
           IN  /\ Marked(map, f) \in SUBSET (0 .. NR_PAGES - 1)
               /\ map \subseteq Marked(map, f)
               /\ Reachable(f) => Kept(g, Marked(map, f)) /\ f \in Frames
               /\ ~Reachable(f) => Full(Marked(map, f))
<1> DEFINE f == get_free_page(map)
<1>1. CASE f = NoPage /\ 0 .. NR_PAGES - 1 \subseteq map
  BY <1>1, Layout DEF Marked, Reachable, Full, Frames, NoPage
<1>2. ASSUME NEW k \in (0 .. NR_PAGES - 1) \ map, f = End + k, 0 .. k - 1 \subseteq map
      PROVE  /\ Marked(map, f) \in SUBSET (0 .. NR_PAGES - 1)
             /\ map \subseteq Marked(map, f)
             /\ Reachable(f) => Kept(g, Marked(map, f)) /\ f \in Frames
             /\ ~Reachable(f) => Full(Marked(map, f))
  <2>1. Kept(g, map \cup {k}) /\ gpa < End + k
    BY <1>2, Give
  <2>2. f # NoPage /\ f \in Frames /\ f - End = k
    BY <1>2, Layout DEF NoPage, Frames
  <2>3. Marked(map, f) = map \cup {k}
    BY <2>2 DEF Marked
  <2>4. ~Reachable(f) => Full(map \cup {k})
    BY <1>2, <2>2, Layout DEF Reachable, Full
  <2> HIDE DEF f
  <2> QED
    BY <2>1, <2>2, <2>3, <2>4
<1> QED
  BY <1>1, <1>2, FreePage

-----------------------------------------------------------------------------
(* What the guest accesses.                                                 *)

Image == TextBoot .. End - 1

\* The page mapped next.
LEMMA Virt ==
    ASSUME TypeOK
    PROVE  /\ virt \in Pages /\ phys \in Pages
           /\ Gig(virt) \in Gigs /\ Region(virt) \in Regions
           /\ virt = VsMem <=> job = Len(VsPages)
<1>1. job \in 1 .. Len(VsPages) /\ gpa \in Pages
  BY Layout DEF TypeOK
<1>2. virt \in Pages /\ (virt = VsMem <=> job = Len(VsPages))
  BY <1>1, VsPagesList DEF virt
<1> QED
  BY <1>1, <1>2, Entries DEF phys

\* The access that comes next goes to the image, to the UART or to a page in use.
LEMMA AccessPage ==
    ASSUME IInv, ~(pc = "zero" /\ page = NoPage)
    PROVE  /\ Access = <<Access[1], Access[2]>> /\ Access[2] \in Kinds
           /\ Access[1] \in Image \cup {Uart} \/ \E t \in Slots : Access[1] = Held[t]
           /\ Access[1] \in Pages
           /\ pc \in {"pgd", "scan", "take"} => Access[1] \in Image
<1>1. TypeOK /\ AllocOK /\ Stage1OK
  BY DEF IInv
<1>2. {TextBoot, MemMap, VsDir} \subseteq Image
  BY Layout DEF Image
<1>3. Gig(virt) \in Gigs /\ Region(virt) \in Regions
  BY <1>1, Virt
<1> DEFINE Good(p) == p \in Image \cup {Uart} \/ (p # NoPage /\ \E t \in Slots : p = Held[t])
<1>4. ASSUME NEW p, Good(p) PROVE p \in Pages
  <2>1. \A t \in Slots : Held[t] \in Pages \cup {NoPage}
    BY <1>1, HeldType, Layout
  <2>2. Image \cup {Uart} \subseteq Pages
    BY Layout DEF Image
  <2> QED
    BY <1>4, <2>1, <2>2
<1>5. /\ vs_pgd[Gig(virt)] # NoPage => Good(vs_pgd[Gig(virt)])
      /\ vs_pmd[Region(virt)] # NoPage => Good(vs_pmd[Region(virt)])
      /\ page # NoPage => Good(page)
      /\ Good(gpa) /\ Good(VsDir)
  <2>1. gpa # NoPage
    BY <1>1, Layout DEF TypeOK
  <2> QED
    BY <1>2, <1>3, <2>1, HeldValues
<1>6. /\ Access = <<Access[1], Access[2]>> /\ Access[2] \in Kinds
      /\ Good(Access[1])
      /\ pc \in {"pgd", "scan", "take"} => Access[1] \in Image
  <2>1. CASE pc \in {"pgd", "scan", "take"}
    BY <1>2, <2>1 DEF Access, EntryPage, Kinds, Loads
  <2>2. CASE pc = "pmd"
    <3>1. Access = <<vs_pgd[Gig(virt)], "load">> /\ vs_pgd[Gig(virt)] # NoPage
      BY <1>1, <2>2 DEF Access, EntryPage, AllocOK
    <3> QED
      BY <1>5, <2>2, <3>1 DEF Kinds, Loads
  <2>3. CASE pc = "pte"
    <3>1. Access = <<vs_pmd[Region(virt)], "store">> /\ vs_pmd[Region(virt)] # NoPage
      BY <1>1, <2>3 DEF Access, AllocOK
    <3> QED
      BY <1>5, <2>3, <3>1 DEF Kinds
  <2>4. CASE pc = "zero"
    <3>1. Access = <<page, "store">> /\ page # NoPage
      BY <2>4 DEF Access
    <3> QED
      BY <1>5, <2>4, <3>1 DEF Kinds
  <2>5. CASE pc = "hang"
    <3>1. Access = <<EntryPage(NoTable), "store">>
      BY <2>5 DEF Access
    <3>2. \/ EntryPage(NoTable) = VsDir
          \/ EntryPage(NoTable) = vs_pgd[Gig(virt)] /\ vs_pgd[Gig(virt)] # NoPage
      <4>1. CASE vs_pgd[Gig(virt)] = NoPage
        BY <4>1 DEF EntryPage, NoTable
      <4>2. CASE vs_pgd[Gig(virt)] # NoPage
        BY <4>2 DEF EntryPage, NoTable
      <4> QED
        BY <4>1, <4>2
    <3>3. Good(EntryPage(NoTable))
      <4> HIDE DEF Good
      <4> QED
        BY <1>5, <3>2
    <3> HIDE DEF Good
    <3> QED
      BY <2>5, <3>1, <3>3 DEF Kinds
  <2>6. CASE pc = "print"
    <3>1. Access = <<Uart, "store">>
      BY <2>6 DEF Access
    <3> QED
      BY <2>6, <3>1 DEF Kinds
  <2>7. CASE pc \in {"read", "hlv", "hsv", "reread"}
    <3>1. vs_pte[VsMem] = gpa
      BY <1>1, <2>7 DEF Stage1OK, Testing
    <3>2. Access = <<gpa, "load">> \/ Access = <<gpa, "store">>
      BY <2>7, <3>1 DEF Access
    <3> QED
      BY <1>5, <2>7, <3>2 DEF Kinds, Loads
  <2>8. CASE pc \in {"vsatp", "done"}
    <3>1. Access = <<TextBoot, "fetch">>
      BY <2>8 DEF Access
    <3> QED
      BY <1>2, <2>8, <3>1 DEF Kinds, Loads
  <2> QED
    BY <1>1, <2>1, <2>2, <2>3, <2>4, <2>5, <2>6, <2>7, <2>8 DEF TypeOK, Places
<1> QED
  BY <1>4, <1>6

\* With stage 1 on, every page of the DDR from the image on is mapped, and the UART.
LEMMA MappedByStage1 ==
    ASSUME IInv, vsatp, NEW p \in (TextBoot .. DdrEnd - 1) \cup {Uart}
    PROVE  vs_pte[p] # NoPage
<1>1. job = Len(VsPages)
  BY DEF IInv, Stage1OK
<1>2. PICK k \in 1 .. Len(VsPages) - 1 : VsPages[k] = p
  BY VsPagesList
<1> QED
  BY <1>1, <1>2 DEF IInv, Stage1OK

\* Guest or hypervisor panics only after a page that is not mapped was handed out,
\* and then no other is left.
LEMMA OopsFull ==
    ASSUME IInv, ~panicked, Oops
    PROVE  Full(mem_map)
<1>1. CASE pc = "zero" /\ page = NoPage
  BY <1>1 DEF IInv, AllocOK
<1>2. CASE ~(pc = "zero" /\ page = NoPage) /\ vsatp /\ vs_pte[GuestVirtual] = NoPage
  <2>1. CASE pc \in {"read", "reread", "hlv", "hsv"}
    <3>1. vs_pte[VsMem] = gpa /\ gpa \in Frames /\ GuestVirtual = VsMem
      BY <2>1 DEF IInv, Stage1OK, Testing, TypeOK, GuestVirtual
    <3> QED
      BY <1>2, <3>1, Layout
  <2>2. CASE pc \notin {"read", "reread", "hlv", "hsv"}
    <3>1. GuestVirtual = Access[1]
      BY <2>2 DEF GuestVirtual
    <3>2. Access[1] \notin (TextBoot .. DdrEnd - 1) \cup {Uart}
      BY <1>2, <3>1, MappedByStage1
    <3>3. PICK t \in Slots : Access[1] = Held[t]
      BY <1>2, <3>2, AccessPage, Layout DEF Image
    <3>4. Held[t] \in Frames
      BY <1>2, <3>3, AccessPage, HeldType, Layout DEF IInv
    <3>5. Held[t] >= DdrEnd
      BY <3>2, <3>3, <3>4, Layout DEF Frames
    <3> QED
      BY <3>5 DEF IInv, PagesOK
  <2> QED
    BY <2>1, <2>2
<1> QED
  BY <1>1, <1>2 DEF Oops

-----------------------------------------------------------------------------
(* A fault.                                                                 *)

\* What a fault may be for: a page, and while get_free_page is between its test and
\* its set only a page of the image.
LEMMA FaultAccess ==
    ASSUME IInv, ~Oops, NEW a \in Touches \cup {Access}
    PROVE  /\ a[1] \in Pages /\ a[2] \in Kinds
           /\ pc \in {"scan", "take"} => a[1] \in Image
<1>1. CASE a = Access
  BY <1>1, AccessPage DEF Oops
<1>2. CASE a \in (TextBoot .. Etext - 1) \X Loads \cup (Etext .. End - 1) \X {"load", "store"}
  <2>1. TextBoot .. Etext - 1 \subseteq Image /\ Etext .. End - 1 \subseteq Image
    BY LayoutAssumption DEF Image
  <2>2. Image \subseteq Pages
    BY Layout DEF Image
  <2> QED
    BY <1>2, <2>1, <2>2 DEF Kinds, Loads
<1>3. CASE pc = "print" /\ a = <<Uart, "load">>
  BY <1>3, Layout DEF Kinds, Loads
<1> QED
  BY <1>1, <1>2, <1>3 DEF Touches

\* A fault takes a page for each table it needs, and nothing else changes hands; it
\* panics only when no page is left.
LEMMA FaultPages ==
    ASSUME IInv, ~panicked, NEW p \in Pages, NEW kind \in Kinds, stage2_page_fault(p, kind),
           UNCHANGED <<vs, vsatp, pc, job, i, page, gpa, seen>>
    PROVE  /\ PagesOK' /\ cell' = cell /\ panicked' \in BOOLEAN
           /\ mem_map' \in SUBSET (0 .. NR_PAGES - 1) /\ mem_map \subseteq mem_map'
           /\ s2_pgd' \in [Gigs -> Frames \cup {NoPage}]
           /\ s2_pmd' \in [Regions -> Frames \cup {NoPage}]
           /\ \A q \in Pages : Mapped(q) => Mapped(q)'
           /\ s2_pte' # s2_pte => s2_pte' = [s2_pte EXCEPT ![p] = FaultProt(kind)] /\ Mapped(p)'
           /\ Mapped(p) => mem_map' = mem_map
<1> DEFINE G == Gig(p)
           R == Region(p)
           newPmd == NoPmdTable(G)
           newPte == NoPteTable(R)
           pmd == get_free_page(mem_map)
           map == IF newPmd THEN Marked(mem_map, pmd) ELSE mem_map
           pte == get_free_page(map)
           map2 == IF newPte THEN Marked(map, pte) ELSE map
           okPmd == newPmd => Reachable(pmd)
           okPte == newPte => Reachable(pte)
           tables == (IF newPmd THEN {pmd} ELSE {}) \cup (IF newPte THEN {pte} ELSE {})
           tPmd == <<"s2_pgd", G>>
           tPte == <<"s2_pmd", R>>
           h1 == [t \in Slots |-> IF newPmd /\ t = tPmd THEN pmd ELSE Held[t]]
           h2 == [t \in Slots |-> IF newPte /\ t = tPte THEN pte ELSE h1[t]]
<1>1. G \in Gigs /\ R \in Regions
  BY Entries
<1>2. /\ TypeOK /\ PagesOK /\ gpa \in Frames /\ mem_map \in SUBSET (0 .. NR_PAGES - 1)
      /\ Kept(Held, mem_map)
  BY DEF IInv, TypeOK, PagesOK, Kept
<1>3. /\ tPmd \in Slots /\ Held[tPmd] = s2_pgd[G]
      /\ tPte \in Slots /\ Held[tPte] = s2_pmd[R]
      /\ tPmd # tPte
  BY <1>1, HeldValues
<1>4. /\ mem_map' = IF newPte /\ okPmd THEN Marked(map, pte) ELSE map
      /\ s2_pgd' = IF newPmd /\ okPmd THEN [s2_pgd EXCEPT ![G] = pmd] ELSE s2_pgd
      /\ s2_pmd' = IF newPte /\ okPmd /\ okPte THEN [s2_pmd EXCEPT ![R] = pte] ELSE s2_pmd
      /\ s2_pte' = IF okPmd /\ okPte THEN [s2_pte EXCEPT ![p] = FaultProt(kind)] ELSE s2_pte
      /\ cell' = Zeroed(tables)
      /\ panicked' = ~(okPmd /\ okPte)
  BY DEF stage2_page_fault
<1>5. /\ map \in SUBSET (0 .. NR_PAGES - 1) /\ mem_map \subseteq map
      /\ okPmd => Kept(h1, map) /\ (newPmd => pmd \in Frames)
      /\ ~okPmd => Full(map)
  <2>1. CASE newPmd
    <3>1. /\ Held[tPmd] = NoPage
          /\ h1[tPmd] = pmd
          /\ \A t \in Slots : t # tPmd => h1[t] = Held[t]
      BY <1>3, <2>1 DEF NoPmdTable
    <3>2. /\ Marked(mem_map, pmd) \in SUBSET (0 .. NR_PAGES - 1)
          /\ mem_map \subseteq Marked(mem_map, pmd)
          /\ Reachable(pmd) => Kept(h1, Marked(mem_map, pmd)) /\ pmd \in Frames
          /\ ~Reachable(pmd) => Full(Marked(mem_map, pmd))
      <4> HIDE DEF h1, tPmd
      <4> QED
        BY <1>2, <1>3, <3>1, TakeTable
    <3> HIDE DEF h1, pmd, newPmd
    <3> QED
      BY <2>1, <3>2
  <2>2. CASE ~newPmd
    <3>1. \A t \in Slots : h1[t] = Held[t]
      BY <2>2
    <3>2. Kept(h1, mem_map)
      <4> HIDE DEF h1
      <4> QED
        BY <1>2, <3>1 DEF Kept, Exclusive, Accounted
    <3> HIDE DEF h1, pmd, newPmd
    <3> QED
      BY <1>2, <2>2, <3>2
  <2> QED
    BY <2>1, <2>2
<1>6. ASSUME okPmd
      PROVE  /\ map2 \in SUBSET (0 .. NR_PAGES - 1) /\ map \subseteq map2
             /\ okPte => Kept(h2, map2) /\ (newPte => pte \in Frames)
             /\ ~okPte => Full(map2)
  <2>1. CASE newPte
    <3>1. /\ h1[tPte] = NoPage
          /\ h2[tPte] = pte
          /\ \A t \in Slots : t # tPte => h2[t] = h1[t]
      BY <1>3, <2>1 DEF NoPteTable
    <3>2. Kept(h1, map) /\ map \in SUBSET (0 .. NR_PAGES - 1)
      BY <1>5, <1>6
    <3>3. /\ Marked(map, pte) \in SUBSET (0 .. NR_PAGES - 1)
          /\ map \subseteq Marked(map, pte)
          /\ Reachable(pte) => Kept(h2, Marked(map, pte)) /\ pte \in Frames
          /\ ~Reachable(pte) => Full(Marked(map, pte))
      <4> HIDE DEF h1, h2, tPte, map
      <4> QED
        BY <1>2, <1>3, <3>1, <3>2, TakeTable
    <3> HIDE DEF h2, pte, newPte, map
    <3> QED
      BY <2>1, <3>3
  <2>2. CASE ~newPte
    <3>1. \A t \in Slots : h2[t] = h1[t]
      BY <2>2
    <3>2. Kept(h1, map) /\ map \in SUBSET (0 .. NR_PAGES - 1)
      BY <1>5, <1>6
    <3>3. Kept(h2, map)
      <4> HIDE DEF h1, h2, map
      <4> QED
        BY <3>1, <3>2 DEF Kept, Exclusive, Accounted
    <3> HIDE DEF h2, pte, newPte, map
    <3> QED
      BY <2>2, <3>2, <3>3
  <2> QED
    BY <2>1, <2>2

<1>7. \A t \in Slots :
          Held'[t] = IF okPmd THEN IF okPte THEN h2[t] ELSE h1[t] ELSE Held[t]
  <2>1. /\ Held'[<<"gpa", 0>>] = gpa /\ Held'[<<"new", 0>>] = page
        /\ \A g \in Gigs : /\ Held'[<<"s2_pgd", g>>] = s2_pgd'[g]
                           /\ Held'[<<"vs_pgd", g>>] = vs_pgd[g]
        /\ \A r \in Regions : /\ Held'[<<"s2_pmd", r>>] = s2_pmd'[r]
                              /\ Held'[<<"vs_pmd", r>>] = vs_pmd[r]
    BY DEF Held, Slots, vs
  <2>2. ASSUME NEW t \in Slots, t \in {<<"gpa", 0>>, <<"new", 0>>}
        PROVE  Held'[t] = Held[t] /\ h1[t] = Held[t] /\ h2[t] = Held[t]
    BY <2>1, <2>2, HeldValues
  <2>3. ASSUME NEW g \in Gigs, NEW t \in Slots, t = <<"vs_pgd", g>>
        PROVE  Held'[t] = Held[t] /\ h1[t] = Held[t] /\ h2[t] = Held[t]
    BY <2>1, <2>3, HeldValues
  <2>4. ASSUME NEW r \in Regions, NEW t \in Slots, t = <<"vs_pmd", r>>
        PROVE  Held'[t] = Held[t] /\ h1[t] = Held[t] /\ h2[t] = Held[t]
    BY <2>1, <2>4, HeldValues
  <2>5. ASSUME NEW g \in Gigs, NEW t \in Slots, t = <<"s2_pgd", g>>
        PROVE  Held'[t] = (IF okPmd THEN h1[t] ELSE Held[t]) /\ h2[t] = h1[t]
    <3>1. Held[t] = s2_pgd[g] /\ Held'[t] = s2_pgd'[g]
      BY <2>1, <2>5, HeldValues
    <3>2. h2[t] = h1[t]
      BY <2>5
    <3>3. h1[t] = IF newPmd /\ g = G THEN pmd ELSE s2_pgd[g]
      BY <2>5, <3>1
    <3>4. s2_pgd'[g] = IF newPmd /\ okPmd /\ g = G THEN pmd ELSE s2_pgd[g]
      <4> HIDE DEF okPmd, newPmd, pmd, G
      <4> QED
        BY <1>2, <1>4 DEF TypeOK
    <3> HIDE DEF okPmd, newPmd, pmd, G, h1, h2
    <3> QED
      BY <3>1, <3>2, <3>3, <3>4
  <2>6. ASSUME NEW r \in Regions, NEW t \in Slots, t = <<"s2_pmd", r>>
        PROVE  Held'[t] = (IF okPmd /\ okPte THEN h2[t] ELSE Held[t]) /\ h1[t] = Held[t]
    <3>1. Held[t] = s2_pmd[r] /\ Held'[t] = s2_pmd'[r]
      BY <2>1, <2>6, HeldValues
    <3>2. h1[t] = Held[t]
      BY <2>6
    <3>3. h2[t] = IF newPte /\ r = R THEN pte ELSE s2_pmd[r]
      BY <2>6, <3>1
    <3>4. s2_pmd'[r] = IF newPte /\ okPmd /\ okPte /\ r = R THEN pte ELSE s2_pmd[r]
      <4> HIDE DEF okPmd, okPte, newPte, pte, R
      <4> QED
        BY <1>2, <1>4 DEF TypeOK
    <3> HIDE DEF okPmd, okPte, newPte, pte, R, h1, h2
    <3> QED
      BY <3>1, <3>2, <3>3, <3>4
  <2> HIDE DEF okPmd, okPte, h1, h2
  <2> QED
    BY <2>2, <2>3, <2>4, <2>5, <2>6, SlotCases
<1>8. cell' = cell
  <2>1. pmd # gpa /\ pte # gpa
    <3>1. /\ 0 .. gpa - End \subseteq mem_map /\ 0 .. gpa - End \subseteq map
          /\ mem_map \in SUBSET (0 .. NR_PAGES - 1) /\ map \in SUBSET (0 .. NR_PAGES - 1)
      <4> HIDE DEF map
      <4> QED
        BY <1>2, <1>5 DEF PagesOK
    <3> HIDE DEF map
    <3> QED
      BY <1>2, <3>1, NotGpa
  <2>2. gpa \notin tables
    <3> HIDE DEF pmd, pte, newPmd, newPte
    <3> QED
      BY <2>1
  <2> HIDE DEF tables
  <2> QED
    BY <1>4, <2>2 DEF Zeroed
<1>9. /\ s2_pgd' \in [Gigs -> Frames \cup {NoPage}]
      /\ s2_pmd' \in [Regions -> Frames \cup {NoPage}]
  <2> HIDE DEF okPmd, okPte, newPmd, newPte, pmd, pte, G, R, map, h1, h2, map2
  <2>1. (newPmd /\ okPmd => pmd \in Frames) /\ (newPte /\ okPmd /\ okPte => pte \in Frames)
    BY <1>5, <1>6
  <2> QED
    BY <1>2, <1>4, <2>1 DEF TypeOK
<1>10. ASSUME NEW q \in Pages
       PROVE  /\ Mapped(q) => Mapped(q)'
              /\ okPmd /\ okPte => s2_pgd'[G] # NoPage /\ s2_pmd'[R] # NoPage
  <2>1. (newPmd /\ okPmd => pmd # NoPage) /\ (newPte /\ okPmd /\ okPte => pte # NoPage)
    <3> HIDE DEF pmd, pte, newPmd, newPte
    <3> QED
      BY DEF Reachable
  <2>2. s2_pgd \in [Gigs -> Frames \cup {NoPage}] /\ s2_pmd \in [Regions -> Frames \cup {NoPage}]
    BY <1>2 DEF TypeOK
  <2>3. Gig(q) \in Gigs /\ Region(q) \in Regions
    BY Entries
  <2>4. (~newPmd => s2_pgd[G] # NoPage) /\ (~newPte => s2_pmd[R] # NoPage)
    BY DEF NoPmdTable, NoPteTable
  <2> HIDE DEF okPmd, okPte, newPmd, newPte, pmd, pte, G, R, map, h1, h2, map2
  <2>5. Mapped(q) => Mapped(q)'
    BY <1>4, <2>1, <2>2, <2>3 DEF Mapped
  <2>6. okPmd /\ okPte => s2_pgd'[G] # NoPage /\ s2_pmd'[R] # NoPage
    BY <1>1, <1>4, <2>1, <2>2, <2>4
  <2> QED
    BY <2>5, <2>6
<1>11. s2_pte' # s2_pte => s2_pte' = [s2_pte EXCEPT ![p] = FaultProt(kind)] /\ Mapped(p)'
  <2>1. okPmd /\ okPte => Mapped(p)'
    <3> HIDE DEF okPmd, okPte
    <3> QED
      BY <1>10 DEF Mapped
  <2> HIDE DEF okPmd, okPte
  <2> QED
    BY <1>4, <2>1
<1>12. Mapped(p) => mem_map' = mem_map
  <2>1. Mapped(p) => ~newPmd /\ ~newPte
    BY DEF Mapped, NoPmdTable, NoPteTable
  <2>2. ~newPmd => map = mem_map
    OBVIOUS
  <2> HIDE DEF newPmd, newPte, okPmd, map
  <2> QED
    BY <1>4, <2>1, <2>2
<1>13. PagesOK' /\ mem_map' \in SUBSET (0 .. NR_PAGES - 1) /\ mem_map \subseteq mem_map'
  <2>1. okPmd => mem_map' = map2
    BY <1>4
  <2>2. ~okPmd => mem_map' = map
    <3> HIDE DEF okPmd, map
    <3> QED
      BY <1>4
  <2> DEFINE Same(h) == \A t \in Slots : Held'[t] = h[t]
  <2>3. okPmd /\ okPte => Same(h2)
    <3> HIDE DEF okPmd, okPte, h1, h2
    <3> QED
      BY <1>7
  <2>4. okPmd /\ ~okPte => Same(h1)
    <3> HIDE DEF okPmd, okPte, h1, h2
    <3> QED
      BY <1>7
  <2>5. ~okPmd => Same(Held)
    <3> HIDE DEF okPmd, okPte, h1, h2
    <3> QED
      BY <1>7
  <2>6. ASSUME NEW h, NEW m, Same(h), Kept(h, m), mem_map' = m, panicked' = FALSE
        PROVE  PagesOK'
    <3>1. Exclusive(Held)' /\ Accounted(Held, mem_map)'
      BY <2>6 DEF Kept, Exclusive, Accounted
    <3>2. \A t \in Slots : Held'[t] >= DdrEnd => Full(mem_map)'
      BY <2>6 DEF Kept, Full
    <3> QED
      BY <2>6, <3>1, <3>2 DEF PagesOK, Kept
  <2>7. ASSUME NEW h, NEW m, Same(h), Kept(h, m), m \subseteq mem_map', Full(mem_map')
        PROVE  panicked' => PagesOK'
    <3>1. Exclusive(Held)'
      BY <2>7 DEF Kept, Exclusive
    <3>2. Full(mem_map)'
      BY <2>7 DEF Full
    <3>3. (0 .. gpa - End \subseteq mem_map)'
      BY <2>7 DEF Kept
    <3> QED
      BY <3>1, <3>2, <3>3 DEF PagesOK
  <2> HIDE DEF okPmd, okPte, h1, h2, map, map2, Same
  <2>8. CASE okPmd /\ okPte
    <3>1. panicked' = FALSE
      BY <1>4, <2>8
    <3> QED
      BY <1>5, <1>6, <2>1, <2>3, <2>6, <2>8, <3>1
  <2>9. CASE okPmd /\ ~okPte
    <3>1. panicked' /\ mem_map' = map2 /\ map \subseteq map2 /\ Full(map2)
            /\ map2 \in SUBSET (0 .. NR_PAGES - 1) /\ Kept(h1, map)
      BY <1>4, <1>5, <1>6, <2>1, <2>9
    <3> QED
      BY <1>5, <2>4, <2>7, <2>9, <3>1
  <2>10. CASE ~okPmd
    <3>1. panicked' /\ mem_map' = map /\ Full(map)
      BY <1>4, <1>5, <2>2, <2>10
    <3> QED
      BY <1>2, <1>5, <2>5, <2>7, <2>10, <3>1
  <2> QED
    BY <2>8, <2>9, <2>10
<1>14. panicked' \in BOOLEAN
  BY <1>4
<1> QED
  BY <1>8, <1>9, <1>10, <1>11, <1>12, <1>13, <1>14

\* What a step leaves alone stays in order.
LEMMA PagesSame ==
    ASSUME IInv, UNCHANGED <<mem_map, s2_pgd, s2_pmd, vs_pgd, vs_pmd, page, gpa, panicked>>
    PROVE  PagesOK'
<1>1. Held' = Held
  BY DEF Held
<1>2. PagesOK
  BY DEF IInv
<1> QED
  BY <1>1, <1>2 DEF PagesOK, Exclusive, Accounted, Full

LEMMA FaultStep == ASSUME IInv, Fault PROVE IInv'
<1>1. /\ ~panicked /\ ~Oops /\ UNCHANGED <<vs, vsatp, pc, job, i, page, gpa, seen>>
      /\ UNCHANGED <<vs_pgd, vs_pmd, vs_pte>>
  BY DEF Fault, vs
<1>2. PICK a \in Touches \cup {Access} : stage2_page_fault(a[1], a[2])
  BY DEF Fault
<1>3. a[1] \in Pages /\ a[2] \in Kinds /\ (pc \in {"scan", "take"} => a[1] \in Image)
  BY <1>1, <1>2, FaultAccess
<1>4. /\ PagesOK' /\ cell' = cell /\ panicked' \in BOOLEAN
      /\ mem_map' \in SUBSET (0 .. NR_PAGES - 1) /\ mem_map \subseteq mem_map'
      /\ s2_pgd' \in [Gigs -> Frames \cup {NoPage}]
      /\ s2_pmd' \in [Regions -> Frames \cup {NoPage}]
      /\ \A q \in Pages : Mapped(q) => Mapped(q)'
      /\ s2_pte' # s2_pte => s2_pte' = [s2_pte EXCEPT ![a[1]] = FaultProt(a[2])] /\ Mapped(a[1])'
      /\ Mapped(a[1]) => mem_map' = mem_map
  BY <1>1, <1>2, <1>3, FaultPages
<1>5. virt' = virt
  BY <1>1 DEF virt
<1>6. TypeOK'
  <2>1. s2_pte' \in [Pages -> {{}, Loads, Kinds}]
    BY <1>3, <1>4 DEF IInv, TypeOK, FaultProt
  <2> QED
    BY <1>1, <1>4, <2>1 DEF IInv, TypeOK
<1>7. Stage2OK'
  <2>1. ASSUME NEW q \in Pages, s2_pte'[q] # {} PROVE Mapped(q)'
    <3>1. CASE s2_pte[q] # {}
      BY <1>4, <3>1 DEF IInv, Stage2OK
    <3>2. CASE s2_pte[q] = {}
      <4>1. q = a[1] /\ Mapped(a[1])'
        BY <1>4, <2>1, <3>2 DEF IInv, TypeOK
      <4> QED
        BY <4>1
    <3> QED
      BY <3>1, <3>2
  <2>2. (pc # "pgd" => Mapped(VsDir))'
    <3>1. VsDir \in Pages
      BY Layout DEF Image
    <3> QED
      BY <1>1, <1>4, <3>1 DEF IInv, Stage2OK
  <2> QED
    BY <2>1, <2>2 DEF Stage2OK
<1>8. pc \in {"scan", "take"} => mem_map' = mem_map
  <2> SUFFICES ASSUME pc \in {"scan", "take"} PROVE mem_map' = mem_map
    OBVIOUS
  <2>1. Region(a[1]) = Region(VsDir) /\ Gig(a[1]) = Gig(VsDir)
    BY <1>3, ImageRegion DEF Image
  <2>2. Mapped(VsDir)
    BY DEF IInv, Stage2OK
  <2> QED
    BY <1>4, <2>1, <2>2 DEF Mapped
<1>9. AllocOK'
  <2>1. AllocOK
    BY DEF IInv
  <2>2. Full(mem_map) => Full(mem_map')
    BY <1>4 DEF Full
  <2> QED
    BY <1>1, <1>4, <1>5, <1>8, <2>1, <2>2 DEF AllocOK, Full
<1>10. Stage1OK' /\ WordOK'
  BY <1>1, <1>4 DEF IInv, Stage1OK, WordOK
<1> QED
  BY <1>1, <1>4, <1>6, <1>7, <1>9, <1>10 DEF IInv

LEMMA PanicStep == ASSUME IInv, GuestPanic PROVE IInv'
<1>1. /\ ~panicked /\ Oops /\ panicked' = TRUE
      /\ UNCHANGED <<mem_map, s2_pgd, s2_pmd, s2_pte, vs_pgd, vs_pmd, vs_pte, vsatp, pc, job, i,
                     page, gpa, cell, seen>>
  BY DEF GuestPanic, s2, vs
<1>2. Full(mem_map)
  BY <1>1, OopsFull
<1>3. PagesOK'
  <2>1. Held' = Held
    BY <1>1 DEF Held
  <2>2. PagesOK
    BY DEF IInv
  <2> QED
    BY <1>1, <1>2, <2>1, <2>2 DEF PagesOK, Exclusive, Full
<1>4. TypeOK'
  BY <1>1 DEF IInv, TypeOK
<1>5. virt' = virt
  BY <1>1 DEF virt
<1>6. Stage2OK' /\ AllocOK'
  BY <1>1, <1>5 DEF IInv, Stage2OK, Mapped, AllocOK, Full
<1>7. Stage1OK' /\ WordOK'
  BY <1>1 DEF IInv, Stage1OK, WordOK
<1> QED
  BY <1>1, <1>3, <1>4, <1>6, <1>7 DEF IInv

-----------------------------------------------------------------------------
(* The guest's own steps.                                                   *)

\* When the guest gets anywhere, the tables of the image are there.
LEMMA GuestStage2 ==
    ASSUME IInv, NEW place, At(place)
    PROVE  Stage2OK'
<1>1. UNCHANGED <<s2_pgd, s2_pmd, s2_pte>> /\ Permits(Access)
  BY DEF At, s2
<1>2. Mapped(VsDir)
  <2>1. CASE pc = "pgd"
    <3>1. Access[1] = VsDir
      BY <2>1 DEF Access, EntryPage
    <3>2. VsDir \in Pages /\ s2_pte[VsDir] # {}
      BY <1>1, <3>1, Layout DEF Permits
    <3> QED
      BY <3>2 DEF IInv, Stage2OK
  <2>2. CASE pc # "pgd"
    BY <2>2 DEF IInv, Stage2OK
  <2> QED
    BY <2>1, <2>2
<1> QED
  BY <1>1, <1>2 DEF IInv, Stage2OK, Mapped

LEMMA PgdTestStep == ASSUME IInv, PgdTest PROVE IInv'
<1>1. /\ ~panicked /\ pc = "pgd" /\ At("pgd")
      /\ pc' = IF vs_pgd[Gig(virt)] = NoPage THEN "scan" ELSE "pmd"
      /\ UNCHANGED <<mem_map, s2_pgd, s2_pmd, s2_pte, vs_pgd, vs_pmd, vs_pte, vsatp, job, i,
                     page, gpa, cell, seen, panicked>>
  BY DEF PgdTest, At, s2, vs
<1>2. PagesOK' /\ Stage2OK'
  BY <1>1, PagesSame, GuestStage2
<1>3. TypeOK' /\ virt' = virt
  BY <1>1 DEF IInv, TypeOK, Places, virt
<1>4. AllocOK'
  BY <1>1, <1>3, Layout DEF IInv, AllocOK, Allocating
<1>5. Stage1OK' /\ WordOK'
  BY <1>1 DEF IInv, Stage1OK, Testing, WordOK
<1> QED
  BY <1>1, <1>2, <1>3, <1>4, <1>5 DEF IInv

LEMMA PmdTestStep == ASSUME IInv, PmdTest PROVE IInv'
<1>1. /\ ~panicked /\ pc = "pmd" /\ At("pmd")
      /\ pc' = IF vs_pmd[Region(virt)] = NoPage THEN "scan" ELSE "pte"
      /\ UNCHANGED <<mem_map, s2_pgd, s2_pmd, s2_pte, vs_pgd, vs_pmd, vs_pte, vsatp, job, i,
                     page, gpa, cell, seen, panicked>>
  BY DEF PmdTest, At, s2, vs
<1>2. PagesOK' /\ Stage2OK'
  BY <1>1, PagesSame, GuestStage2
<1>3. TypeOK' /\ virt' = virt
  BY <1>1 DEF IInv, TypeOK, Places, virt
<1>4. AllocOK'
  BY <1>1, <1>3, Layout DEF IInv, AllocOK, Allocating
<1>5. Stage1OK' /\ WordOK'
  BY <1>1 DEF IInv, Stage1OK, Testing, WordOK
<1> QED
  BY <1>1, <1>2, <1>3, <1>4, <1>5 DEF IInv

LEMMA ScanStep == ASSUME IInv, Scan PROVE IInv'
<1>1. /\ ~panicked /\ pc = "scan" /\ At("scan")
      /\ UNCHANGED <<mem_map, s2_pgd, s2_pmd, s2_pte, vs_pgd, vs_pmd, vs_pte, vsatp, job,
                     gpa, cell, seen, panicked>>
      /\ \/ i \notin mem_map /\ pc' = "take" /\ i' = i /\ page' = page
         \/ i \in mem_map /\ i + 1 < NR_PAGES /\ i' = i + 1 /\ pc' = pc /\ page' = page
         \/ i \in mem_map /\ ~(i + 1 < NR_PAGES) /\ pc' = "zero" /\ page' = NoPage /\ i' = 0
  BY DEF Scan, At, s2, vs
<1>2. /\ i \in 0 .. NR_PAGES - 1 /\ page = NoPage /\ 0 .. i - 1 \subseteq mem_map
      /\ vs_pgd[Gig(virt)] = NoPage \/ vs_pmd[Region(virt)] = NoPage
  BY <1>1 DEF IInv, TypeOK, AllocOK, Allocating
<1>3. PagesOK' /\ Stage2OK' /\ page' = page
  BY <1>1, <1>2, PagesSame, GuestStage2
<1>4. TypeOK' /\ virt' = virt
  <2>1. i' \in 0 .. NR_PAGES - 1
    BY <1>1, <1>2, Layout
  <2> QED
    BY <1>1, <1>3, <2>1 DEF IInv, TypeOK, Places, virt
<1>5. AllocOK'
  <2>1. pc' = "zero" => Full(mem_map)
    BY <1>1, <1>2, Layout DEF Full
  <2>2. pc' \in {"scan", "take"} => 0 .. i' - 1 \subseteq mem_map
    BY <1>1, <1>2, Layout
  <2>3. /\ pc' \in {"scan", "take", "zero"} /\ (pc' = "zero" => i' = 0)
        /\ pc' = "take" => i' \notin mem_map
    BY <1>1
  <2> QED
    BY <1>1, <1>2, <1>3, <1>4, <2>1, <2>2, <2>3 DEF AllocOK, Allocating, Full
<1>6. Stage1OK' /\ WordOK'
  BY <1>1 DEF IInv, Stage1OK, Testing, WordOK
<1> QED
  BY <1>1, <1>3, <1>4, <1>5, <1>6 DEF IInv

LEMMA TakeStep == ASSUME IInv, Take PROVE IInv'
<1>1. /\ ~panicked /\ pc = "take" /\ At("take")
      /\ UNCHANGED <<s2_pgd, s2_pmd, s2_pte, vs_pgd, vs_pmd, vs_pte, vsatp, job,
                     gpa, cell, seen, panicked>>
      /\ mem_map' = mem_map \cup {i} /\ page' = End + i /\ i' = 0 /\ pc' = "zero"
  BY DEF Take, At, s2, vs
<1>2. /\ i \in 0 .. NR_PAGES - 1 /\ page = NoPage /\ 0 .. i - 1 \subseteq mem_map /\ i \notin mem_map
      /\ vs_pgd[Gig(virt)] = NoPage \/ vs_pmd[Region(virt)] = NoPage
      /\ gpa \in Frames /\ mem_map \in SUBSET (0 .. NR_PAGES - 1)
      /\ PagesOK /\ Kept(Held, mem_map)
  BY <1>1 DEF IInv, TypeOK, AllocOK, Allocating, PagesOK, Kept
<1>3. page' \in Frames /\ page' # NoPage
  BY <1>1, <1>2, Layout DEF Frames, NoPage
<1>4. /\ Held[<<"new", 0>>] = NoPage /\ Held'[<<"new", 0>>] = End + i
      /\ <<"new", 0>> \in Slots
      /\ \A t \in Slots : t # <<"new", 0>> => Held'[t] = Held[t]
  <2>1. \A t \in Slots : t[1] = "new" => t = <<"new", 0>>
    BY DEF Slots
  <2> QED
    BY <1>1, <1>2, <2>1, HeldValues DEF Held
<1>5. Kept(Held', mem_map')
  <2>1. Kept(Held', mem_map \cup {i})
    BY <1>2, <1>4, Give
  <2> QED
    BY <1>1, <2>1
<1>6. PagesOK'
  BY <1>1, <1>5 DEF PagesOK, Kept, Exclusive, Accounted, Full
<1>7. Stage2OK' /\ virt' = virt
  BY <1>1, GuestStage2 DEF virt
<1>8. TypeOK'
  BY <1>1, <1>2, <1>3, Layout DEF IInv, TypeOK, Places
<1>9. AllocOK'
  BY <1>1, <1>2, <1>3, <1>7 DEF AllocOK, Allocating
<1>10. Stage1OK' /\ WordOK'
  BY <1>1 DEF IInv, Stage1OK, Testing, WordOK
<1> QED
  BY <1>1, <1>6, <1>7, <1>8, <1>9, <1>10 DEF IInv

LEMMA ZeroStep == ASSUME IInv, Zero PROVE IInv'
<1>1. /\ ~panicked /\ pc = "zero" /\ At("zero") /\ page # NoPage
      /\ cell' = Zeroed({page}) /\ pc' = "hang"
      /\ UNCHANGED <<mem_map, s2_pgd, s2_pmd, s2_pte, vs_pgd, vs_pmd, vs_pte, vsatp, job, i,
                     page, gpa, seen, panicked>>
  BY DEF Zero, At, Oops, s2, vs
<1>2. PagesOK' /\ Stage2OK' /\ virt' = virt
  BY <1>1, PagesSame, GuestStage2 DEF virt
<1>3. cell' = cell
  <2>1. gpa # page
    <3>1. <<"gpa", 0>> # <<"new", 0>>
      OBVIOUS
    <3> QED
      BY <1>1, <3>1, HeldValues DEF IInv, PagesOK, Exclusive
  <2> QED
    BY <1>1, <2>1 DEF Zeroed
<1>4. TypeOK'
  BY <1>1, <1>3 DEF IInv, TypeOK, Places
<1>5. AllocOK'
  BY <1>1, <1>2 DEF IInv, AllocOK, Allocating
<1>6. Stage1OK' /\ WordOK'
  BY <1>1, <1>3 DEF IInv, Stage1OK, Testing, WordOK
<1> QED
  BY <1>1, <1>2, <1>4, <1>5, <1>6 DEF IInv

LEMMA HangStep == ASSUME IInv, Hang PROVE IInv'
<1> DEFINE top == vs_pgd[Gig(virt)] = NoPage
<1>1. /\ ~panicked /\ pc = "hang" /\ At("hang")
      /\ page' = NoPage
      /\ UNCHANGED <<mem_map, s2_pgd, s2_pmd, s2_pte, vs_pte, vsatp, job, i, gpa, cell, seen,
                     panicked>>
  BY DEF Hang, At, s2
<1>2. /\ top => vs_pgd' = [vs_pgd EXCEPT ![Gig(virt)] = page] /\ pc' = "pmd" /\ vs_pmd' = vs_pmd
      /\ ~top => vs_pmd' = [vs_pmd EXCEPT ![Region(virt)] = page] /\ pc' = "pte" /\ vs_pgd' = vs_pgd
  <2>1. NoTable = "pgd" <=> top
    BY DEF NoTable
  <2> HIDE DEF top
  <2> QED
    BY <2>1 DEF Hang
<1>3. /\ TypeOK /\ PagesOK /\ Kept(Held, mem_map)
      /\ page \in Frames /\ page # NoPage /\ i = 0
      /\ top \/ vs_pmd[Region(virt)] = NoPage
      /\ vs_pgd \in [Gigs -> Frames \cup {NoPage}] /\ vs_pmd \in [Regions -> Frames \cup {NoPage}]
  BY <1>1 DEF IInv, TypeOK, AllocOK, Allocating, PagesOK, Kept
<1>4. Gig(virt) \in Gigs /\ Region(virt) \in Regions /\ virt' = virt
  BY <1>1, <1>3, Virt DEF virt
<1>5. /\ vs_pgd' \in [Gigs -> Frames \cup {NoPage}] /\ vs_pmd' \in [Regions -> Frames \cup {NoPage}]
      /\ pc' = "pmd" => vs_pgd'[Gig(virt)] # NoPage
      /\ pc' = "pte" => vs_pmd'[Region(virt)] # NoPage
      /\ pc' \in {"pmd", "pte"}
  <2>1. CASE top
    BY <1>2, <1>3, <1>4, <2>1
  <2>2. CASE ~top
    BY <1>2, <1>3, <1>4, <2>2
  <2> QED
    BY <2>1, <2>2
<1>6. Kept(Held', mem_map)
  <2> DEFINE tN == <<"new", 0>>
             tG == <<"vs_pgd", Gig(virt)>>
             tR == <<"vs_pmd", Region(virt)>>
             t1 == IF top THEN tG ELSE tR
  <2>1. /\ tN \in Slots /\ tG \in Slots /\ tR \in Slots
        /\ Held[tN] = page /\ Held[tG] = vs_pgd[Gig(virt)] /\ Held[tR] = vs_pmd[Region(virt)]
    BY <1>4, HeldValues
  <2>2. Held'[tN] = NoPage /\ Held'[tG] = vs_pgd'[Gig(virt)] /\ Held'[tR] = vs_pmd'[Region(virt)]
    BY <1>1, <2>1 DEF Held
  <2>3. tN # t1 /\ t1 \in Slots
    BY <2>1
  <2>4. Held[t1] = NoPage /\ Held'[t1] = page
    BY <1>2, <1>3, <1>4, <2>1, <2>2
  <2>5. ASSUME NEW t \in Slots, t # tN, t # t1 PROVE Held'[t] = Held[t]
    <3>1. CASE t = <<"gpa", 0>>
      BY <1>1, <3>1 DEF Held
    <3>2. ASSUME NEW g \in Gigs, t = <<"s2_pgd", g>> PROVE Held'[t] = Held[t]
      BY <1>1, <3>2 DEF Held
    <3>3. ASSUME NEW r \in Regions, t = <<"s2_pmd", r>> PROVE Held'[t] = Held[t]
      BY <1>1, <3>3 DEF Held
    <3>4. ASSUME NEW g \in Gigs, t = <<"vs_pgd", g>> PROVE Held'[t] = Held[t]
      <4>1. Held'[t] = vs_pgd'[g] /\ Held[t] = vs_pgd[g]
        BY <3>4 DEF Held
      <4>2. top => g # Gig(virt)
        BY <2>5, <3>4
      <4>3. vs_pgd'[g] = vs_pgd[g]
        BY <1>2, <1>3, <4>2
      <4> QED
        BY <4>1, <4>3
    <3>5. ASSUME NEW r \in Regions, t = <<"vs_pmd", r>> PROVE Held'[t] = Held[t]
      <4>1. Held'[t] = vs_pmd'[r] /\ Held[t] = vs_pmd[r]
        BY <3>5 DEF Held
      <4>2. ~top => r # Region(virt)
        BY <2>5, <3>5
      <4>3. vs_pmd'[r] = vs_pmd[r]
        BY <1>2, <1>3, <4>2
      <4> QED
        BY <4>1, <4>3
    <3> QED
      BY <2>5, <3>1, <3>2, <3>3, <3>4, <3>5, SlotCases
  <2> HIDE DEF tN, t1
  <2> QED
    BY <1>3, <2>1, <2>2, <2>3, <2>4, <2>5, Move
<1>7. PagesOK'
  BY <1>1, <1>6 DEF PagesOK, Kept, Exclusive, Accounted, Full
<1>8. Stage2OK'
  BY <1>1, GuestStage2
<1>9. TypeOK'
  BY <1>1, <1>3, <1>5 DEF TypeOK, Places
<1>10. AllocOK'
  BY <1>1, <1>3, <1>4, <1>5 DEF AllocOK, Allocating
<1>11. Stage1OK' /\ WordOK'
  BY <1>1, <1>5 DEF IInv, Stage1OK, Testing, WordOK
<1> QED
  BY <1>1, <1>7, <1>8, <1>9, <1>10, <1>11 DEF IInv

\* What is before a number of a range is in the range.
LEMMA Below ==
    ASSUME NEW n \in Nat, NEW m \in 1 .. n, NEW k \in 1 .. m - 1
    PROVE  k \in 1 .. n
OBVIOUS

LEMMA PteSetStep == ASSUME IInv, PteSet PROVE IInv'
<1>1. /\ ~panicked /\ pc = "pte" /\ At("pte")
      /\ vs_pte' = [vs_pte EXCEPT ![virt] = phys]
      /\ UNCHANGED <<mem_map, s2_pgd, s2_pmd, s2_pte, vs_pgd, vs_pmd, vsatp, i, page, gpa, cell,
                     seen, panicked>>
      /\ \/ job = Len(VsPages) /\ pc' = "print" /\ job' = job
         \/ /\ job # Len(VsPages) /\ job' = job + 1
            /\ pc' = IF job + 1 = Len(VsPages) THEN "vsatp" ELSE "pgd"
  BY DEF PteSet, At, s2
<1>2. /\ TypeOK /\ AllocOK /\ Stage1OK /\ job \in 1 .. Len(VsPages)
      /\ vs_pte \in [Pages -> Pages \cup {NoPage}]
  BY DEF IInv, TypeOK
<1>3. virt \in Pages /\ phys \in Pages /\ phys # NoPage /\ (virt = VsMem <=> job = Len(VsPages))
  BY <1>2, Virt, Layout
<1>4. vs_pte' \in [Pages -> Pages \cup {NoPage}] /\ vs_pte'[virt] = phys
  BY <1>1, <1>2, <1>3
<1>5. job' \in 1 .. Len(VsPages) /\ pc' \in {"print", "vsatp", "pgd"}
  BY <1>1, <1>2, VsPagesList
<1>6. PagesOK' /\ Stage2OK'
  BY <1>1, PagesSame, GuestStage2
<1>7. TypeOK'
  BY <1>1, <1>2, <1>4, <1>5 DEF TypeOK, Places
<1>8. AllocOK'
  BY <1>1, <1>2, <1>5 DEF AllocOK, Allocating
<1>9. Stage1OK'
  <2>1. ASSUME NEW k \in 1 .. job' - 1 PROVE vs_pte'[VsPages[k]] # NoPage
    <3>1. k \in 1 .. Len(VsPages) /\ VsPages[k] \in Pages
      <4>1. Len(VsPages) \in Nat /\ job' \in 1 .. Len(VsPages)
        BY <1>5, VsPagesList
      <4>2. k \in 1 .. Len(VsPages)
        BY <4>1, Below
      <4> QED
        BY <4>2, VsPagesList
    <3>2. CASE VsPages[k] = virt
      BY <1>3, <1>4, <3>2
    <3>3. CASE VsPages[k] # virt
      <4>1. k \in 1 .. job - 1
        BY <1>1, <1>2, <3>3, VsPagesList DEF virt
      <4>2. vs_pte'[VsPages[k]] = vs_pte[VsPages[k]]
        BY <1>1, <1>2, <3>1, <3>3
      <4> QED
        BY <1>2, <4>1, <4>2 DEF Stage1OK
    <3> QED
      BY <3>2, <3>3
  <2>2. job' = Len(VsPages) <=> vsatp' \/ pc' = "vsatp"
    BY <1>1, <1>2, VsPagesList DEF Stage1OK
  <2>3. pc' \in Testing => vsatp' /\ vs_pte'[VsMem] = gpa'
    <3> SUFFICES ASSUME pc' \in Testing PROVE vsatp' /\ vs_pte'[VsMem] = gpa'
      OBVIOUS
    <3>1. job = Len(VsPages)
      BY <1>1 DEF Testing
    <3>2. vsatp /\ vs_pte'[VsMem] = gpa
      BY <1>1, <1>2, <1>3, <1>4, <3>1 DEF Stage1OK, phys
    <3> QED
      BY <1>1, <3>2
  <2> QED
    BY <2>1, <2>2, <2>3 DEF Stage1OK
<1>10. WordOK'
  BY <1>1, <1>5 DEF IInv, WordOK
<1> QED
  BY <1>1, <1>6, <1>7, <1>8, <1>9, <1>10 DEF IInv

LEMMA WriteVsatpStep == ASSUME IInv, WriteVsatp PROVE IInv'
<1>1. /\ ~panicked /\ pc = "vsatp" /\ At("vsatp") /\ vsatp' = TRUE /\ pc' = "pgd"
      /\ UNCHANGED <<mem_map, s2_pgd, s2_pmd, s2_pte, vs_pgd, vs_pmd, vs_pte, job, i, page, gpa,
                     cell, seen, panicked>>
  BY DEF WriteVsatp, At, s2, vs
<1>2. PagesOK' /\ Stage2OK'
  BY <1>1, PagesSame, GuestStage2
<1>3. TypeOK' /\ AllocOK'
  BY <1>1 DEF IInv, TypeOK, Places, AllocOK, Allocating
<1>4. Stage1OK' /\ WordOK'
  BY <1>1 DEF IInv, Stage1OK, Testing, WordOK
<1> QED
  BY <1>1, <1>2, <1>3, <1>4 DEF IInv

\* What has been read in the end.
LEMMA LastRead == Append(<<"mark", "mark">>, "host") = <<"mark", "mark", "host">>
<1>1. <<"mark", "mark">> \in Seq({"mark", "host"})
  OBVIOUS
<1>2. Append(<<"mark", "mark">>, "host") = <<"mark", "mark">> \o <<"host">>
  BY <1>1, AppendIsConcat
<1>3. <<"mark", "mark", "host">> = <<"mark", "mark">> \o <<"host">>
  OBVIOUS
<1> QED
  BY <1>2, <1>3

LEMMA TestStep == ASSUME IInv, NEW place \in DOMAIN AfterAccess, Test(place) PROVE IInv'
<1>1. /\ ~panicked /\ pc = place /\ At(place) /\ pc' = AfterAccess[place]
      /\ seen' = IF place \in {"read", "hlv", "reread"} THEN Append(seen, Word) ELSE seen
      /\ cell' = IF place = "hsv" /\ vs_pte[VsMem] = gpa THEN "host" ELSE cell
      /\ UNCHANGED <<mem_map, s2_pgd, s2_pmd, s2_pte, vs_pgd, vs_pmd, vs_pte, vsatp, job, i, page,
                     gpa, panicked>>
  BY DEF Test, At, s2, vs
<1>2. place \in {"print", "read", "hlv", "hsv", "reread"}
  BY DEF AfterAccess
<1>3. /\ place = "print" => pc' = "read"
      /\ place = "read" => pc' = "hlv"
      /\ place = "hlv" => pc' = "hsv"
      /\ place = "hsv" => pc' = "reread"
      /\ place = "reread" => pc' = "done"
  BY <1>1 DEF AfterAccess
<1>4. vsatp /\ vs_pte[VsMem] = gpa /\ Word = cell
  BY <1>1, <1>2 DEF IInv, Stage1OK, Testing, Word
<1>5. PagesOK' /\ Stage2OK' /\ virt' = virt
  BY <1>1, PagesSame, GuestStage2 DEF virt
<1>6. WordOK'
  <2>1. CASE place = "print"
    BY <1>1, <1>3, <1>4, <2>1 DEF IInv, WordOK
  <2>2. CASE place = "read"
    BY <1>1, <1>3, <1>4, <2>2 DEF IInv, WordOK
  <2>3. CASE place = "hlv"
    BY <1>1, <1>3, <1>4, <2>3 DEF IInv, WordOK
  <2>4. CASE place = "hsv"
    BY <1>1, <1>3, <1>4, <2>4 DEF IInv, WordOK
  <2>5. CASE place = "reread"
    <3>1. cell = "host" /\ seen = <<"mark", "mark">>
      BY <1>1, <2>5 DEF IInv, WordOK
    <3>2. seen' = Append(<<"mark", "mark">>, "host") /\ cell' = "host" /\ pc' = "done"
      BY <1>1, <1>3, <1>4, <2>5, <3>1
    <3> QED
      BY <3>2, LastRead DEF WordOK
  <2> QED
    BY <1>2, <2>1, <2>2, <2>3, <2>4, <2>5
<1>7. TypeOK'
  <2>1. /\ cell' \in {"mark", "host", "zero"} /\ pc' \in Places
        /\ seen' \in Seq({"mark", "host", "zero", "other"})
    BY <1>1, <1>2, <1>3, <1>4 DEF IInv, TypeOK, Places
  <2> QED
    BY <1>1, <2>1 DEF IInv, TypeOK
<1>8. pc' \in Testing \ {"print"}
  BY <1>2, <1>3 DEF Testing
<1>9. AllocOK'
  BY <1>1, <1>2, <1>5, <1>8 DEF IInv, AllocOK, Allocating, Testing
<1>10. Stage1OK'
  BY <1>1, <1>4, <1>8 DEF IInv, Stage1OK, Testing
<1> QED
  BY <1>1, <1>5, <1>6, <1>7, <1>9, <1>10 DEF IInv

-----------------------------------------------------------------------------
(* The theorems.                                                            *)

LEMMA InitInv == ASSUME Init PROVE IInv
<1>1. /\ gpa \in Frames /\ gpa < DdrEnd /\ gpa \in Nat /\ End \in Nat /\ End <= gpa
      /\ mem_map = 0 .. gpa - End /\ page = NoPage /\ ~panicked /\ pc = "pgd" /\ i = 0
      /\ job = 1 /\ vsatp = FALSE
  BY Layout DEF Init, Frames
<1>2. ASSUME NEW t \in Slots PROVE Held[t] = IF t = <<"gpa", 0>> THEN gpa ELSE NoPage
  <2>1. \A g \in Gigs : s2_pgd[g] = NoPage /\ vs_pgd[g] = NoPage
    BY DEF Init
  <2>2. \A r \in Regions : s2_pmd[r] = NoPage /\ vs_pmd[r] = NoPage
    BY DEF Init
  <2>3. CASE t = <<"gpa", 0>>
    BY <2>3, HeldValues
  <2>4. CASE t = <<"new", 0>>
    BY <1>1, <2>4, HeldValues
  <2>5. ASSUME NEW g \in Gigs, t \in {<<"s2_pgd", g>>, <<"vs_pgd", g>>}
        PROVE  Held[t] = NoPage /\ t # <<"gpa", 0>>
    <3>1. t[1] \in {"s2_pgd", "vs_pgd"} /\ <<"gpa", 0>>[1] = "gpa"
      BY <2>5
    <3>2. Held[t] = NoPage
      BY <2>1, <2>5, HeldValues, Zenon
    <3>3. t # <<"gpa", 0>>
      BY <3>1
    <3> QED
      BY <3>2, <3>3
  <2>6. ASSUME NEW r \in Regions, t \in {<<"s2_pmd", r>>, <<"vs_pmd", r>>}
        PROVE  Held[t] = NoPage /\ t # <<"gpa", 0>>
    <3>1. t[1] \in {"s2_pmd", "vs_pmd"} /\ <<"gpa", 0>>[1] = "gpa"
      BY <2>6
    <3>2. Held[t] = NoPage
      BY <2>2, <2>6, HeldValues, Zenon
    <3>3. t # <<"gpa", 0>>
      BY <3>1
    <3> QED
      BY <3>2, <3>3
  <2> QED
    BY <2>3, <2>4, <2>5, <2>6, SlotCases
<1>3. TypeOK
  <2>1. gpa - End \in 0 .. NR_PAGES - 1 /\ 0 \in 0 .. NR_PAGES - 1
    BY <1>1, Layout DEF Frames
  <2>2. mem_map \subseteq 0 .. NR_PAGES - 1
    BY <1>1, <2>1, Layout
  <2>3. job \in 1 .. Len(VsPages) /\ i \in 0 .. NR_PAGES - 1
    BY <1>1, <2>1, VsPagesList
  <2>4. seen \in Seq({"mark", "host", "zero", "other"}) /\ cell \in {"mark", "host", "zero"}
    BY DEF Init
  <2> QED
    BY <1>1, <2>2, <2>3, <2>4 DEF Init, TypeOK, Places
<1>4. PagesOK
  <2>1. Exclusive(Held)
    BY <1>2 DEF Exclusive
  <2>2. Accounted(Held, mem_map)
    <3> SUFFICES ASSUME NEW k \in 0 .. NR_PAGES - 1
                 PROVE  (k \in mem_map /\ gpa <= End + k) <=> \E t \in Slots : Held[t] = End + k
      BY DEF Accounted
    <3>1. (\E t \in Slots : Held[t] = End + k) <=> gpa = End + k
      BY <1>2, HeldValues, Layout DEF NoPage
    <3>2. (k \in mem_map /\ gpa <= End + k) <=> gpa = End + k
      BY <1>1, Layout
    <3> QED
      BY <3>1, <3>2
  <2>3. \A t \in Slots : ~(Held[t] >= DdrEnd)
    BY <1>1, <1>2, Layout DEF NoPage
  <2> QED
    BY <1>1, <2>1, <2>2, <2>3 DEF PagesOK
<1>5. Stage2OK
  BY <1>1 DEF Init, Stage2OK
<1>6. AllocOK
  BY <1>1 DEF AllocOK, Allocating
<1>7. Stage1OK
  BY <1>1, VsPagesList DEF Stage1OK, Testing
<1>8. WordOK
  BY <1>1 DEF Init, WordOK
<1> QED
  BY <1>1, <1>3, <1>4, <1>5, <1>6, <1>7, <1>8 DEF IInv

LEMMA NextInv == ASSUME IInv, [Next]_vars PROVE IInv'
<1>1. ASSUME Guest PROVE IInv'
  BY <1>1, PgdTestStep, PmdTestStep, ScanStep, TakeStep, ZeroStep, HangStep, PteSetStep,
     WriteVsatpStep, TestStep DEF Guest
<1>2. ASSUME UNCHANGED vars PROVE IInv'
  <2>1. UNCHANGED <<mem_map, s2_pgd, s2_pmd, s2_pte, vs_pgd, vs_pmd, vs_pte, vsatp, pc, job, i,
                    page, gpa, cell, seen, panicked>>
    BY <1>2 DEF vars, s2, vs
  <2>2. TypeOK' /\ virt' = virt /\ PagesOK'
    BY <2>1, PagesSame DEF IInv, TypeOK, virt
  <2>3. Stage2OK' /\ AllocOK'
    BY <2>1, <2>2 DEF IInv, Stage2OK, Mapped, AllocOK, Full
  <2>4. Stage1OK' /\ WordOK'
    BY <2>1 DEF IInv, Stage1OK, WordOK
  <2> QED
    BY <2>1, <2>2, <2>3, <2>4 DEF IInv
<1> QED
  BY <1>1, <1>2, FaultStep, PanicStep DEF Next

THEOREM Invariance == Spec => []IInv
<1>1. Init => IInv
  BY InitInv
<1>2. IInv /\ [Next]_vars => IInv'
  BY NextInv
<1> QED
  BY <1>1, <1>2, PTL DEF Spec

\* The tables, the allocator's loop and the guest's place stay within their types.
THEOREM Typing == Spec => []TypeOK
<1>1. IInv => TypeOK
  BY DEF IInv
<1> QED
  BY <1>1, Invariance, PTL

\* A use is a place that holds a page.
LEMMA UsesAreHeld ==
    /\ \A u \in Uses : \E t \in Slots : u = <<t[1], t[2], Held[t]>> /\ Held[t] # NoPage
    /\ \A t \in Slots : Held[t] # NoPage => <<t[1], t[2], Held[t]>> \in Uses
<1> DEFINE Use(t) == <<t[1], t[2], Held[t]>>
<1>1. /\ Use(<<"gpa", 0>>) = <<"gpa", 0, gpa>> /\ Use(<<"new", 0>>) = <<"new", 0, page>>
      /\ <<"gpa", 0>> \in Slots /\ <<"new", 0>> \in Slots
  BY HeldValues
<1>2. ASSUME NEW g \in Gigs
      PROVE  /\ Use(<<"s2_pgd", g>>) = <<"s2_pgd", g, s2_pgd[g]>> /\ <<"s2_pgd", g>> \in Slots
             /\ Use(<<"vs_pgd", g>>) = <<"vs_pgd", g, vs_pgd[g]>> /\ <<"vs_pgd", g>> \in Slots
  BY HeldValues
<1>3. ASSUME NEW r \in Regions
      PROVE  /\ Use(<<"s2_pmd", r>>) = <<"s2_pmd", r, s2_pmd[r]>> /\ <<"s2_pmd", r>> \in Slots
             /\ Use(<<"vs_pmd", r>>) = <<"vs_pmd", r, vs_pmd[r]>> /\ <<"vs_pmd", r>> \in Slots
  BY HeldValues
<1>4. \A t : Use(t)[3] = Held[t]
  OBVIOUS
<1> HIDE DEF Use
<1>5. ASSUME NEW u \in Uses
      PROVE  \E t \in Slots : u = Use(t) /\ Held[t] # NoPage
  <2>1. u[3] # NoPage
    BY DEF Uses
  <2>2. \E t \in Slots : u = Use(t)
    BY <1>1, <1>2, <1>3 DEF Uses
  <2> QED
    BY <1>4, <2>1, <2>2
<1>6. ASSUME NEW t \in Slots, Held[t] # NoPage
      PROVE  Use(t) \in Uses
  <2>1. Use(t)[3] # NoPage
    BY <1>4, <1>6
  <2> DEFINE All == {<<"gpa", 0, gpa>>, <<"new", 0, page>>}
                       \cup {<<"s2_pgd", g, s2_pgd[g]>> : g \in Gigs}
                       \cup {<<"s2_pmd", r, s2_pmd[r]>> : r \in Regions}
                       \cup {<<"vs_pgd", g, vs_pgd[g]>> : g \in Gigs}
                       \cup {<<"vs_pmd", r, vs_pmd[r]>> : r \in Regions}
  <2>2. Use(t) \in All
    <3>1. CASE t = <<"gpa", 0>> \/ t = <<"new", 0>>
      BY <1>1, <3>1
    <3>2. ASSUME NEW g \in Gigs, t = <<"s2_pgd", g>> \/ t = <<"vs_pgd", g>> PROVE Use(t) \in All
      BY <1>2, <3>2
    <3>3. ASSUME NEW r \in Regions, t = <<"s2_pmd", r>> \/ t = <<"vs_pmd", r>> PROVE Use(t) \in All
      BY <1>3, <3>3
    <3> HIDE DEF All
    <3> QED
      BY <3>1, <3>2, <3>3, SlotCases
  <2>3. Uses = {u \in All : u[3] # NoPage}
    BY DEF Uses
  <2> HIDE DEF All
  <2> QED
    BY <2>1, <2>2, <2>3
<1> QED
  BY <1>5, <1>6 DEF Use

\* However the guest's calls of get_free_page and those of the faults interleave, no
\* page is in two tables, or in one and gpa_addr.
THEOREM NoPageTwice == Spec => []PagesExclusive
<1>1. ASSUME IInv PROVE PagesExclusive
  <2> SUFFICES ASSUME NEW u \in Uses, NEW v \in Uses, u[3] = v[3] PROVE u = v
    BY DEF PagesExclusive
  <2>1. PICK t \in Slots : u = <<t[1], t[2], Held[t]>> /\ Held[t] # NoPage
    BY UsesAreHeld
  <2>2. PICK w \in Slots : v = <<w[1], w[2], Held[w]>> /\ Held[w] # NoPage
    BY UsesAreHeld
  <2>3. Held[t] = Held[w]
    BY <2>1, <2>2
  <2>4. t = w
    BY <1>1, <2>1, <2>3 DEF IInv, PagesOK, Exclusive
  <2> QED
    BY <2>1, <2>2, <2>4
<1> QED
  BY <1>1, Invariance, PTL

\* And none is marked without being in use, or in use without being marked.
THEOREM NoPageLost == Spec => []PagesAccounted
<1>1. ASSUME IInv PROVE PagesAccounted
  <2> SUFFICES ASSUME ~panicked
               PROVE  {u[3] : u \in Uses} = {End + k : k \in mem_map} \ (End .. gpa - 1)
    BY DEF PagesAccounted
  <2>1. /\ TypeOK /\ Accounted(Held, mem_map) /\ mem_map \subseteq 0 .. NR_PAGES - 1
        /\ gpa \in Nat
    BY <1>1, Layout DEF IInv, PagesOK, TypeOK
  <2>2. ASSUME NEW u \in Uses
        PROVE  u[3] \in {End + k : k \in mem_map} \ (End .. gpa - 1)
    <3>1. PICK t \in Slots : u[3] = Held[t] /\ Held[t] # NoPage
      BY UsesAreHeld
    <3>2. PICK k \in 0 .. NR_PAGES - 1 : Held[t] = End + k
      <4>1. Held[t] \in Frames
        BY <2>1, <3>1, HeldType
      <4>2. Held[t] - End \in 0 .. NR_PAGES - 1 /\ Held[t] = End + (Held[t] - End)
        BY <4>1, Layout DEF Frames
      <4> QED
        BY <4>2
    <3>3. k \in mem_map /\ gpa <= End + k
      BY <2>1, <3>2 DEF Accounted
    <3> QED
      BY <2>1, <3>1, <3>2, <3>3, Layout
  <2>3. ASSUME NEW k \in mem_map, End + k \notin End .. gpa - 1
        PROVE  \E u \in Uses : u[3] = End + k
    <3>1. k \in 0 .. NR_PAGES - 1 /\ gpa <= End + k /\ End + k # NoPage
      BY <2>1, <2>3, Layout DEF NoPage
    <3>2. PICK t \in Slots : Held[t] = End + k
      BY <2>1, <3>1 DEF Accounted
    <3> QED
      BY <3>1, <3>2, UsesAreHeld
  <2> QED
    BY <2>2, <2>3
<1> QED
  BY <1>1, Invariance, PTL

\* A panic means that the allocator has handed out all of the DDR.
THEOREM PanicMeansFull == Spec => []PanicsOnlyWithoutPages
<1>1. IInv => PanicsOnlyWithoutPages
  BY DEF IInv, PagesOK, Full, PanicsOnlyWithoutPages
<1> QED
  BY <1>1, Invariance, PTL

\* Through both stages guest and hypervisor see one word.
THEOREM MarkIsRead == Spec => []GuestReadsTheMark
<1>1. IInv => GuestReadsTheMark
  BY DEF IInv, WordOK, GuestReadsTheMark
<1> QED
  BY <1>1, Invariance, PTL

=============================================================================
