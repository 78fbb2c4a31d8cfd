------------------------- MODULE LockFreeListProofs -------------------------
(***************************************************************************)
(* Theorems about LockFreeList for every number of threads and of nodes.   *)
(***************************************************************************)
EXTENDS LockFreeList, TLAPS, WellFoundedInduction

-----------------------------------------------------------------------------
(* The inductive invariant.                                                 *)
(*                                                                          *)
(* A node is in one of three conditions: malloc has not returned it, one    *)
(* add_node has it in new and has not linked it, or it has been linked.     *)
(* Only a node of the third kind has a predecessor or can be deleted, so a  *)
(* cmpxchg that links a node links one that nothing points to, and one that *)
(* cuts a node off removes its only link.                                   *)

Links == {head} \cup Nodes

\* The node thread t has from malloc and has not linked yet.
InHand(t, p, n) == t \in Adders /\ p[t] # "idle" /\ n[t] # NULL

\* What a thread holds: the two places that dereference cur come after a test.
ThreadsOK ==
    /\ \A t \in Threads : new[t] # head
    /\ \A t \in Threads : pc[t] \in {"link", "step"} => cur[t] # NULL

\* A link leads to a node that malloc has returned and del_node has not cut off.
LinksOK == \A m \in Links : next[m] \in (1 .. nodes \cup {NULL}) \ deleted

\* A node in the hands of an add_node belongs to that thread alone.
HandsOK ==
    \A t \in Threads : InHand(t, pc, new) =>
        /\ \A m \in Links : next[m] # new[t]
        /\ new[t] \notin deleted
        /\ \A u \in Threads \ {t} : InHand(u, pc, new) => new[u] # new[t]

IInv == TypeOK /\ ThreadsOK /\ LinksOK /\ HandsOK /\ OnePredecessor

-----------------------------------------------------------------------------
(* Each step preserves the invariant. *)

\* The invariant holds of the empty list.
LEMMA InitInv == Init => IInv
<1> SUFFICES ASSUME Init PROVE IInv
  OBVIOUS
<1>1. TypeOK
  <2>1. 0 \in 0 .. MaxNodes /\ 0 \in 0 .. 0
    BY ListAssumption
  <2> QED
    BY <2>1 DEF Init, TypeOK, Places, head
<1>2. ThreadsOK /\ HandsOK
  BY DEF Init, ThreadsOK, HandsOK, InHand, NULL, head
<1>3. LinksOK /\ OnePredecessor
  BY DEF Init, LinksOK, OnePredecessor, Links
<1> QED
  BY <1>1, <1>2, <1>3 DEF IInv

\* What a thread of one kind can do, and that the head and the nodes are apart.
LEMMA Apart ==
    /\ \A t \in Threads : t \in Adders <=> t \notin Deleters
    /\ NULL \notin Links /\ head \in Links /\ head \notin Nodes
    /\ NULL # head
BY ListAssumption DEF Threads, NULL, Links, head, Nodes

\* The nodes malloc has returned are among the nodes.
LEMMA Given ==
    ASSUME TypeOK
    PROVE  /\ 1 .. nodes \subseteq Nodes
           /\ 0 .. nodes \subseteq Links
BY ListAssumption DEF TypeOK, Nodes, Links, head

\* malloc gives a node that is linked nowhere and held by nobody else.
LEMMA AddStartInv ==
    ASSUME IInv, NEW t \in Threads, AddStart(t)
    PROVE  IInv'
<1> USE DEF IInv, Links
<1>1. TypeOK'
  BY ListAssumption
  DEF AddStart, new_node, Goto, TypeOK, LinksOK, Places, NULL, head, Nodes
<1>2. ThreadsOK'
  BY DEF AddStart, new_node, Goto, TypeOK, ThreadsOK, NULL, head
<1>3. LinksOK'
  BY DEF AddStart, new_node, TypeOK, LinksOK, NULL, head, Nodes
<1>4. HandsOK'
  BY DEF AddStart, new_node, Goto, TypeOK, LinksOK, HandsOK, InHand, NULL, head, Nodes
<1>5. OnePredecessor'
  BY DEF AddStart, new_node, TypeOK, LinksOK, OnePredecessor, NULL, head, Nodes
<1> QED
  BY <1>1, <1>2, <1>3, <1>4, <1>5

\* The cmpxchg on head->next links a node in hand, or fails and the scan begins.
LEMMA AddFirstInv ==
    ASSUME IInv, NEW t \in Threads, AddFirst(t)
    PROVE  IInv'
<1> USE DEF IInv, Links
<1>1. TypeOK'
  <2>1. new[t] \in 1 .. nodes \cup {NULL} /\ 1 .. nodes \subseteq Nodes
    BY Given DEF TypeOK, ThreadsOK, head
  <2> QED
    BY <2>1 DEF AddFirst, Added, cmpxchg, Goto, TypeOK, Places
<1>2. ThreadsOK'
  BY DEF AddFirst, Added, Goto, TypeOK, ThreadsOK
<1>3. LinksOK'
  BY DEF AddFirst, cmpxchg, TypeOK, ThreadsOK, LinksOK, HandsOK, InHand, NULL, head
<1>4. HandsOK'
  BY DEF AddFirst, Added, cmpxchg, Succeeds, Goto, TypeOK, HandsOK, InHand
<1>5. OnePredecessor'
  BY DEF AddFirst, cmpxchg, TypeOK, LinksOK, HandsOK, InHand, OnePredecessor
<1> QED
  BY <1>1, <1>2, <1>3, <1>4, <1>5

\* The cmpxchg on next->next does the same behind the node the scan has reached.
LEMMA AddLinkInv ==
    ASSUME IInv, NEW t \in Threads, AddLink(t)
    PROVE  IInv'
<1> USE DEF IInv, Links
<1>1. cur[t] \in Links
  BY Given DEF AddLink, TypeOK, ThreadsOK
<1>2. TypeOK'
  <2>1. new[t] \in 1 .. nodes \cup {NULL} /\ 1 .. nodes \subseteq Nodes
    BY Given DEF TypeOK, ThreadsOK, head
  <2> QED
    BY <1>1, <2>1 DEF AddLink, Added, cmpxchg, Goto, TypeOK, Places
<1>3. ThreadsOK'
  BY DEF AddLink, Added, Goto, TypeOK, ThreadsOK
<1>4. LinksOK'
  BY <1>1 DEF AddLink, cmpxchg, TypeOK, ThreadsOK, LinksOK, HandsOK, InHand, NULL, head
<1>5. HandsOK'
  BY DEF AddLink, Added, cmpxchg, Succeeds, Goto, TypeOK, HandsOK, InHand
<1>6. OnePredecessor'
  BY DEF AddLink, cmpxchg, TypeOK, LinksOK, HandsOK, InHand, OnePredecessor
<1> QED
  BY <1>2, <1>3, <1>4, <1>5, <1>6

\* A thread that only walks changes nothing another thread can see.
LEMMA WalkInv ==
    ASSUME IInv, NEW t \in Threads, Scan(t) \/ Step(t) \/ DelStart(t)
    PROVE  IInv'
<1> USE DEF IInv
<1>1. UNCHANGED <<next, nodes, new, added, deleted>>
  BY DEF Scan, Step, DelStart
<1>2. cur'[t] \in 1 .. nodes \cup {NULL}
  <2>1. cur[t] \in 1 .. nodes \cup {NULL} /\ (cur[t] # NULL => cur[t] \in Links)
    BY Given DEF TypeOK
  <2> QED
    BY <2>1, Apart DEF Scan, Step, DelStart, TypeOK, ThreadsOK, LinksOK
<1>3. TypeOK' /\ ThreadsOK'
  <2>1. CASE Scan(t)
    BY <2>1 DEF Scan, Goto, TypeOK, ThreadsOK, Places, NULL
  <2>2. CASE Step(t)
    BY <1>2, <2>2 DEF Step, Goto, TypeOK, ThreadsOK, Places, NULL
  <2>3. CASE DelStart(t)
    BY <1>2, <2>3 DEF DelStart, Goto, TypeOK, ThreadsOK, Places, head
  <2> QED
    BY <2>1, <2>2, <2>3
<1>4. HandsOK'
  <2>1. \A u \in Threads : InHand(u, pc, new)' => InHand(u, pc, new)
    BY Apart DEF Scan, Step, DelStart, Goto, TypeOK, InHand
  <2> QED
    BY <1>1, <2>1 DEF HandsOK
<1>5. LinksOK' /\ OnePredecessor'
  BY <1>1 DEF LinksOK, OnePredecessor
<1> QED
  BY <1>3, <1>4, <1>5

\* The cmpxchg on prev->next removes the only link to the node it cuts off.
LEMMA DelUnlinkInv ==
    ASSUME IInv, NEW t \in Threads, DelUnlink(t)
    PROVE  IInv'
<1> USE DEF IInv, Links
<1>1. cur[t] \in 1 .. nodes /\ cur[t] # NULL
  BY DEF DelUnlink, TypeOK, ThreadsOK, NULL
<1>2. prev[t] \in Links
  BY Given DEF TypeOK
<1>3. TypeOK'
  BY <1>1 DEF DelUnlink, cmpxchg, Goto, TypeOK, Places, NULL, head, Nodes
<1>4. ThreadsOK'
  BY <1>1 DEF DelUnlink, Goto, TypeOK, ThreadsOK
<1>5. LinksOK'
  BY <1>1, <1>2 DEF DelUnlink, cmpxchg, Succeeds, TypeOK, LinksOK, OnePredecessor, NULL
<1>6. HandsOK'
  BY <1>1, <1>2, Apart
  DEF DelUnlink, cmpxchg, Succeeds, Goto, TypeOK, ThreadsOK, HandsOK, InHand
<1>7. OnePredecessor'
  BY DEF DelUnlink, cmpxchg, TypeOK, OnePredecessor, NULL
<1> QED
  BY <1>3, <1>4, <1>5, <1>6, <1>7

\* Every step preserves the invariant.
LEMMA NextInv == IInv /\ [Next]_vars => IInv'
<1> SUFFICES ASSUME IInv, [Next]_vars PROVE IInv'
  OBVIOUS
<1>1. CASE UNCHANGED vars
  BY <1>1
  DEF vars, IInv, TypeOK, ThreadsOK, LinksOK, HandsOK, InHand, OnePredecessor
<1>2. CASE ~UNCHANGED vars
  <2>1. PICK t \in Threads : Thread(t)
    BY <1>2 DEF Next
  <2> QED
    BY <2>1, AddStartInv, AddFirstInv, AddLinkInv, WalkInv, DelUnlinkInv DEF Thread
<1> QED
  BY <1>1, <1>2

LEMMA SpecInv == Spec => []IInv
BY InitInv, NextInv, PTL DEF Spec

-----------------------------------------------------------------------------
(* The nodes reachable from the head.                                       *)
(*                                                                          *)
(* Reach is defined by recursion on the number of hops.  That its equation  *)
(* has a solution, and what the solution contains, are both shown by taking *)
(* the least number of hops for which they fail.                            *)

\* A non-empty set of natural numbers has a least element.
LEMMA LeastNat ==
    ASSUME NEW S \in SUBSET Nat, S # {}
    PROVE  \E m \in S : \A k \in S : m <= k
<1>1. PICK m \in S : \A k \in S : <<k, m>> \notin OpToRel(<, Nat)
  BY WFMin, NatLessThanWellFounded, Zenon
<1>2. \A k \in S : ~(k < m)
  BY <1>1, Zenon DEF OpToRel
<1> QED
  BY <1>2

\* One more hop from the nodes of H.
Hop(H) == H \cup ({next[n] : n \in H} \ {NULL})

\* h gives the nodes reached from S in each number of hops up to j.
IsHops(S, h, j) == h = [k \in 0 .. j |-> IF k = 0 THEN S ELSE Hop(h[k - 1])]

\* The recursive definition in Reach has a solution.
LEMMA HopsExist ==
    ASSUME NEW S, NEW j \in Nat
    PROVE  \E h : IsHops(S, h, j)
<1> DEFINE Bad == {k \in Nat : ~ \E h : IsHops(S, h, k)}
<1> SUFFICES ASSUME Bad # {} PROVE FALSE
  OBVIOUS
<1>1. PICK m \in Bad : \A k \in Bad : m <= k
  BY LeastNat
<1>2. CASE m = 0
  <2>1. IsHops(S, [k \in 0 .. 0 |-> S], 0)
    BY DEF IsHops
  <2> QED
    BY <1>2, <2>1
<1>3. CASE m # 0
  <2>1. PICK h : IsHops(S, h, m - 1)
    BY <1>1, <1>3
  <2> DEFINE g == [k \in 0 .. m |-> IF k = m THEN Hop(h[m - 1]) ELSE h[k]]
  <2>2. ASSUME NEW k \in 0 .. m PROVE g[k] = IF k = 0 THEN S ELSE Hop(g[k - 1])
    <3> HIDE DEF Hop
    <3> QED
      BY <1>3, <2>1 DEF IsHops
  <2>3. IsHops(S, g, m)
    <3>1. g = [k \in 0 .. m |-> IF k = 0 THEN S ELSE Hop(g[k - 1])]
      BY <2>2
    <3> HIDE DEF g
    <3> QED
      BY <3>1 DEF IsHops
  <2> QED
    BY <2>3
<1> QED
  BY <1>2, <1>3

\* What a set contains that has the start and is closed under next, is all
\* that Reach gives.
LEMMA ReachWithin ==
    ASSUME NEW S, NEW C, S \subseteq C, \A n \in C : next[n] \in C \cup {NULL}
    PROVE  Reach(S) \subseteq C
<1> DEFINE N == MaxNodes + 1
           hops == CHOOSE h : IsHops(S, h, N)
<1>1. N \in Nat
  BY ListAssumption
<1>2. IsHops(S, hops, N)
  BY <1>1, HopsExist
<1>3. Reach(S) = hops[N]
  BY DEF Reach, IsHops, Hop
<1> HIDE DEF hops, N
<1> DEFINE Bad == {k \in 0 .. N : ~(hops[k] \subseteq C)}
<1>4. ASSUME Bad # {} PROVE FALSE
  <2>1. PICK m \in Bad : \A k \in Bad : m <= k
    <3>1. Bad \in SUBSET Nat
      BY <1>1
    <3> HIDE DEF Bad
    <3> QED
      BY <1>4, <3>1, LeastNat
  <2>2. m # 0
    BY <1>1, <1>2, <2>1 DEF IsHops
  <2>3. hops[m] = Hop(hops[m - 1]) /\ hops[m - 1] \subseteq C
    BY <1>1, <1>2, <2>1, <2>2 DEF IsHops
  <2> QED
    BY <2>1, <2>3 DEF Hop
<1> QED
  BY <1>1, <1>3, <1>4

-----------------------------------------------------------------------------
(* The theorems. *)

\* The fields stay in their ranges: a thread never holds a node malloc has not
\* returned, and what add_node returns or del_node announces is such a node.
THEOREM Typing == Spec => []TypeOK
BY SpecInv, PTL DEF IInv

\* However many add_node and del_node race, no node ever hangs behind two
\* others: the node a cmpxchg links is in the hands of that add_node alone.
THEOREM AtMostOnePredecessor == Spec => []OnePredecessor
BY SpecInv, PTL DEF IInv

\* A node del_node has announced is out of the list for good: the cmpxchg has
\* taken its only link away, and only nodes fresh from malloc are linked.
THEOREM DeletedNodesStayOut == Spec => []DeletedStaysOut
<1>1. IInv => DeletedStaysOut
  <2> SUFFICES ASSUME IInv PROVE deleted \cap Reach({head}) = {}
    BY DEF DeletedStaysOut
  <2> DEFINE Kept == Links \ deleted
  <2>1. head \in Kept
    BY Apart DEF IInv, TypeOK, head
  <2>2. \A n \in Kept : next[n] \in Kept \cup {NULL}
    <3>1. 1 .. nodes \subseteq Links
      BY Given DEF IInv, Links
    <3> QED
      BY <3>1 DEF IInv, LinksOK
  <2>3. Reach({head}) \subseteq Kept
    <3>1. {head} \subseteq Kept
      BY <2>1
    <3> HIDE DEF Kept
    <3> QED
      BY <3>1, <2>2, ReachWithin
  <2> QED
    BY <2>3
<1> QED
  BY <1>1, SpecInv, PTL

\* What a step does to the links: malloc clears that of a node nothing has used,
\* and a cmpxchg makes one where there was none or cuts one.
LEMMA StepKeepsLinks ==
    ASSUME IInv, [Next]_vars, NEW n \in DOMAIN next, next[n] # NULL
    PROVE  next'[n] \in {next[n], NULL}
<1>1. CASE UNCHANGED next
  BY <1>1
<1>2. ASSUME NEW t \in Threads, Thread(t) PROVE next'[n] \in {next[n], NULL}
  BY <1>2
  DEF Thread, AddStart, new_node, AddFirst, AddLink, Scan, Step, DelStart, DelUnlink,
      cmpxchg, IInv, TypeOK
<1> QED
  BY <1>1, <1>2 DEF Next, vars

\* add_node never overwrites the link another add_node has just made: whatever
\* the threads do, a link stays until del_node cuts it.
THEOREM LinksStayUntilCut == Spec => LinksAreKept
<1>1. IInv /\ [Next]_vars
      => [\A n \in DOMAIN next : next[n] # NULL => next'[n] \in {next[n], NULL}]_vars
  BY StepKeepsLinks
<1> QED
  BY <1>1, SpecInv, PTL DEF Spec, LinksAreKept
=============================================================================
