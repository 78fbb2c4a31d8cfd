---------------------------- MODULE LockFreeList ----------------------------
(****************************************************************************)
(* The lock-free list of src/others/atomic/example_14_10_free_lock_list.c:  *)
(* threads that append with add_node and threads that cut the last node     *)
(* off with del_node, on one list, by cmpxchg.                              *)
(*                                                                          *)
(* One step is one access to memory that another thread may write; memory   *)
(* is sequentially consistent.  A dereference of NULL kills the process.    *)
(* print_list only reads and is left out; free_node has no caller, so a     *)
(* node that was cut off stays readable.                                    *)
(****************************************************************************)
EXTENDS Integers, FiniteSets

CONSTANTS
    Adders,         \* the threads in add_list_thread
    Deleters,       \* the threads in del_list_thread
    MaxNodes        \* malloc gives at most that many nodes

ASSUME ListAssumption ==
    /\ Adders \cap Deleters = {}
    /\ MaxNodes \in Nat

VARIABLES
    next,           \* the next field of the head and of every node
    nodes,          \* how many nodes malloc has returned
    pc,             \* where each thread is, see Places
    new,            \* add_node's new
    cur,            \* the local variable next of add_node and del_node
    prev,           \* del_node's prev
    added,          \* the nodes whose add_node has returned
    deleted,        \* the nodes del_node has announced with "del node"
    crashed         \* the process got a SIGSEGV

vars == <<next, nodes, pc, new, cur, prev, added, deleted, crashed>>

NULL == -1
head == 0
Nodes == 1 .. MaxNodes
Threads == Adders \cup Deleters

Places == {
    "idle",         \* in usleep, or before the first call
    "first",        \* add_node, before the cmpxchg on head->next
    "scan",         \* in the loop, before the test of next->next
    "link",         \* the test said NULL; before the cmpxchg
    "step" }        \* before next = next->next

-----------------------------------------------------------------------------
\* Mutant: a plain store in place of lr.d, bne, sc.d.
cmpxchg_Store(ptr, old, val) == next' = [next EXCEPT ![ptr] = val]

\* cmpxchg on the next field of ptr: stores val when old is there.
cmpxchg(ptr, old, val) ==
    next' = IF next[ptr] = old THEN [next EXCEPT ![ptr] = val] ELSE next

\* Whether that cmpxchg returns old.
Succeeds(ptr, old) == next[ptr] = old

Goto(t, place) == pc' = [pc EXCEPT ![t] = place]

\* add_node returns; a failed malloc added nothing.
Added(t) ==
    /\ Goto(t, "idle")
    /\ added' = added \cup ({new[t]} \ {NULL})

-----------------------------------------------------------------------------
(* add_node. *)

\* new_node: malloc, or NULL when it fails.
new_node(t) ==
    \/ /\ nodes < MaxNodes
       /\ nodes' = nodes + 1
       /\ new' = [new EXCEPT ![t] = nodes + 1]
       /\ next' = [next EXCEPT ![nodes + 1] = NULL]
    \/ new' = [new EXCEPT ![t] = NULL] /\ UNCHANGED <<nodes, next>>

\* The declarations of add_node: next is read before the first cmpxchg.
AddStart(t) ==
    /\ t \in Adders /\ pc[t] = "idle"
    /\ new_node(t)
    /\ cur' = [cur EXCEPT ![t] = next[head]]
    /\ Goto(t, "first")
    /\ UNCHANGED <<prev, added, deleted, crashed>>

\* Mutant: no return after the cmpxchg on head->next has succeeded.
AddFirst_NoReturn(t) ==
    /\ t \in Adders /\ pc[t] = "first"
    /\ cmpxchg(head, NULL, new[t])
    /\ Goto(t, "scan")
    /\ cur' = [cur EXCEPT ![t] = next'[head]]
    /\ UNCHANGED <<nodes, new, prev, added, deleted, crashed>>

\* The cmpxchg on head->next.
AddFirst(t) ==
    /\ t \in Adders /\ pc[t] = "first"
    /\ cmpxchg(head, NULL, new[t])
    /\ IF Succeeds(head, NULL) THEN Added(t) ELSE Goto(t, "scan") /\ UNCHANGED added
    /\ UNCHANGED <<nodes, new, cur, prev, deleted, crashed>>

\* The cmpxchg on next->next.
AddLink(t) ==
    /\ t \in Adders /\ pc[t] = "link"
    /\ cmpxchg(cur[t], NULL, new[t])
    /\ IF Succeeds(cur[t], NULL) THEN Added(t) ELSE Goto(t, "step") /\ UNCHANGED added
    /\ UNCHANGED <<nodes, new, cur, prev, deleted, crashed>>

-----------------------------------------------------------------------------
(* Both loops. *)

\* The test next->next == NULL; prev is never NULL.
Scan(t) ==
    /\ pc[t] = "scan"
    /\ IF cur[t] = NULL
       THEN crashed' = TRUE /\ UNCHANGED pc
       ELSE /\ Goto(t, IF next[cur[t]] = NULL THEN "link" ELSE "step")
            /\ UNCHANGED crashed
    /\ UNCHANGED <<next, nodes, new, cur, prev, added, deleted>>

\* next = next->next, in del_node after prev = next.
Step(t) ==
    /\ pc[t] = "step"
    /\ cur' = [cur EXCEPT ![t] = next[@]]
    /\ prev' = IF t \in Deleters THEN [prev EXCEPT ![t] = cur[t]] ELSE prev
    /\ Goto(t, "scan")
    /\ UNCHANGED <<next, nodes, new, added, deleted, crashed>>

-----------------------------------------------------------------------------
(* del_node. *)

\* The declarations of del_node, and the return when the list is empty.
DelStart(t) ==
    /\ t \in Deleters /\ pc[t] = "idle"
    /\ cur' = [cur EXCEPT ![t] = next[head]]
    /\ prev' = [prev EXCEPT ![t] = head]
    /\ Goto(t, IF next[head] = NULL THEN "idle" ELSE "scan")
    /\ UNCHANGED <<next, nodes, new, added, deleted, crashed>>

\* The cmpxchg on prev->next.
DelUnlink(t) ==
    /\ t \in Deleters /\ pc[t] = "link"
    /\ cmpxchg(prev[t], cur[t], NULL)
    /\ IF Succeeds(prev[t], cur[t])
       THEN Goto(t, "idle") /\ deleted' = deleted \cup {cur[t]}
       ELSE Goto(t, "step") /\ UNCHANGED deleted
    /\ UNCHANGED <<nodes, new, cur, prev, added, crashed>>

-----------------------------------------------------------------------------
Init ==
    /\ next = [n \in {head} \cup Nodes |-> NULL]
    /\ nodes = 0
    /\ pc = [t \in Threads |-> "idle"]
    /\ new = [t \in Threads |-> NULL]
    /\ cur = [t \in Threads |-> NULL]
    /\ prev = [t \in Threads |-> head]
    /\ added = {}
    /\ deleted = {}
    /\ crashed = FALSE

Thread(t) ==
    \/ AddStart(t) \/ AddFirst(t) \/ AddLink(t)
    \/ Scan(t) \/ Step(t)
    \/ DelStart(t) \/ DelUnlink(t)

\* A process that got a SIGSEGV does nothing more.
Next ==
    \/ ~crashed /\ \E t \in Threads : Thread(t)
    \/ crashed /\ UNCHANGED vars

Spec == Init /\ [][Next]_vars

-----------------------------------------------------------------------------
(* Properties. *)

TypeOK ==
    /\ next \in [{head} \cup Nodes -> Nodes \cup {NULL}]
    /\ nodes \in 0 .. MaxNodes
    /\ pc \in [Threads -> Places]
    /\ new \in [Threads -> 0 .. nodes \cup {NULL}]
    /\ cur \in [Threads -> 1 .. nodes \cup {NULL}]
    /\ prev \in [Threads -> 0 .. nodes]
    /\ added \subseteq 1 .. nodes
    /\ deleted \subseteq 1 .. nodes
    /\ crashed \in BOOLEAN

\* However appends race with each other and with cuts, no node ever hangs behind
\* two others: the successful cmpxchg is the only place a node is linked at.
OnePredecessor ==
    \A m, n \in DOMAIN next : next[m] = next[n] /\ next[m] # NULL => m = n

\* The nodes reachable from n, with enough hops for every node.
Reach(S) ==
    LET hop[k \in 0 .. MaxNodes + 1] ==
            IF k = 0 THEN S
            ELSE hop[k - 1] \cup ({next[n] : n \in hop[k - 1]} \ {NULL})
    IN  hop[MaxNodes + 1]

\* A link is only ever made where there was none, or cut: add_node never
\* overwrites the link another add_node has just made.
LinksAreKept ==
    [][\A n \in DOMAIN next : next[n] # NULL => next'[n] \in {next[n], NULL}]_vars

\* A node that del_node has announced does not come back into the list.
DeletedStaysOut == deleted \cap Reach({head}) = {}

\* example_14_10_free_lock_list.c:55, "if there is no element in the list, join
\* at its tail": so past that line there is one, and next is not NULL in the loop.
ListHasElement == \A t \in Adders : pc[t] = "scan" => cur[t] # NULL

\* example_14_10_free_lock_list.c:96-98: only "the last element" is taken off, so
\* a node that add_node has added stays in the list until it is deleted itself.
OnlyLastDeleted == added \subseteq deleted \cup Reach({head})
=============================================================================
