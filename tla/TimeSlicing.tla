---------------------------- MODULE TimeSlicing ----------------------------
(***************************************************************************)
(* What the scheduler promises, with no queue, flag, interrupt or mode: a  *)
(* running task burns its slice, a ready task joins with half of its       *)
(* parent's, and the hart is only ever given to a ready task with the      *)
(* largest slice, which is not zero: when all are spent they are refilled. *)
(***************************************************************************)
EXTENDS Integers

CONSTANTS
    Tasks,      \* every task there can be
    First,      \* the one that boots
    FirstSlice, \* its slice
    FullSlice   \* the slice of a refill

VARIABLES
    running,    \* the task that has the hart
    ready,      \* the tasks that compete for it
    slice       \* what each has left

asVars == <<running, ready, slice>>

AsInit ==
    /\ running = First
    /\ ready = {}
    /\ slice = [t \in Tasks |-> IF t = First THEN FirstSlice ELSE 0]

\* The hart stays with the running task, or goes to a ready task with the
\* largest slice.  mid is what the slices have become before that.
Hand(mid) ==
    \/ slice' = mid /\ running' = running
    \/ /\ \/ /\ \A t \in ready' : mid[t] = 0
             /\ slice' = [t \in Tasks |-> IF t \in ready' THEN FullSlice ELSE mid[t]]
          \/ slice' = mid
       /\ running' \in ready'
       /\ slice'[running'] > 0
       /\ \A t \in ready' : slice'[t] <= slice'[running']

Yield == ready' = ready /\ Hand(slice)

Burn ==
    /\ ready' = ready
    /\ Hand([slice EXCEPT ![running] = IF @ > 0 THEN @ - 1 ELSE 0])

\* The newcomer gets the larger half of the running task's slice.
Admit ==
    \E t \in Tasks \ (ready \cup {First}) :
        /\ ready' = ready \cup {t}
        /\ Hand([slice EXCEPT ![t] = (slice[running] + 1) \div 2,
                              ![running] = @ \div 2])

AsNext == Yield \/ Burn \/ Admit

AsSpec == AsInit /\ [][AsNext]_asVars
=============================================================================
