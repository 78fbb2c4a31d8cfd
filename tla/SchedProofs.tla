---------------------------- MODULE SchedProofs ----------------------------
(***************************************************************************)
(* Theorems about Sched for every number of tasks, pages and ticks.        *)
(***************************************************************************)
EXTENDS Sched, TLAPS, WellFoundedInduction

-----------------------------------------------------------------------------
(* The inductive invariant.                                                 *)
(*                                                                          *)
(* QueueInv is about what only do_fork changes.  TaskInv is about the rest, *)
(* and says where a task can be: preempt_count[p] is 1 exactly in the two   *)
(* functions that call __schedule, every task but the running one stands    *)
(* behind a switch_to or has never run, and no stale flag is left on it.    *)

Full == DEF_COUNTER + PRIORITY

NotRun == {"none", "new_k", "new_u"}

\* Where preempt_schedule_irq may be entered: kernel code with preemption on.
Preemptible == {"kthread", "uframe", "vs_main", "forkret", "exit"}

QueueInv ==
    /\ g_task \in SUBSET Pids
    /\ Init_task \in g_task
    /\ runq \in Seq(Pids)
    /\ nr_running \in Nat
    /\ RunQueueOK

\* The fields of the tasks, as a step leaves or prepares them: the types, and
\* where each task is.
FieldsOK(cnt, res, pc, x, r) ==
    /\ cnt \in [Pids -> 0 .. Full]
    /\ res \in [Pids -> BOOLEAN]
    /\ pc \in [Pids -> 0 .. 1]
    /\ x \in [Pids -> Contexts]
    /\ r \in [Pids -> Phases]
    /\ \A p \in Pids : pc[p] = IF x[p] = "resched" \/ r[p] # "no" THEN 1 ELSE 0
    /\ \A p \in Pids : r[p] # "no" => x[p] \in Preemptible

\* Task p stands where a task that is not running can be.
Parked(p, x, r) == x[p] \in NotRun \/ x[p] = "resched" \/ r[p] = "tail"

\* Only the init task boots, and it then stays in kernel_main.
BootOK(cur, x, q) ==
    /\ \A p \in Pids : x[p] = "boot" => p = Init_task /\ cur = Init_task
    /\ x[Init_task] \in {"boot", "kthread"}
    /\ x[Init_task] = "kthread" => q # <<>>

TaskInv ==
    /\ FieldsOK(counter, need_resched, preempt_count, ctx, pre)
    /\ bugs = {}
    /\ \A p \in Pids \ {current} : ~need_resched[p] /\ Parked(p, ctx, pre)
    /\ \A p \in Pids : ctx[p] = "none" <=> p \notin g_task
    /\ BootOK(current, ctx, runq)
    /\ current \in g_task
    /\ ctx[current] \notin NotRun
    /\ KernelHonoursFlag

IInv ==
    /\ QueueInv
    /\ TaskInv
    /\ free_pages \in 0 .. NR_FREE
    /\ panicked \in BOOLEAN

-----------------------------------------------------------------------------
(* The choice of the next task. *)

\* A non-empty set of natural numbers has a least element.
LEMMA LeastNat ==
    ASSUME NEW S \in SUBSET Nat, S # {}
    PROVE  \E m \in S : \A k \in S : m <= k
<1>1. PICK m \in S : \A k \in S : <<k, m>> \notin OpToRel(<, Nat)
  BY WFMin, NatLessThanWellFounded, Zenon
<1>2. \A k \in S : ~(k < m)
  BY <1>1, Zenon DEF OpToRel
<1> QED
  BY <1>2

\* The scan of a non-empty queue ends with one of its entries, and no entry of
\* the queue is heavier.
LEMMA FirstBestIsBest ==
    ASSUME NEW q \in Seq(Pids), q # <<>>, NEW cnt \in [Pids -> 0 .. Full]
    PROVE  /\ FirstBest(q, cnt) \in DOMAIN q
           /\ \A j \in DOMAIN q : cnt[q[j]] <= cnt[q[FirstBest(q, cnt)]]
<1>1. /\ DOMAIN q \subseteq Nat /\ DOMAIN q # {}
      /\ \A i \in DOMAIN q : cnt[q[i]] \in 0 .. Full
  <2>1. Len(q) \in Nat /\ DOMAIN q = 1 .. Len(q) /\ Len(q) # 0
    OBVIOUS
  <2>2. \A i \in DOMAIN q : q[i] \in Pids
    BY <2>1
  <2>3. \A p \in Pids : cnt[p] \in 0 .. Full
    OBVIOUS
  <2>4. 1 \in DOMAIN q /\ DOMAIN q \subseteq Nat
    BY <2>1
  <2> QED
    BY <2>2, <2>3, <2>4
<1>2. Full \in Nat
  BY SchedAssumption DEF Full
<1> DEFINE Gap(i) == Full - cnt[q[i]]
           Gaps == {Gap(i) : i \in DOMAIN q}
<1>3. Gaps \in SUBSET Nat /\ Gaps # {}
  BY <1>1, <1>2
<1>4. PICK best \in DOMAIN q : \A j \in DOMAIN q : Gap(best) <= Gap(j)
  <2>1. PICK g \in Gaps : \A k \in Gaps : g <= k
    BY <1>3, LeastNat
  <2> QED
    BY <2>1
<1>5. \A j \in DOMAIN q : cnt[q[j]] <= cnt[q[best]]
  BY <1>1, <1>2, <1>4
<1> DEFINE Ties == {i \in DOMAIN q : cnt[q[i]] = cnt[q[best]]}
<1>6. PICK first \in Ties : \A k \in Ties : first <= k
  <2>1. Ties \in SUBSET Nat /\ Ties # {}
    BY <1>1
  <2> QED
    BY <2>1, LeastNat
<1>7. \A j \in DOMAIN q : /\ cnt[q[j]] <= cnt[q[first]]
                          /\ cnt[q[j]] = cnt[q[first]] => first <= j
  BY <1>5, <1>6
<1> QED
  BY <1>6, <1>7 DEF FirstBest

\* A refill keeps the slices in range, leaves a heaviest task with something to
\* burn, and touches no slice unless the whole queue is spent.
LEMMA RefillIsFair ==
    ASSUME NEW q \in Seq(Pids), q # <<>>, NEW tasks \in SUBSET Pids,
           {q[i] : i \in DOMAIN q} = tasks \ {Init_task},
           NEW cnt \in [Pids -> 0 .. Full]
    PROVE  LET score == Refill(q, tasks, cnt)
               next  == q[FirstBest(q, score)]
           IN  /\ score \in [Pids -> 0 .. Full]
               /\ next \in tasks \ {Init_task}
               /\ score[next] > 0
               /\ \A p \in tasks \ {Init_task} : score[p] <= score[next]
               /\ \/ score = cnt
                  \/ /\ \A p \in tasks \ {Init_task} : cnt[p] = 0
                     /\ score = reset_score(tasks, cnt)
<1> DEFINE score == Refill(q, tasks, cnt)
           old == q[FirstBest(q, cnt)]
           next == q[FirstBest(q, score)]
<1>1. Full \in Nat /\ Full > 0
  BY SchedAssumption DEF Full
<1>2. reset_score(tasks, cnt) \in [Pids -> 0 .. Full]
  BY <1>1 DEF reset_score, Full
<1>3. score \in [Pids -> 0 .. Full]
  BY <1>2 DEF Refill
<1>4. /\ old \in tasks \ {Init_task}
      /\ \A p \in tasks \ {Init_task} : cnt[p] <= cnt[old]
  BY FirstBestIsBest
<1>5. /\ next \in tasks \ {Init_task}
      /\ \A p \in tasks \ {Init_task} : score[p] <= score[next]
  <2> HIDE DEF score
  <2> QED
    BY <1>3, FirstBestIsBest
<1>6. CASE cnt[old] = 0
  <2>1. score = reset_score(tasks, cnt)
    BY <1>6 DEF Refill
  <2>2. score[next] = Full
    BY <2>1, <1>5 DEF reset_score, Full
  <2>3. \A p \in tasks \ {Init_task} : cnt[p] = 0
    BY <1>4, <1>6
  <2> QED
    BY <1>1, <1>3, <1>5, <2>1, <2>2, <2>3
<1>7. CASE cnt[old] # 0
  <2>1. score = cnt
    BY <1>7 DEF Refill
  <2>2. score[next] > 0
    BY <1>1, <1>4, <1>5, <1>7, <2>1
  <2> QED
    BY <1>3, <1>5, <2>1, <2>2
<1> QED
  BY <1>6, <1>7
-----------------------------------------------------------------------------
(* The pieces the actions are made of. *)

\* A full slice is a positive number.
LEMMA FullNat == Full \in Nat /\ Full > 0
  BY SchedAssumption DEF Full

\* g_task has a slot for the init task.
LEMMA InitTaskIsPid == Init_task \in Pids
  BY SchedAssumption DEF Init_task, Pids

\* What __schedule needs of the fields its caller has prepared.
Leaving(cnt, res, pc, x, r) ==
    /\ FieldsOK(cnt, res, pc, x, r)
    /\ \A p \in Pids \ {current} : ~res[p]
    /\ \A p \in Pids : Parked(p, x, r)
    /\ \A p \in Pids : x[p] = "none" <=> p \notin g_task'
    /\ pc[current] = 1
    /\ x[Init_task] = "kthread"
    /\ \A p \in Pids : x[p] # "boot"

\* __schedule hands the hart to a task that can take it.
LEMMA ScheduleKeeps ==
    ASSUME QueueInv', runq' # <<>>, current \in Pids, bugs = {},
           NEW cnt, NEW res, NEW pc, NEW x, NEW r,
           Leaving(cnt, res, pc, x, r),
           Schedule(cnt, res, pc, x, r)
    PROVE  TaskInv'
<1> DEFINE score == Refill(runq', g_task', cnt)
           next == runq'[FirstBest(runq', score)]
<1>1. /\ score \in [Pids -> 0 .. Full]
      /\ next \in g_task' \ {Init_task}
  BY RefillIsFair DEF QueueInv, RunQueueOK, Leaving, FieldsOK
<1>2. /\ bugs' = bugs \cup schedule_debug(pc[current])
      /\ counter' = score
      /\ current' = next
      /\ need_resched' = clear_task_resched(res)
      /\ preempt_count' = pc
      /\ ctx' = [x EXCEPT ![next] = Resume(@)]
      /\ pre' = r
  BY DEF Schedule
<1> HIDE DEF score, next
<1>3. next \in Pids /\ next # Init_task
  BY <1>1 DEF QueueInv
<1>4. x[next] \in Contexts /\ x[next] # "none" /\ x[next] # "boot"
  BY <1>1, <1>3 DEF Leaving, FieldsOK
<1>5. /\ Resume(x[next]) \in Contexts \ (NotRun \cup {"boot"})
      /\ Resume(x[next]) = "resched" <=> x[next] = "resched"
      /\ x[next] \in Preemptible => Resume(x[next]) \in Preemptible
      /\ Resume(x[next]) # "exit" \/ Resume(x[next]) = x[next]
  BY <1>4 DEF Resume, Contexts, NotRun, Preemptible
<1>6. ctx'[next] = Resume(x[next]) /\ \A p \in Pids \ {next} : ctx'[p] = x[p]
  BY <1>2, <1>3 DEF Leaving, FieldsOK
<1>7. ctx' \in [Pids -> Contexts]
  BY <1>2, <1>5 DEF Leaving, FieldsOK
<1>8. need_resched' \in [Pids -> BOOLEAN] /\ \A p \in Pids : ~need_resched'[p]
  BY <1>2 DEF clear_task_resched, Leaving, FieldsOK
<1>9. FieldsOK(counter', need_resched', preempt_count', ctx', pre')
  BY <1>1, <1>2, <1>5, <1>6, <1>7, <1>8 DEF FieldsOK, Leaving
<1>10. bugs' = {}
  BY <1>2 DEF schedule_debug, Leaving
<1>11. \A p \in Pids \ {current'} : Parked(p, ctx', pre')
  BY <1>2, <1>6 DEF Parked, Leaving
<1>12. \A p \in Pids : ctx'[p] = "none" <=> p \notin g_task'
  BY <1>4, <1>5, <1>6 DEF Leaving, NotRun
<1>13. BootOK(current', ctx', runq')
  BY <1>3, <1>5, <1>6, InitTaskIsPid DEF BootOK, Leaving
<1>14. current' \in g_task' /\ ctx'[current'] \notin NotRun
  BY <1>1, <1>2, <1>5, <1>6
<1>15. KernelHonoursFlag'
  BY <1>8, <1>2, <1>3 DEF KernelHonoursFlag
<1> QED
  BY <1>8, <1>9, <1>10, <1>11, <1>12, <1>13, <1>14, <1>15 DEF TaskInv

\* ret_to_user, for fields cnt, res and x that a trap or fn has left.
LEMMA RetToUserKeeps ==
    ASSUME QueueInv', TaskInv, runq' # <<>>, ctx[Init_task] = "kthread",
           current \in g_task', current # Init_task,
           preempt_count[current] = 0, ~panicked,
           NEW cnt \in [Pids -> 0 .. Full],
           NEW res \in [Pids -> BOOLEAN], \A p \in Pids \ {current} : ~res[p],
           NEW x \in [Pids -> Contexts],
           \A p \in Pids \ {current} : x[p] = ctx[p] \/ (x[p] = "new_u" /\ ctx[p] = "none"),
           \A p \in Pids \ {current} : x[p] = "none" <=> p \notin g_task',
           RetToUser(cnt, res, x), UNCHANGED panicked
    PROVE  TaskInv'
<1>1. current \in Pids /\ Init_task \in Pids
  BY InitTaskIsPid DEF QueueInv
<1>2. pre[current] = "no"
  BY <1>1 DEF TaskInv, FieldsOK
<1>3. CASE /\ res[current]
           /\ Schedule(cnt, res, preempt_disable(preempt_count),
                       [x EXCEPT ![current] = "resched"], pre)
  <2> DEFINE pc == preempt_disable(preempt_count)
             y == [x EXCEPT ![current] = "resched"]
  <2>1. /\ pc \in [Pids -> 0 .. 1] /\ pc[current] = 1
        /\ \A p \in Pids \ {current} : pc[p] = preempt_count[p]
    BY <1>1 DEF preempt_disable, TaskInv, FieldsOK
  <2>2. /\ y \in [Pids -> Contexts] /\ y[current] = "resched"
        /\ \A p \in Pids \ {current} : y[p] = x[p]
    BY <1>1 DEF Contexts
  <2>3. \A p \in Pids \ {current} :
           /\ x[p] = "resched" <=> ctx[p] = "resched"
           /\ x[p] \in Preemptible <=> ctx[p] \in Preemptible
           /\ x[p] \in NotRun <=> ctx[p] \in NotRun
           /\ x[p] = "boot" <=> ctx[p] = "boot"
    BY DEF Preemptible, NotRun
  <2>4. pre \in [Pids -> Phases]
    BY DEF TaskInv, FieldsOK
  <2>5. \A p \in Pids : pc[p] = IF y[p] = "resched" \/ pre[p] # "no" THEN 1 ELSE 0
    <3> TAKE p \in Pids
    <3> CASE p = current
      BY <2>1, <2>2
    <3> CASE p # current
      BY <2>1, <2>2, <2>3 DEF TaskInv, FieldsOK
    <3> QED OBVIOUS
  <2>6. \A p \in Pids : pre[p] # "no" => y[p] \in Preemptible
    BY <1>2, <2>2, <2>3 DEF TaskInv, FieldsOK
  <2>7. \A p \in Pids : Parked(p, y, pre)
    BY <2>2, <2>3 DEF TaskInv, Parked
  <2>8. \A p \in Pids : y[p] # "boot"
    BY <2>2, <2>3 DEF TaskInv, BootOK
  <2>9. \A p \in Pids : y[p] = "none" <=> p \notin g_task'
    BY <2>2
  <2>10. y[Init_task] = "kthread"
    BY <1>1, <2>2
  <2>11. Leaving(cnt, res, pc, y, pre)
    <3> HIDE DEF pc, y
    <3> QED
      BY <2>1, <2>2, <2>4, <2>5, <2>6, <2>7, <2>8, <2>9, <2>10 DEF Leaving, FieldsOK
  <2>12. Schedule(cnt, res, pc, y, pre) /\ bugs = {}
    BY <1>3 DEF TaskInv
  <2> HIDE DEF pc, y
  <2> QED
    BY <1>1, <2>11, <2>12, ScheduleKeeps
<1>4. CASE /\ ~res[current]
           /\ counter' = cnt
           /\ need_resched' = res
           /\ ctx' = [x EXCEPT ![current] = "user"]
           /\ UNCHANGED <<current, preempt_count, pre, bugs>>
  <2>1. /\ ctx' \in [Pids -> Contexts] /\ ctx'[current] = "user"
        /\ \A p \in Pids \ {current} : ctx'[p] = x[p]
    BY <1>1, <1>4 DEF Contexts
  <2>2. \A p \in Pids \ {current} :
           /\ x[p] = "resched" <=> ctx[p] = "resched"
           /\ x[p] \in Preemptible <=> ctx[p] \in Preemptible
           /\ x[p] \in NotRun <=> ctx[p] \in NotRun
           /\ x[p] = "boot" <=> ctx[p] = "boot"
    BY DEF Preemptible, NotRun
  <2>3. FieldsOK(counter', need_resched', preempt_count', ctx', pre')
    <3>1. \A p \in Pids : preempt_count[p] =
                            IF ctx'[p] = "resched" \/ pre[p] # "no" THEN 1 ELSE 0
      BY <1>2, <2>1, <2>2 DEF TaskInv, FieldsOK
    <3>2. \A p \in Pids : pre[p] # "no" => ctx'[p] \in Preemptible
      BY <1>2, <2>1, <2>2 DEF TaskInv, FieldsOK
    <3> QED
      BY <1>4, <2>1, <3>1, <3>2 DEF TaskInv, FieldsOK
  <2>4. \A p \in Pids \ {current'} : ~need_resched'[p] /\ Parked(p, ctx', pre')
    BY <1>4, <2>1, <2>2 DEF TaskInv, Parked
  <2>5. BootOK(current', ctx', runq')
    BY <1>1, <1>4, <2>1, <2>2 DEF TaskInv, BootOK
  <2>6. \A p \in Pids : ctx'[p] = "none" <=> p \notin g_task'
    BY <2>1
  <2>7. KernelHonoursFlag'
    BY <1>4, <2>1 DEF KernelHonoursFlag
  <2>8. current' \in g_task' /\ ctx'[current'] \notin NotRun /\ bugs' = {}
    BY <1>4, <2>1 DEF NotRun, TaskInv
  <2> QED
    BY <2>3, <2>4, <2>5, <2>6, <2>7, <2>8 DEF TaskInv
<1> QED
  BY <1>3, <1>4 DEF RetToUser

\* The need_resched loop, for a task that preempt_enable or ret_to_kernel has
\* found preemptible.
LEMMA NeedReschedKeeps ==
    ASSUME QueueInv, TaskInv, ~panicked, ctx[current] \in Preemptible,
           UNCHANGED <<queue, panicked>>,
           NEW cnt \in [Pids -> 0 .. Full],
           NEW res \in [Pids -> BOOLEAN], \A p \in Pids \ {current} : ~res[p],
           NEW pc \in [Pids -> 0 .. 1], pc[current] = 0,
           \A p \in Pids \ {current} : pc[p] = preempt_count[p],
           NeedResched(cnt, res, pc)
    PROVE  TaskInv'
<1>1. current \in Pids
  BY DEF QueueInv, TaskInv
<1>2. /\ counter' = cnt /\ need_resched' = res
      /\ UNCHANGED <<current, ctx, queue, panicked>>
  BY DEF NeedResched
<1>3. ctx[current] # "resched"
  BY DEF Preemptible
<1>4. /\ bugs' = {}
      /\ preempt_count' \in [Pids -> 0 .. 1]
      /\ pre' \in [Pids -> Phases]
      /\ preempt_count'[current] = IF pre'[current] # "no" THEN 1 ELSE 0
      /\ res[current] => pre'[current] # "no"
      /\ \A p \in Pids \ {current} :
            preempt_count'[p] = preempt_count[p] /\ pre'[p] = pre[p]
  <2>1. CASE res[current]
    BY <1>1, <2>1 DEF NeedResched, preempt_disable, TaskInv, FieldsOK, Phases
  <2>2. CASE ~res[current]
    BY <1>1, <2>2 DEF NeedResched, TaskInv, FieldsOK, Phases
  <2> QED
    BY <2>1, <2>2
<1>5. FieldsOK(counter', need_resched', preempt_count', ctx', pre')
  <2>1. \A p \in Pids : preempt_count'[p] =
                          IF ctx'[p] = "resched" \/ pre'[p] # "no" THEN 1 ELSE 0
    BY <1>1, <1>2, <1>3, <1>4 DEF TaskInv, FieldsOK
  <2>2. \A p \in Pids : pre'[p] # "no" => ctx'[p] \in Preemptible
    BY <1>1, <1>2, <1>4 DEF TaskInv, FieldsOK
  <2> QED
    BY <1>2, <1>4, <2>1, <2>2 DEF TaskInv, FieldsOK
<1>6. \A p \in Pids \ {current'} : ~need_resched'[p] /\ Parked(p, ctx', pre')
  BY <1>2, <1>4 DEF TaskInv, Parked
<1>7. KernelHonoursFlag'
  BY <1>2, <1>4 DEF KernelHonoursFlag
<1>8. BootOK(current', ctx', runq') /\ \A p \in Pids : ctx'[p] = "none" <=> p \notin g_task'
  BY <1>2 DEF TaskInv, BootOK, queue
<1>9. current' \in g_task' /\ ctx'[current'] \notin NotRun
  BY <1>2 DEF TaskInv, queue
<1> QED
  BY <1>4, <1>5, <1>6, <1>7, <1>8, <1>9 DEF TaskInv
-----------------------------------------------------------------------------
(* What the queue and the slices become. *)

\* do_fork puts a task into the queue that was not in it.
LEMMA ForkQueueKeeps ==
    ASSUME QueueInv, CanFork, ForkQueue(find_empty_task)
    PROVE  /\ find_empty_task \in Pids \ g_task
           /\ find_empty_task # Init_task
           /\ g_task' = g_task \cup {find_empty_task}
           /\ runq' # <<>>
           /\ QueueInv'
<1> DEFINE child == find_empty_task
           n == Len(runq)
<1>1. child \in Pids \ g_task
  <2>1. Pids \ g_task \in SUBSET Nat /\ Pids \ g_task # {}
    BY DEF CanFork, Pids
  <2>2. \E i \in Pids \ g_task : \A j \in Pids \ g_task : i <= j
    BY <2>1, LeastNat
  <2> QED
    BY <2>2 DEF find_empty_task
<1> HIDE DEF child
<1>2. /\ g_task' = g_task \cup {child}
      /\ runq' = <<child>> \o runq
      /\ nr_running' = nr_running + 1
  BY DEF ForkQueue, child
<1>3. n \in Nat /\ runq \in Seq(Pids) /\ DOMAIN runq = 1 .. n
  BY DEF QueueInv
<1>4. /\ runq' \in Seq(Pids) /\ Len(runq') = n + 1
      /\ DOMAIN runq' = 1 .. n + 1
      /\ runq'[1] = child
      /\ \A i \in 1 .. n : runq'[i + 1] = runq[i]
  BY <1>1, <1>2, <1>3
<1> HIDE DEF n
<1>5. {runq'[i] : i \in DOMAIN runq'} = g_task' \ {Init_task}
  <2>1. \A i \in 1 .. n + 1 : i = 1 \/ (i - 1 \in 1 .. n /\ runq'[i] = runq[i - 1])
    <3> TAKE i \in 1 .. n + 1
    <3> SUFFICES ASSUME i # 1
                 PROVE  i - 1 \in 1 .. n /\ runq'[i] = runq[i - 1]
      OBVIOUS
    <3>1. i - 1 \in 1 .. n /\ (i - 1) + 1 = i
      BY <1>3
    <3> QED
      BY <3>1, <1>4
  <2>2. \A i \in 1 .. n : runq[i] \in g_task \ {Init_task}
    BY <1>3 DEF QueueInv, RunQueueOK
  <2>3. child # Init_task
    BY <1>1 DEF QueueInv
  <2>4. \A i \in DOMAIN runq' : runq'[i] \in g_task' \ {Init_task}
    BY <1>2, <1>4, <2>1, <2>2, <2>3
  <2>5. \A p \in g_task \ {Init_task} : \E i \in 1 .. n : runq[i] = p
    BY <1>3 DEF QueueInv, RunQueueOK
  <2>6. \A p \in g_task \ {Init_task} : \E i \in DOMAIN runq' : runq'[i] = p
    <3> TAKE p \in g_task \ {Init_task}
    <3>1. PICK i \in 1 .. n : runq[i] = p
      BY <2>5
    <3>2. i + 1 \in DOMAIN runq' /\ runq'[i + 1] = p
      BY <1>3, <1>4, <3>1
    <3> QED
      BY <3>2
  <2>7. 1 \in DOMAIN runq'
    BY <1>3, <1>4
  <2>8. \A p \in g_task' \ {Init_task} : \E i \in DOMAIN runq' : runq'[i] = p
    <3> TAKE p \in g_task' \ {Init_task}
    <3>1. CASE p = child
      BY <1>4, <2>7, <3>1
    <3>2. CASE p # child
      BY <1>2, <2>6, <3>2
    <3> QED
      BY <3>1, <3>2
  <2> QED
    BY <2>4, <2>8
<1>6. \A i, j \in DOMAIN runq' : runq'[i] = runq'[j] => i = j
  <2>1. \A i \in DOMAIN runq' : i # 1 => i - 1 \in DOMAIN runq /\ runq'[i] = runq[i - 1]
    <3> TAKE i \in DOMAIN runq'
    <3> HAVE i # 1
    <3>1. i - 1 \in 1 .. n /\ (i - 1) + 1 = i
      BY <1>3, <1>4
    <3> QED
      BY <3>1, <1>3, <1>4
  <2>2. \A k \in DOMAIN runq : runq[k] # child
    BY <1>1 DEF QueueInv, RunQueueOK
  <2>3. \A k, l \in DOMAIN runq : runq[k] = runq[l] => k = l
    BY DEF QueueInv, RunQueueOK
  <2>4. \A i \in DOMAIN runq' : i \in Int
    BY <1>4, <1>3
  <2> SUFFICES ASSUME NEW i \in DOMAIN runq', NEW j \in DOMAIN runq',
                      runq'[i] = runq'[j]
               PROVE  i = j
    OBVIOUS
  <2>5. CASE i = 1 \/ j = 1
    BY <2>1, <2>2, <2>5, <1>4
  <2>6. CASE i # 1 /\ j # 1
    <3>1. i - 1 = j - 1
      BY <2>1, <2>3, <2>6
    <3> QED
      BY <3>1, <2>4
  <2> QED
    BY <2>5, <2>6
<1>7. nr_running' = Len(runq') /\ nr_running' \in Nat
  BY <1>2, <1>3, <1>4 DEF QueueInv, RunQueueOK, n
<1>8. runq' # <<>>
  BY <1>3, <1>4
<1>9. QueueInv'
  BY <1>1, <1>2, <1>4, <1>5, <1>6, <1>7 DEF QueueInv, RunQueueOK
<1> QED
  BY <1>1, <1>2, <1>8, <1>9 DEF child, QueueInv

\* A tick keeps the slice in range and flags no task but the running one.
LEMMA TickKeeps ==
    ASSUME TaskInv, current \in Pids
    PROVE  /\ Ticked(counter) \in [Pids -> 0 .. Full]
           /\ Flagged(counter, need_resched) \in [Pids -> BOOLEAN]
           /\ \A p \in Pids \ {current} : ~Flagged(counter, need_resched)[p]
<1>1. counter[current] \in 0 .. Full /\ counter \in [Pids -> 0 .. Full]
  BY DEF TaskInv, FieldsOK
<1>2. TickCounter(counter[current]) \in 0 .. Full
  BY <1>1, FullNat DEF TickCounter
<1>3. Ticked(counter) \in [Pids -> 0 .. Full]
  BY <1>1, <1>2 DEF Ticked
<1>4. need_resched \in [Pids -> BOOLEAN]
  BY DEF TaskInv, FieldsOK
<1>5. TickFlag(counter[current], need_resched[current]) \in BOOLEAN
  BY <1>1, <1>4 DEF TickFlag
<1>6. /\ Flagged(counter, need_resched) \in [Pids -> BOOLEAN]
      /\ \A p \in Pids \ {current} : Flagged(counter, need_resched)[p] = need_resched[p]
  BY <1>4, <1>5 DEF Flagged
<1> QED
  BY <1>3, <1>6 DEF TaskInv

\* do_fork splits the parent's slice: both parts are in range.
LEMMA ForkSlicesKeep ==
    ASSUME NEW cnt \in [Pids -> 0 .. Full], NEW parent \in Pids, NEW child \in Pids
    PROVE  ForkSlices(cnt, parent, child) \in [Pids -> 0 .. Full]
<1>1. cnt[parent] \in 0 .. Full
  OBVIOUS
<1>2. (cnt[parent] + 1) \div 2 \in 0 .. Full /\ cnt[parent] \div 2 \in 0 .. Full
  BY <1>1, FullNat
<1>3. \A c \in 0 .. Full : c \div 2 \in 0 .. Full
  BY FullNat
<1> QED
  BY <1>2, <1>3 DEF ForkSlices

\* A task in user mode: the init task has gone, and nothing is nested.
LEMMA UserFacts ==
    ASSUME QueueInv, TaskInv, InUser
    PROVE  /\ current \in Pids /\ current # Init_task
           /\ ctx[Init_task] = "kthread" /\ runq # <<>>
           /\ preempt_count[current] = 0 /\ pre[current] = "no" /\ ~panicked
  BY InitTaskIsPid DEF QueueInv, TaskInv, InUser, FieldsOK, BootOK, Preemptible
-----------------------------------------------------------------------------
(* The steps. *)

\* The state in which kernel_main finds the scheduler satisfies the invariant.
LEMMA InitKeeps == Init => IInv
<1> SUFFICES ASSUME Init PROVE IInv
  OBVIOUS
<1>1. QueueInv
  BY InitTaskIsPid DEF Init, QueueInv, RunQueueOK
<1>2. FieldsOK(counter, need_resched, preempt_count, ctx, pre)
  BY FullNat, SchedAssumption DEF Init, FieldsOK, Full, Contexts, Phases
<1>3. TaskInv
  BY <1>2, InitTaskIsPid
     DEF Init, TaskInv, Parked, NotRun, BootOK, KernelHonoursFlag
<1>4. free_pages \in 0 .. NR_FREE
  BY SchedAssumption DEF Init
<1>5. panicked \in BOOLEAN
  BY DEF Init
<1> QED
  BY <1>1, <1>3, <1>4, <1>5 DEF IInv

\* A trap from user mode that leaves the queue alone.
LEMMA UserTrapKeeps ==
    ASSUME IInv, InUser, UNCHANGED <<queue, panicked>>,
           NEW cnt \in [Pids -> 0 .. Full],
           NEW res \in [Pids -> BOOLEAN], \A p \in Pids \ {current} : ~res[p],
           RetToUser(cnt, res, ctx)
    PROVE  QueueInv' /\ TaskInv'
<1>1. QueueInv'
  BY DEF IInv, QueueInv, RunQueueOK, queue
<1>2. /\ runq' = runq /\ g_task' = g_task /\ current \in g_task
      /\ ctx \in [Pids -> Contexts]
      /\ \A p \in Pids : ctx[p] = "none" <=> p \notin g_task
  BY DEF queue, IInv, TaskInv, FieldsOK
<1> QED
  BY <1>1, <1>2, UserFacts, RetToUserKeeps DEF IInv

\* A trap from kernel code.
LEMMA KernelTrapKeeps ==
    ASSUME IInv, InKernel, UNCHANGED <<queue, panicked>>,
           NEW cnt \in [Pids -> 0 .. Full],
           NEW res \in [Pids -> BOOLEAN], \A p \in Pids \ {current} : ~res[p],
           RetToKernel(cnt, res)
    PROVE  QueueInv' /\ TaskInv'
<1>1. QueueInv'
  BY DEF IInv, QueueInv, RunQueueOK, queue
<1>2. current \in Pids
  BY DEF IInv, QueueInv, TaskInv
<1>3. CASE preempt_count[current] = 0 /\ NeedResched(cnt, res, preempt_count)
  <2>1. preempt_count \in [Pids -> 0 .. 1]
    BY DEF IInv, TaskInv, FieldsOK
  <2>2. ctx[current] \in Preemptible /\ ~panicked
    BY <1>2, <1>3 DEF InKernel, IInv, TaskInv, FieldsOK, Preemptible
  <2> QED
    BY <1>1, <1>3, <2>1, <2>2, NeedReschedKeeps DEF IInv
<1>4. CASE /\ preempt_count[current] # 0
           /\ counter' = cnt
           /\ need_resched' = res
           /\ UNCHANGED <<current, preempt_count, ctx, pre, bugs>>
  <2>1. ctx[current] = "resched" \/ pre[current] # "no"
    BY <1>2, <1>4 DEF IInv, TaskInv, FieldsOK
  <2>2. KernelHonoursFlag'
    BY <1>4, <2>1 DEF KernelHonoursFlag
  <2>3. FieldsOK(counter', need_resched', preempt_count', ctx', pre')
    BY <1>4 DEF IInv, TaskInv, FieldsOK
  <2> QED
    BY <1>1, <1>4, <2>2, <2>3 DEF IInv, TaskInv, BootOK, Parked, queue
<1> QED
  BY <1>3, <1>4 DEF RetToKernel

\* do_fork at boot, where the init task is the only one that has run.
LEMMA BootForkKeeps == IInv /\ BootFork => IInv'
<1> SUFFICES ASSUME IInv, BootFork PROVE IInv'
  OBVIOUS
<1>1. current = Init_task /\ ctx[current] = "boot" /\ ~panicked
  BY DEF BootFork, At, IInv, QueueInv, TaskInv, BootOK
<1>2. UNCHANGED <<current, need_resched, preempt_count, pre, bugs, panicked>>
  BY DEF BootFork
<1>3. CASE /\ CanFork
           /\ ForkQueue(find_empty_task)
           /\ counter' = ForkSlices(counter, current, find_empty_task)
           /\ ctx' = [ctx EXCEPT ![find_empty_task] = "new_k"]
  <2> DEFINE child == find_empty_task
  <2>1. /\ child \in Pids \ g_task /\ child # Init_task
        /\ g_task' = g_task \cup {child} /\ QueueInv'
    BY <1>3, ForkQueueKeeps DEF IInv
  <2>2. counter' \in [Pids -> 0 .. Full]
    BY <1>1, <1>3, <2>1, InitTaskIsPid, ForkSlicesKeep DEF IInv, TaskInv, FieldsOK
  <2>3. ctx' = [ctx EXCEPT ![child] = "new_k"]
    BY <1>3
  <2> HIDE DEF child
  <2>4. /\ ctx[child] = "none" /\ pre[child] = "no" /\ preempt_count[child] = 0
    BY <2>1 DEF IInv, TaskInv, FieldsOK, Preemptible
  <2>5. /\ ctx' \in [Pids -> Contexts] /\ ctx'[child] = "new_k"
        /\ \A p \in Pids \ {child} : ctx'[p] = ctx[p]
    BY <2>1, <2>3 DEF IInv, TaskInv, FieldsOK, Contexts
  <2>6. FieldsOK(counter', need_resched', preempt_count', ctx', pre')
    <3>1. \A p \in Pids : preempt_count'[p] =
                            IF ctx'[p] = "resched" \/ pre'[p] # "no" THEN 1 ELSE 0
      BY <1>2, <2>1, <2>4, <2>5 DEF IInv, TaskInv, FieldsOK
    <3>2. \A p \in Pids : pre'[p] # "no" => ctx'[p] \in Preemptible
      BY <1>2, <2>1, <2>4, <2>5 DEF IInv, TaskInv, FieldsOK
    <3> QED
      BY <1>2, <2>2, <2>5, <3>1, <3>2 DEF IInv, TaskInv, FieldsOK
  <2>7. \A p \in Pids \ {current'} : ~need_resched'[p] /\ Parked(p, ctx', pre')
    BY <1>2, <2>5 DEF IInv, TaskInv, Parked, NotRun
  <2>8. \A p \in Pids : ctx'[p] = "none" <=> p \notin g_task'
    BY <2>1, <2>5 DEF IInv, TaskInv
  <2>9. BootOK(current', ctx', runq')
    BY <1>1, <1>2, <2>1, <2>5, InitTaskIsPid DEF IInv, TaskInv, BootOK
  <2>10. /\ current' \in g_task' /\ ctx'[current'] \notin NotRun
    BY <1>1, <1>2, <2>1, <2>5, InitTaskIsPid DEF IInv, TaskInv, QueueInv, NotRun
  <2>11. KernelHonoursFlag' /\ bugs' = {}
    BY <1>1, <1>2, <2>1, <2>5, InitTaskIsPid DEF IInv, TaskInv, KernelHonoursFlag
  <2>12. free_pages' \in 0 .. NR_FREE
    BY <1>3, SchedAssumption DEF CanFork, ForkQueue, IInv
  <2> QED
    BY <1>2, <2>1, <2>6, <2>7, <2>8, <2>9, <2>10, <2>11, <2>12 DEF IInv, TaskInv
<1>4. CASE ~CanFork /\ ForkFails /\ UNCHANGED <<counter, ctx>>
  <2>1. UNCHANGED <<queue, counter, ctx>> /\ free_pages' \in 0 .. NR_FREE
    BY <1>4, SchedAssumption DEF ForkFails, queue, IInv
  <2> QED
    BY <1>2, <2>1
       DEF IInv, QueueInv, RunQueueOK, TaskInv, FieldsOK, BootOK, Parked,
           KernelHonoursFlag, queue
<1> QED
  BY <1>3, <1>4 DEF BootFork

\* Steps that move the running task from one place to another and nothing else.
LEMMA MoveKeeps ==
    ASSUME IInv, ~panicked, pre[current] = "no", current # Init_task,
           ctx[current] \notin {"resched", "boot"},
           NEW c \in {"user", "uframe", "vs_main"},
           ctx' = [ctx EXCEPT ![current] = c],
           c = "user" \/ ctx[current] = "kthread",
           free_pages' \in 0 .. NR_FREE,
           UNCHANGED <<current, queue, counter, need_resched, preempt_count, pre,
                       bugs, panicked>>
    PROVE  IInv'
<1>1. current \in Pids /\ Init_task \in Pids
  BY InitTaskIsPid DEF IInv, QueueInv, TaskInv
<1>2. /\ ctx' \in [Pids -> Contexts] /\ ctx'[current] = c
      /\ \A p \in Pids \ {current} : ctx'[p] = ctx[p]
  BY <1>1 DEF IInv, TaskInv, FieldsOK, Contexts
<1>3. QueueInv'
  BY DEF IInv, QueueInv, RunQueueOK, queue
<1>4. FieldsOK(counter', need_resched', preempt_count', ctx', pre')
  BY <1>1, <1>2 DEF IInv, TaskInv, FieldsOK
<1>5. \A p \in Pids \ {current'} : ~need_resched'[p] /\ Parked(p, ctx', pre')
  BY <1>2 DEF IInv, TaskInv, Parked
<1>6. \A p \in Pids : ctx'[p] = "none" <=> p \notin g_task'
  BY <1>2, <1>1 DEF IInv, TaskInv, NotRun, queue
<1>7. BootOK(current', ctx', runq')
  BY <1>1, <1>2 DEF IInv, TaskInv, BootOK, queue
<1>8. KernelHonoursFlag'
  BY <1>2 DEF IInv, TaskInv, KernelHonoursFlag
<1>9. current' \in g_task' /\ ctx'[current'] \notin NotRun /\ bugs' = {}
  BY <1>2 DEF IInv, TaskInv, NotRun, queue
<1> QED
  BY <1>3, <1>4, <1>5, <1>6, <1>7, <1>8, <1>9 DEF IInv, TaskInv

\* Every step of the hart keeps the invariant.
LEMMA NextKeeps == IInv /\ [Next]_vars => IInv'
<1> SUFFICES ASSUME IInv, [Next]_vars PROVE IInv'
  OBVIOUS
<1>1. /\ current \in Pids /\ Init_task \in Pids
      /\ FieldsOK(counter, need_resched, preempt_count, ctx, pre)
      /\ \A p \in Pids \ {current} : ~need_resched[p]
  BY InitTaskIsPid DEF IInv, QueueInv, TaskInv
<1>2. CASE BootFork
  BY <1>2, BootForkKeeps
<1>3. CASE BootIrqEnable
  <2>1. /\ current = Init_task /\ ctx[current] = "boot" /\ pre[current] = "no"
        /\ runq # <<>>
    BY <1>3 DEF BootIrqEnable, At, IInv, TaskInv, BootOK, QueueInv
  <2>2. /\ ctx' \in [Pids -> Contexts] /\ ctx'[current] = "kthread"
        /\ \A p \in Pids \ {current} : ctx'[p] = ctx[p]
        /\ UNCHANGED <<current, queue, counter, need_resched, preempt_count, pre,
                       free_pages, bugs, panicked>>
    BY <1>1, <1>3 DEF BootIrqEnable, FieldsOK, Contexts
  <2>3. FieldsOK(counter', need_resched', preempt_count', ctx', pre')
    BY <1>1, <2>1, <2>2 DEF FieldsOK, Preemptible
  <2>4. ~need_resched[Init_task]
    BY <2>1, <1>3 DEF IInv, TaskInv, BootIrqEnable, At, KernelHonoursFlag
  <2> QED
    BY <1>1, <2>1, <2>2, <2>3, <2>4
       DEF IInv, QueueInv, RunQueueOK, TaskInv, BootOK, Parked, NotRun,
           KernelHonoursFlag, queue
<1>4. CASE TickUser
  <2>1. QueueInv' /\ TaskInv'
    BY <1>1, <1>4, TickKeeps, UserTrapKeeps DEF TickUser, IInv
  <2> QED
    BY <1>4, <2>1 DEF TickUser, IInv
<1>5. CASE TickKernel
  <2>1. QueueInv' /\ TaskInv'
    BY <1>1, <1>5, TickKeeps, KernelTrapKeeps DEF TickKernel, IInv
  <2> QED
    BY <1>5, <2>1 DEF TickKernel, IInv
<1>6. CASE TrapUser
  <2>1. QueueInv' /\ TaskInv'
    BY <1>1, <1>6, UserTrapKeeps DEF TrapUser, FieldsOK
  <2> QED
    BY <1>6, <2>1 DEF TrapUser, IInv
<1>7. CASE TrapKernel
  <2>1. QueueInv' /\ TaskInv'
    BY <1>1, <1>7, KernelTrapKeeps DEF TrapKernel, FieldsOK
  <2> QED
    BY <1>7, <2>1 DEF TrapKernel, IInv
<1>8. CASE Clone
  <2>1. InUser /\ UNCHANGED panicked
    BY <1>8 DEF Clone
  <2>2. CASE /\ CanFork
             /\ ForkQueue(find_empty_task)
             /\ RetToUser(ForkSlices(counter, current, find_empty_task), need_resched,
                          [ctx EXCEPT ![find_empty_task] = "new_u"])
    <3> DEFINE child == find_empty_task
               slices == ForkSlices(counter, current, child)
               x == [ctx EXCEPT ![child] = "new_u"]
    <3>1. /\ child \in Pids \ g_task /\ g_task' = g_task \cup {child}
          /\ QueueInv' /\ runq' # <<>>
      BY <2>2, ForkQueueKeeps DEF IInv
    <3>2. slices \in [Pids -> 0 .. Full]
      BY <1>1, <3>1, ForkSlicesKeep DEF FieldsOK
    <3>3. RetToUser(slices, need_resched, x)
      BY <2>2
    <3>4. x = [ctx EXCEPT ![child] = "new_u"]
      OBVIOUS
    <3> HIDE DEF child, slices, x
    <3>5. /\ x \in [Pids -> Contexts] /\ x[child] = "new_u"
          /\ \A p \in Pids \ {child} : x[p] = ctx[p]
      BY <1>1, <3>1, <3>4 DEF FieldsOK, Contexts
    <3>6. /\ ctx[child] = "none"
          /\ \A p \in Pids : ctx[p] = "none" <=> p \notin g_task
      BY <3>1 DEF IInv, TaskInv
    <3>7. \A p \in Pids \ {current} : x[p] = ctx[p] \/ (x[p] = "new_u" /\ ctx[p] = "none")
      BY <3>5, <3>6
    <3>8. \A p \in Pids \ {current} : x[p] = "none" <=> p \notin g_task'
      BY <3>1, <3>5, <3>6
    <3>9. current \in g_task'
      BY <3>1 DEF IInv, TaskInv
    <3>10. need_resched \in [Pids -> BOOLEAN]
      BY <1>1 DEF FieldsOK
    <3>11. TaskInv'
      BY <1>1, <2>1, <3>1, <3>2, <3>3, <3>5, <3>7, <3>8, <3>9, <3>10,
         UserFacts, RetToUserKeeps DEF IInv
    <3>12. free_pages' \in 0 .. NR_FREE
      BY <2>2, SchedAssumption DEF CanFork, ForkQueue, IInv
    <3> QED
      BY <2>1, <3>1, <3>11, <3>12 DEF IInv
  <2>3. CASE ForkFails /\ RetToUser(counter, need_resched, ctx)
    <3>1. UNCHANGED queue /\ free_pages' \in 0 .. NR_FREE
      BY <2>3, SchedAssumption DEF ForkFails, IInv
    <3>2. QueueInv' /\ TaskInv'
      BY <1>1, <2>1, <2>3, <3>1, UserTrapKeeps DEF FieldsOK
    <3> QED
      BY <2>1, <3>1, <3>2 DEF IInv
  <2> QED
    BY <1>8, <2>2, <2>3 DEF Clone
<1>9. CASE Malloc
  <2>1. QueueInv' /\ TaskInv'
    BY <1>1, <1>9, UserTrapKeeps DEF Malloc, FieldsOK
  <2> QED
    BY <1>9, <2>1, SchedAssumption DEF Malloc, IInv
<1>10. CASE PreemptSchedule
  <2> DEFINE r == [pre EXCEPT ![current] = "tail"]
  <2>1. /\ pre[current] = "window" /\ ~panicked
        /\ UNCHANGED <<queue, free_pages, panicked>>
        /\ Schedule(counter, need_resched, preempt_count, ctx, r)
    BY <1>10 DEF PreemptSchedule
  <2>2. QueueInv'
    BY <2>1 DEF IInv, QueueInv, RunQueueOK, queue
  <2>3. ctx[current] \in Preemptible /\ preempt_count[current] = 1
    BY <1>1, <2>1 DEF FieldsOK
  <2>4. ctx[Init_task] = "kthread" /\ \A p \in Pids : ctx[p] # "boot"
    BY <1>1, <2>3 DEF IInv, TaskInv, BootOK, Preemptible
  <2>5. /\ r \in [Pids -> Phases] /\ r[current] = "tail"
        /\ \A p \in Pids \ {current} : r[p] = pre[p]
    BY <1>1 DEF FieldsOK, Phases
  <2>6. runq' # <<>> /\ g_task' = g_task /\ bugs = {}
    BY <2>1, <2>4 DEF IInv, TaskInv, BootOK, queue
  <2> HIDE DEF r
  <2>7. FieldsOK(counter, need_resched, preempt_count, ctx, r)
    <3>1. \A p \in Pids : preempt_count[p] =
                            IF ctx[p] = "resched" \/ r[p] # "no" THEN 1 ELSE 0
      BY <1>1, <2>3, <2>5 DEF FieldsOK
    <3>2. \A p \in Pids : r[p] # "no" => ctx[p] \in Preemptible
      BY <1>1, <2>3, <2>5 DEF FieldsOK
    <3> QED
      BY <1>1, <2>5, <3>1, <3>2 DEF FieldsOK
  <2>8. \A p \in Pids : Parked(p, ctx, r)
    BY <2>5 DEF IInv, TaskInv, Parked
  <2>9. Leaving(counter, need_resched, preempt_count, ctx, r)
    BY <1>1, <2>3, <2>4, <2>6, <2>7, <2>8 DEF Leaving, IInv, TaskInv
  <2>10. TaskInv'
    BY <1>1, <2>1, <2>2, <2>6, <2>9, ScheduleKeeps
  <2> QED
    BY <2>1, <2>2, <2>10 DEF IInv
<1>11. CASE PreemptDone
  <2> DEFINE pc == preempt_enable(preempt_count)
  <2>1. /\ pre[current] = "tail" /\ ~panicked
        /\ UNCHANGED <<queue, free_pages, panicked>>
        /\ NeedResched(counter, need_resched, pc)
    BY <1>11 DEF PreemptDone
  <2>2. ctx[current] \in Preemptible /\ preempt_count[current] = 1
    BY <1>1, <2>1 DEF FieldsOK
  <2>3. /\ pc \in [Pids -> 0 .. 1] /\ pc[current] = 0
        /\ \A p \in Pids \ {current} : pc[p] = preempt_count[p]
    BY <1>1, <2>2 DEF preempt_enable, FieldsOK
  <2> HIDE DEF pc
  <2>4. TaskInv'
    BY <1>1, <2>1, <2>2, <2>3, NeedReschedKeeps DEF IInv, FieldsOK
  <2>5. QueueInv'
    BY <2>1 DEF IInv, QueueInv, RunQueueOK, queue
  <2> QED
    BY <2>1, <2>4, <2>5 DEF IInv
<1>12. CASE ScheduleDone
  <2>1. /\ ctx[current] = "resched" /\ pre[current] = "no" /\ preempt_count[current] = 1
    BY <1>1, <1>12 DEF ScheduleDone, At, FieldsOK
  <2>2. /\ preempt_count' \in [Pids -> 0 .. 1] /\ preempt_count'[current] = 0
        /\ \A p \in Pids \ {current} : preempt_count'[p] = preempt_count[p]
    BY <1>1, <1>12, <2>1 DEF ScheduleDone, preempt_enable, FieldsOK
  <2>3. /\ ctx' \in [Pids -> Contexts] /\ ctx'[current] = "exit"
        /\ \A p \in Pids \ {current} : ctx'[p] = ctx[p]
    BY <1>1, <1>12 DEF ScheduleDone, FieldsOK, Contexts
  <2>4. UNCHANGED <<current, queue, counter, need_resched, pre, free_pages, bugs, panicked>>
    BY <1>12 DEF ScheduleDone
  <2>5. FieldsOK(counter', need_resched', preempt_count', ctx', pre')
    BY <1>1, <2>1, <2>2, <2>3, <2>4 DEF FieldsOK
  <2>6. QueueInv'
    BY <2>4 DEF IInv, QueueInv, RunQueueOK, queue
  <2>7. current # Init_task
    BY <2>1 DEF IInv, TaskInv, BootOK
  <2> QED
    BY <1>1, <2>1, <2>3, <2>4, <2>5, <2>6, <2>7
       DEF IInv, TaskInv, BootOK, Parked, NotRun, KernelHonoursFlag, queue
<1>13. CASE ExitToUser
  <2>1. current # Init_task
    BY <1>13 DEF ExitToUser, At, IInv, TaskInv, BootOK
  <2> QED
    BY <1>13, <2>1, MoveKeeps DEF ExitToUser, At, IInv
<1>14. CASE RetFromFork
  <2>1. current # Init_task /\ ctx[Init_task] = "kthread" /\ runq # <<>>
    BY <1>1, <1>14 DEF RetFromFork, At, IInv, TaskInv, BootOK
  <2>2. preempt_count[current] = 0 /\ ~panicked
    BY <1>1, <1>14 DEF RetFromFork, At, FieldsOK
  <2>3. QueueInv' /\ runq' = runq /\ g_task' = g_task
    BY <1>14 DEF RetFromFork, IInv, QueueInv, RunQueueOK, queue
  <2>4. TaskInv'
    BY <1>1, <1>14, <2>1, <2>2, <2>3, RetToUserKeeps
       DEF RetFromFork, IInv, TaskInv, FieldsOK
  <2> QED
    BY <1>14, <2>3, <2>4 DEF RetFromFork, IInv
<1>15. CASE KthreadPage
  <2>1. CASE /\ free_pages > 0
             /\ free_pages' = free_pages - 1
             /\ \E c \in {"uframe", "vs_main"} : ctx' = [ctx EXCEPT ![current] = c]
             /\ UNCHANGED panicked
    BY <1>15, <2>1, MoveKeeps, SchedAssumption DEF KthreadPage, At, IInv
  <2>2. CASE panicked' = TRUE /\ UNCHANGED <<ctx, free_pages>>
    <3>1. KernelHonoursFlag'
      BY <2>2 DEF KernelHonoursFlag
    <3>2. panicked' \in BOOLEAN
      BY <2>2
    <3> QED
      BY <1>15, <2>2, <3>1, <3>2
         DEF KthreadPage, IInv, QueueInv, RunQueueOK, TaskInv, FieldsOK, BootOK,
             Parked, queue
  <2> QED
    BY <1>15, <2>1, <2>2 DEF KthreadPage
<1>16. CASE FnReturns
  <2>1. current # Init_task /\ ctx[Init_task] = "kthread" /\ runq # <<>>
    BY <1>1, <1>16 DEF FnReturns, At, IInv, TaskInv, BootOK
  <2>2. preempt_count[current] = 0 /\ ~panicked
    BY <1>1, <1>16 DEF FnReturns, At, FieldsOK
  <2>3. QueueInv' /\ runq' = runq /\ g_task' = g_task
    BY <1>16 DEF FnReturns, IInv, QueueInv, RunQueueOK, queue
  <2>4. TaskInv'
    BY <1>1, <1>16, <2>1, <2>2, <2>3, RetToUserKeeps
       DEF FnReturns, IInv, TaskInv, FieldsOK
  <2> QED
    BY <1>16, <2>3, <2>4 DEF FnReturns, IInv
<1>17. CASE JumpToVsMode
  <2>1. current # Init_task
    BY <1>17 DEF JumpToVsMode, At, IInv, TaskInv, BootOK
  <2> QED
    BY <1>17, <2>1, MoveKeeps DEF JumpToVsMode, At, IInv
<1>18. CASE Spin \/ UNCHANGED vars
  <2>1. UNCHANGED vars
    BY <1>18 DEF Spin
  <2>2. QueueInv'
    BY <2>1 DEF vars, IInv, QueueInv, RunQueueOK
  <2>3. KernelHonoursFlag'
    BY <2>1 DEF vars, IInv, TaskInv, KernelHonoursFlag
  <2>4. TaskInv'
    BY <2>1, <2>3 DEF vars, IInv, TaskInv, FieldsOK, BootOK, Parked
  <2>5. free_pages' \in 0 .. NR_FREE /\ panicked' \in BOOLEAN
    BY <2>1 DEF vars, IInv
  <2> QED
    BY <2>2, <2>4, <2>5 DEF IInv
<1>19. CASE UserFault
  <2>1. KernelHonoursFlag'
    BY <1>19 DEF UserFault, KernelHonoursFlag
  <2>2. panicked' \in BOOLEAN
    BY <1>19 DEF UserFault
  <2> QED
    BY <1>19, <2>1, <2>2
       DEF UserFault, IInv, QueueInv, RunQueueOK, TaskInv, FieldsOK, BootOK,
           Parked, queue
<1> QED
  BY <1>2, <1>3, <1>4, <1>5, <1>6, <1>7, <1>8, <1>9, <1>10, <1>11, <1>12, <1>13,
     <1>14, <1>15, <1>16, <1>17, <1>18, <1>19 DEF Next, Tick, Proceed

-----------------------------------------------------------------------------
(* The theorems. *)

\* The inductive invariant of every execution of the scheduler.
THEOREM Invariant == Spec => []IInv
<1>1. Init => IInv
  BY InitKeeps
<1>2. IInv /\ [Next]_vars => IInv'
  BY NextKeeps
<1> QED
  BY <1>1, <1>2, PTL DEF Spec

\* Type correctness: among others, no slice ever leaves 0 .. DEF_COUNTER + PRIORITY
\* and no preempt_count leaves 0 .. 1.
THEOREM TypeCorrect == Spec => []TypeOK
<1>1. IInv => TypeOK
  BY DEF IInv, QueueInv, TaskInv, FieldsOK, TypeOK, Full
<1> QED
  BY <1>1, Invariant, PTL

\* The run queue holds each forked task exactly once, and never the init task.
THEOREM RunQueueCorrect == Spec => []RunQueueOK
<1>1. IInv => RunQueueOK
  BY DEF IInv, QueueInv
<1> QED
  BY <1>1, Invariant, PTL

\* The two "BUG:" messages of sched.c are never printed.
THEOREM NeverABug == Spec => []NoSchedulingBug
<1>1. IInv => NoSchedulingBug
  BY DEF IInv, TaskInv, NoSchedulingBug
<1> QED
  BY <1>1, Invariant, PTL

\* A task that is not running has never run, or stands behind a switch_to with
\* preemption off and without a stale need_resched.
THEOREM ParkedCorrect == Spec => []ParkedOK
<1>1. IInv => ParkedOK
  <2> SUFFICES ASSUME IInv, NEW p \in Pids \ {current}
               PROVE  /\ ~need_resched[p]
                      /\ ctx[p] \in NotRun => preempt_count[p] = 0 /\ pre[p] = "no"
                      /\ ctx[p] \notin NotRun => /\ preempt_count[p] = 1
                                                 /\ ctx[p] = "resched" \/ pre[p] = "tail"
                      /\ ctx[p] = "none" <=> p \notin g_task
    BY DEF ParkedOK, NotRun
  <2>1. ~need_resched[p] /\ (ctx[p] = "none" <=> p \notin g_task)
    BY DEF IInv, TaskInv
  <2>2. ctx[p] \in NotRun => preempt_count[p] = 0 /\ pre[p] = "no"
    BY DEF IInv, TaskInv, FieldsOK, NotRun, Preemptible
  <2>3. ctx[p] \notin NotRun => /\ preempt_count[p] = 1
                                /\ ctx[p] = "resched" \/ pre[p] = "tail"
    BY DEF IInv, TaskInv, FieldsOK, Parked
  <2> QED
    BY <2>1, <2>2, <2>3
<1> QED
  BY <1>1, Invariant, PTL

\* Preemptible kernel code never runs on with need_resched set.
THEOREM KernelHonoursFlagAlways == Spec => []KernelHonoursFlag
<1>1. IInv => KernelHonoursFlag
  BY DEF IInv, TaskInv
<1> QED
  BY <1>1, Invariant, PTL

-----------------------------------------------------------------------------
(* The refinement of TimeSlicing. *)

\* A __schedule after the slices have become cnt hands the hart on fairly.
LEMMA ScheduleHands ==
    ASSUME QueueInv', runq' # <<>>, NEW cnt \in [Pids -> 0 .. Full],
           NEW res, NEW pc, NEW x, NEW r, Schedule(cnt, res, pc, x, r)
    PROVE  TS!Hand(cnt)
<1> DEFINE score == Refill(runq', g_task', cnt)
           next == runq'[FirstBest(runq', score)]
<1>0. /\ runq' \in Seq(Pids) /\ g_task' \in SUBSET Pids
      /\ {runq'[i] : i \in DOMAIN runq'} = g_task' \ {Init_task}
  BY DEF QueueInv, RunQueueOK
<1>1. /\ next \in g_task' \ {Init_task}
      /\ score[next] > 0
      /\ \A p \in g_task' \ {Init_task} : score[p] <= score[next]
      /\ \/ score = cnt
         \/ /\ \A p \in g_task' \ {Init_task} : cnt[p] = 0
            /\ score = reset_score(g_task', cnt)
  BY <1>0, RefillIsFair
<1>2. counter' = score /\ current' = next
  BY DEF Schedule
<1> HIDE DEF score, next
<1> QED
  BY <1>1, <1>2 DEF TS!Hand, reset_score

\* So does a return to user mode, whether it calls schedule() or not.
LEMMA RetToUserHands ==
    ASSUME QueueInv', runq' # <<>>, NEW cnt \in [Pids -> 0 .. Full],
           NEW res, NEW x, RetToUser(cnt, res, x)
    PROVE  TS!Hand(cnt)
<1>1. CASE Schedule(cnt, res, preempt_disable(preempt_count),
                    [x EXCEPT ![current] = "resched"], pre)
  BY <1>1, ScheduleHands
<1>2. CASE counter' = cnt /\ current' = current
  BY <1>2 DEF TS!Hand
<1> QED
  BY <1>1, <1>2 DEF RetToUser

\* Every step burns or yields the hart, admits a task, or changes nothing of what
\* TimeSlicing sees.
LEMMA StepImplements == IInv /\ [Next]_vars => [TS!AsNext]_(TS!asVars)
<1> SUFFICES ASSUME IInv, IInv', [Next]_vars PROVE [TS!AsNext]_(TS!asVars)
  BY NextKeeps
<1>1. /\ current \in Pids /\ current \in g_task
      /\ counter \in [Pids -> 0 .. Full] /\ QueueInv'
  BY DEF IInv, QueueInv, TaskInv, FieldsOK
<1>2. TickCounter(counter[current]) = IF counter[current] > 0 THEN counter[current] - 1 ELSE 0
  BY <1>1, FullNat DEF TickCounter
<1>3. Ticked(counter) = [counter EXCEPT ![current] = IF @ > 0 THEN @ - 1 ELSE 0]
  BY <1>1, <1>2 DEF Ticked
<1>4. Ticked(counter) \in [Pids -> 0 .. Full]
  BY <1>1, TickKeeps DEF IInv
<1>5. InUser => runq # <<>>
  BY UserFacts DEF IInv
<1>6. CASE BootFork
  <2>1. CASE /\ CanFork
             /\ ForkQueue(find_empty_task)
             /\ counter' = ForkSlices(counter, current, find_empty_task)
    <3>1. /\ find_empty_task \in Pids \ g_task
          /\ g_task' = g_task \cup {find_empty_task} /\ Init_task \in g_task
      BY <2>1, ForkQueueKeeps DEF IInv, QueueInv
    <3>2. current' = current
      BY <1>6 DEF BootFork
    <3> QED
      BY <2>1, <3>1, <3>2 DEF TS!AsNext, TS!Admit, TS!Hand, ForkSlices
  <2>2. CASE ForkFails /\ UNCHANGED <<counter, ctx>>
    BY <1>6, <2>2 DEF BootFork, ForkFails, queue, TS!asVars
  <2> QED
    BY <1>6, <2>1, <2>2 DEF BootFork
<1>7. CASE TickUser
  <2>1. runq' # <<>> /\ g_task' = g_task
    BY <1>5, <1>7 DEF TickUser, queue
  <2>2. TS!Hand(Ticked(counter))
    BY <1>1, <1>4, <1>7, <2>1, RetToUserHands DEF TickUser
  <2> QED
    BY <1>3, <2>1, <2>2 DEF TS!AsNext, TS!Burn
<1>8. CASE TickKernel
  <2>1. counter' = Ticked(counter) /\ current' = current /\ g_task' = g_task
    BY <1>8 DEF TickKernel, RetToKernel, NeedResched, queue
  <2> QED
    BY <1>3, <2>1 DEF TS!AsNext, TS!Burn, TS!Hand
<1>9. CASE TrapUser \/ Malloc
  <2>1. runq' # <<>> /\ g_task' = g_task /\ RetToUser(counter, need_resched, ctx)
    BY <1>5, <1>9 DEF TrapUser, Malloc, queue
  <2>2. TS!Hand(counter)
    BY <1>1, <2>1, RetToUserHands
  <2> QED
    BY <2>1, <2>2 DEF TS!AsNext, TS!Yield
<1>10. CASE Clone
  <2>1. CASE /\ CanFork
             /\ ForkQueue(find_empty_task)
             /\ RetToUser(ForkSlices(counter, current, find_empty_task), need_resched,
                          [ctx EXCEPT ![find_empty_task] = "new_u"])
    <3>1. /\ find_empty_task \in Pids \ g_task
          /\ g_task' = g_task \cup {find_empty_task} /\ Init_task \in g_task
          /\ runq' # <<>>
      BY <2>1, ForkQueueKeeps DEF IInv, QueueInv
    <3>2. ForkSlices(counter, current, find_empty_task) \in [Pids -> 0 .. Full]
      BY <1>1, <3>1, ForkSlicesKeep
    <3>3. TS!Hand(ForkSlices(counter, current, find_empty_task))
      BY <1>1, <2>1, <3>1, <3>2, RetToUserHands
    <3> QED
      BY <3>1, <3>3 DEF TS!AsNext, TS!Admit, ForkSlices
  <2>2. CASE ForkFails /\ RetToUser(counter, need_resched, ctx)
    <3>1. runq' # <<>> /\ g_task' = g_task
      BY <1>5, <1>10, <2>2 DEF Clone, ForkFails, queue
    <3>2. TS!Hand(counter)
      BY <1>1, <2>2, <3>1, RetToUserHands
    <3> QED
      BY <3>1, <3>2 DEF TS!AsNext, TS!Yield
  <2> QED
    BY <1>10, <2>1, <2>2 DEF Clone
<1>11. CASE PreemptSchedule
  <2>1. /\ pre[current] = "window" /\ g_task' = g_task /\ runq' = runq
        /\ Schedule(counter, need_resched, preempt_count, ctx,
                    [pre EXCEPT ![current] = "tail"])
    BY <1>11 DEF PreemptSchedule, queue
  <2>2. ctx[current] # "boot"
    BY <1>1, <2>1 DEF IInv, TaskInv, FieldsOK, Preemptible
  <2>3. runq' # <<>>
    BY <1>1, <2>1, <2>2, InitTaskIsPid DEF IInv, TaskInv, BootOK
  <2>4. TS!Hand(counter)
    BY <1>1, <2>1, <2>3, ScheduleHands
  <2> QED
    BY <2>1, <2>4 DEF TS!AsNext, TS!Yield
<1>12. CASE RetFromFork \/ FnReturns
  <2>1. /\ ctx[current] \in {"forkret", "uframe"} /\ g_task' = g_task /\ runq' = runq
        /\ RetToUser(counter, need_resched, ctx)
    BY <1>12 DEF RetFromFork, FnReturns, At, queue
  <2>2. runq' # <<>>
    BY <1>1, <2>1, InitTaskIsPid DEF IInv, TaskInv, BootOK
  <2>3. TS!Hand(counter)
    BY <1>1, <2>1, <2>2, RetToUserHands
  <2> QED
    BY <2>1, <2>3 DEF TS!AsNext, TS!Yield
<1>13. CASE TrapKernel \/ PreemptDone \/ BootIrqEnable \/ ScheduleDone \/ ExitToUser
            \/ UserFault \/ KthreadPage \/ JumpToVsMode \/ Spin \/ UNCHANGED vars
  <2>1. UNCHANGED <<current, g_task, counter>>
    BY <1>13
       DEF TrapKernel, RetToKernel, NeedResched, PreemptDone, BootIrqEnable,
           ScheduleDone, ExitToUser, UserFault, KthreadPage, JumpToVsMode, Spin,
           vars, queue
  <2> QED
    BY <2>1 DEF TS!asVars
<1> QED
  BY <1>6, <1>7, <1>8, <1>9, <1>10, <1>11, <1>12, <1>13 DEF Next, Tick, Proceed

\* The scheduler implements TimeSlicing: the hart goes only to a queued task with
\* the largest slice, never to a spent one, and fork creates no slice.
THEOREM Implementation == Spec => ImplementsTimeSlicing
<1>1. Init => TS!AsInit
  BY DEF Init, TS!AsInit
<1>2. IInv /\ [Next]_vars => [TS!AsNext]_(TS!asVars)
  BY StepImplements
<1> QED
  BY <1>1, <1>2, Invariant, PTL DEF Spec, ImplementsTimeSlicing, TS!AsSpec

\* Slices are refilled only when the whole queue has used up its own.
THEOREM RefillOnlyWhenSpent == Spec => RefillWhenSpent
<1> DEFINE Spent == (\E p \in g_task \ {current} : counter'[p] > counter[p])
              => \A p \in g_task \ {Init_task} :
                    counter[p] <= IF p = current THEN 1 ELSE 0
<1>1. IInv /\ [Next]_vars => [Spent]_vars
  <2> SUFFICES ASSUME IInv, [TS!AsNext]_(TS!asVars),
                      NEW p \in g_task \ {current}, counter'[p] > counter[p],
                      NEW t \in g_task \ {Init_task}
               PROVE  counter[t] <= IF t = current THEN 1 ELSE 0
    BY StepImplements
  <2>1. /\ current \in Pids /\ p \in Pids /\ t \in Pids
        /\ counter \in [Pids -> 0 .. Full]
        /\ \A s \in Pids : counter[s] \in Int
    BY DEF IInv, QueueInv, TaskInv, FieldsOK
  <2>2. ~UNCHANGED counter
    BY <2>1
  <2>3. CASE TS!Yield
    BY <2>1, <2>3 DEF TS!Yield, TS!Hand
  <2>4. CASE TS!Burn
    BY <2>1, <2>4 DEF TS!Burn, TS!Hand
  <2>5. CASE TS!Admit
    BY <2>1, <2>5 DEF TS!Admit, TS!Hand
  <2> QED
    BY <2>2, <2>3, <2>4, <2>5 DEF TS!AsNext, TS!asVars
<1> QED
  BY <1>1, Invariant, PTL DEF Spec, RefillWhenSpent

\* A flag that a tick has set unseen, on the way out of work_resched, waits for one
\* trap: every trap from user mode that does not panic leaves by schedule().
THEOREM FlagWaitsForOneTrap == Spec => LateByOneTrap
<1> DEFINE Late == InUser /\ need_resched[current] => ~need_resched'[current] \/ panicked'
<1>1. ASSUME IInv, Next, InUser, need_resched[current]
      PROVE  ~need_resched'[current] \/ panicked'
  <2>1. /\ ~panicked /\ ctx[current] = "user" /\ pre[current] = "no"
        /\ current \in Pids /\ need_resched \in [Pids -> BOOLEAN]
        /\ counter \in [Pids -> 0 .. Full]
    BY <1>1 DEF InUser, IInv, QueueInv, TaskInv, FieldsOK, Preemptible, Phases
  <2>2. ASSUME NEW cnt, NEW res \in [Pids -> BOOLEAN], res[current], NEW x,
               RetToUser(cnt, res, x)
        PROVE  ~need_resched'[current]
    <3>1. need_resched' = [res EXCEPT ![current] = FALSE]
      BY <2>2 DEF RetToUser, Schedule, clear_task_resched
    <3> QED
      BY <2>1, <3>1
  <2>3. /\ Flagged(counter, need_resched) \in [Pids -> BOOLEAN]
        /\ Flagged(counter, need_resched)[current]
    BY <1>1, <2>1 DEF Flagged, TickFlag
  <2>4. CASE TickUser
    BY <2>2, <2>3, <2>4 DEF TickUser
  <2>5. CASE TrapUser \/ Malloc
    BY <1>1, <2>1, <2>2, <2>5 DEF TrapUser, Malloc
  <2>6. CASE Clone
    BY <1>1, <2>1, <2>2, <2>6 DEF Clone
  <2>7. CASE UserFault
    BY <2>7 DEF UserFault
  <2>8. ~(TickKernel \/ TrapKernel \/ BootFork \/ BootIrqEnable \/ Proceed \/ KthreadPage
            \/ FnReturns \/ JumpToVsMode \/ Spin)
    BY <2>1 DEF TickKernel, TrapKernel, InKernel, BootFork, BootIrqEnable, Proceed, PreemptSchedule,
                PreemptDone, ScheduleDone, ExitToUser, RetFromFork, KthreadPage, FnReturns,
                JumpToVsMode, Spin, At
  <2> QED
    BY <1>1, <2>4, <2>5, <2>6, <2>7, <2>8 DEF Next, Tick
<1>2. IInv /\ [Next]_vars => [Late]_vars
  BY <1>1
<1> QED
  BY <1>2, Invariant, PTL DEF Spec, LateByOneTrap

=============================================================================
