------------------------------- MODULE Sched -------------------------------
(***************************************************************************)
(* The benos scheduler on its single hart: the run queue and time slices   *)
(* of src/sched.c and src/sched_simple.c, process creation in src/fork.c,  *)
(* and the return paths of src/entry.S that call them.                     *)
(*                                                                         *)
(* One step is one stretch of code that no interrupt can enter (SIE = 0),  *)
(* or one stretch that it can enter but that changes nothing of what is    *)
(* modelled.  ctx[p] is the code task p executes, or will execute when it  *)
(* is switched in; pre[p] is where p stands in preempt_schedule_irq when   *)
(* an interrupt return preempted it on top of ctx[p].                      *)
(*                                                                         *)
(* Left out: registers and stacks (module TrapFrame), which page an        *)
(* allocation returns (module GuestPaging), and nr_switches, total_forks   *)
(* and rq->curr, which the kernel writes and never reads.                  *)
(***************************************************************************)
EXTENDS Integers, Sequences

CONSTANTS
    NR_TASK,        \* slots of g_task, the init task's included
    NR_FREE,        \* pages get_free_page can still hand out at boot
    DEF_COUNTER,    \* the init task's first slice, and the base of a refill
    PRIORITY        \* the priority do_fork gives to every task

ASSUME SchedAssumption ==
    /\ NR_TASK \in Nat /\ NR_TASK > 1
    /\ NR_FREE \in Nat /\ NR_FREE > 0
    /\ DEF_COUNTER \in Nat /\ DEF_COUNTER > 0
    /\ PRIORITY \in Nat

VARIABLES
    current,        \* the task tp points to
    runq,           \* rq_head, the tasks in list order
    nr_running,     \* rq->nr_running
    g_task,         \* the pids whose g_task entry is not NULL
    counter,        \* p->counter, the rest of the time slice
    need_resched,   \* p->need_resched
    preempt_count,  \* p->preempt_count
    ctx,            \* where the task executes, see Contexts
    pre,            \* where it stands in preempt_schedule_irq, see Phases
    free_pages,     \* pages left in mem_map
    bugs,           \* the "BUG:" messages printed so far
    panicked        \* the hart spins in panic()

vars == <<current, runq, nr_running, g_task, counter, need_resched,
          preempt_count, ctx, pre, free_pages, bugs, panicked>>

Init_task == 0
Pids == 0 .. NR_TASK - 1

Contexts == {
    "none",     \* no such task yet
    "boot",     \* kernel_main before arch_local_irq_enable
    "new_k",    \* never ran; cpu_context.ra = ret_from_kernel_thread
    "new_u",    \* never ran; cpu_context.ra = ret_from_fork
    "kthread",  \* a kernel thread's fn, or the init task's while (1)
    "uframe",   \* fn again, its frame rewritten by move_to_user_space
    "vs_main",  \* fn again, on its way to jump_to_vs_mode
    "user",     \* U mode, or the guest in VS mode
    "forkret",  \* ret_from_fork, before ret_from_exception clears SIE
    "resched",  \* work_resched: in schedule(), past the choice of the next task
    "exit" }    \* no_work_pending, reached from work_resched with SIE set

Phases == {
    "no",       \* not in preempt_schedule_irq
    "window",   \* between its raw_local_irq_enable and __schedule's disable
    "tail" }    \* past the choice of the next task, interrupts enabled

Messages == {"scheduling while atomic", "incorrect preempt count"}

-----------------------------------------------------------------------------
(* Time slices and the choice of the next task (sched_simple.c). *)

\* Mutant: the scan stops at the head of the list.
FirstBest_Head(q, cnt) == 1

\* The entry of q that the strict > of the scan keeps: the first of the
\* heaviest.  An empty queue leaves next uninitialised in the code.
FirstBest(q, cnt) ==
    CHOOSE i \in DOMAIN q : \A j \in DOMAIN q :
        /\ cnt[q[j]] <= cnt[q[i]]
        /\ cnt[q[j]] = cnt[q[i]] => i <= j

reset_score(tasks, cnt) ==
    [p \in Pids |-> IF p \in tasks \ {Init_task} THEN DEF_COUNTER + PRIORITY
                                                 ELSE cnt[p]]

\* The slices after pick_next_task_simple: a best weight of 0 refills them.
Refill(q, tasks, cnt) ==
    IF cnt[q[FirstBest(q, cnt)]] = 0 THEN reset_score(tasks, cnt) ELSE cnt

\* Mutant: the slice is not kept from going below zero.
TickCounter_NoFloor(c) == c - 1

\* task_tick_simple, the slice and the flag.
TickCounter(c) == IF c - 1 <= 0 THEN 0 ELSE c - 1
TickFlag(c, flag) == flag \/ c - 1 <= 0

Ticked(cnt) == [cnt EXCEPT ![current] = TickCounter(@)]
Flagged(cnt, res) == [res EXCEPT ![current] = TickFlag(cnt[current], @)]

-----------------------------------------------------------------------------
(* Switching (sched.c, entry.S). *)

\* Where a task continues when cpu_switch_to returns into its context.
Resume(c) == CASE c = "new_k" -> "kthread"
               [] c = "new_u" -> "forkret"
               [] OTHER       -> c

\* schedule_debug: the message, if the count is not the caller's one.
schedule_debug(count) == IF count # 1 THEN {"scheduling while atomic"} ELSE {}

\* Mutant: the flag is not cleared.
clear_task_resched_Forgotten(res) == res

\* clear_task_resched(prev), before the switch.
clear_task_resched(res) == [res EXCEPT ![current] = FALSE]

\* __schedule from its raw_local_irq_disable until interrupts are enabled
\* again, in the task switched in.  x and r hold the place at which current
\* is left behind; cnt, res and pc are the fields the caller has written.
\* No task ever leaves TASK_RUNNING, so dequeue_task is never reached.
Schedule(cnt, res, pc, x, r) ==
    LET score == Refill(runq', g_task', cnt)
        next  == runq'[FirstBest(runq', score)]
    IN  /\ bugs' = bugs \cup schedule_debug(pc[current])
        /\ counter' = score
        /\ current' = next
        /\ need_resched' = clear_task_resched(res)
        /\ preempt_count' = pc
        /\ ctx' = [x EXCEPT ![next] = Resume(@)]
        /\ pre' = r

preempt_disable(pc) == [pc EXCEPT ![current] = @ + 1]
preempt_enable(pc) == [pc EXCEPT ![current] = @ - 1]

\* Mutant: the flag is not looked at.
RetToUser_Unchecked(cnt, res, x) ==
    /\ counter' = cnt
    /\ need_resched' = res
    /\ ctx' = [x EXCEPT ![current] = "user"]
    /\ UNCHANGED <<current, preempt_count, pre, bugs>>

\* ret_to_user, with SIE = 0: the flag is honoured once, through schedule().
RetToUser(cnt, res, x) ==
    \/ /\ res[current]
       /\ Schedule(cnt, res, preempt_disable(preempt_count),
                   [x EXCEPT ![current] = "resched"], pre)
    \/ /\ ~res[current]
       /\ counter' = cnt
       /\ need_resched' = res
       /\ ctx' = [x EXCEPT ![current] = "user"]
       /\ UNCHANGED <<current, preempt_count, pre, bugs>>

\* The need_resched loop of ret_to_kernel, down to preempt_schedule_irq's
\* raw_local_irq_enable or to restore_all.  pc[current] is 0 by the test
\* before the label, or by the preempt_enable before the jump back to it.
NeedResched(cnt, res, pc) ==
    /\ counter' = cnt
    /\ need_resched' = res
    /\ \/ /\ res[current]
          /\ bugs' = bugs \cup IF pc[current] # 0 THEN {"incorrect preempt count"}
                                                  ELSE {}
          /\ preempt_count' = preempt_disable(pc)
          /\ pre' = [pre EXCEPT ![current] = "window"]
       \/ /\ ~res[current]
          /\ preempt_count' = pc
          /\ pre' = [pre EXCEPT ![current] = "no"]
          /\ UNCHANGED bugs
    /\ UNCHANGED <<current, ctx>>

\* Mutant: preempt_count is not tested.
RetToKernel_Nested(cnt, res) == NeedResched(cnt, res, preempt_count)

\* ret_to_kernel: preemption only when preempt_count is 0.
RetToKernel(cnt, res) ==
    \/ /\ preempt_count[current] = 0
       /\ NeedResched(cnt, res, preempt_count)
    \/ /\ preempt_count[current] # 0
       /\ counter' = cnt
       /\ need_resched' = res
       /\ UNCHANGED <<current, preempt_count, ctx, pre, bugs>>

queue == <<runq, nr_running, g_task>>

\* Where the hart is.
InUser == ~panicked /\ ctx[current] = "user"
\* Kernel code that runs with SIE = 1.
InKernel ==
    ~panicked /\ ctx[current] \in {"kthread", "uframe", "vs_main", "forkret", "resched", "exit"}
At(c) == ~panicked /\ pre[current] = "no" /\ ctx[current] = c

-----------------------------------------------------------------------------
(* Process creation (fork.c). *)

find_empty_task == CHOOSE i \in Pids \ g_task : \A j \in Pids \ g_task : i <= j

\* Mutant: the parent keeps its whole slice.
ForkSlices_Gift(cnt, parent, child) == [cnt EXCEPT ![child] = (cnt[parent] + 1) \div 2]

\* The slices after do_fork: the parent's is split between the two.
ForkSlices(cnt, parent, child) ==
    [cnt EXCEPT ![child] = (cnt[parent] + 1) \div 2, ![parent] = @ \div 2]

\* Mutant: wake_up_process is given the parent.
ForkQueue_Parent(child) ==
    /\ g_task' = g_task \cup {child}
    /\ runq' = <<current>> \o runq
    /\ nr_running' = nr_running + 1
    /\ free_pages' = free_pages - 1

\* What a do_fork that succeeds does to the page map, g_task and the run queue.
ForkQueue(child) ==
    /\ g_task' = g_task \cup {child}
    /\ runq' = <<child>> \o runq
    /\ nr_running' = nr_running + 1
    /\ free_pages' = free_pages - 1

\* A do_fork that returns -1.  The page is taken before the slot is looked
\* for, and the error path does not give it back.
ForkFails ==
    /\ \/ free_pages = 0 /\ UNCHANGED free_pages
       \/ free_pages > 0 /\ Pids \ g_task = {} /\ free_pages' = free_pages - 1
    /\ UNCHANGED queue

CanFork == free_pages > 0 /\ Pids \ g_task # {}

-----------------------------------------------------------------------------
(* kernel_main. *)

\* do_fork(PF_KTHREAD, ...) at boot, with interrupts still disabled.
BootFork ==
    /\ At("boot")
    /\ \/ /\ CanFork
          /\ LET child == find_empty_task
             IN  /\ ForkQueue(child)
                 /\ counter' = ForkSlices(counter, current, child)
                 /\ ctx' = [ctx EXCEPT ![child] = "new_k"]
       \/ ~CanFork /\ ForkFails /\ UNCHANGED <<counter, ctx>>
    /\ UNCHANGED <<current, need_resched, preempt_count, pre, bugs, panicked>>

\* arch_local_irq_enable, after at least one do_fork; then while (1).
BootIrqEnable ==
    /\ At("boot") /\ runq # <<>>
    /\ ctx' = [ctx EXCEPT ![current] = "kthread"]
    /\ UNCHANGED <<current, queue, counter, need_resched, preempt_count, pre,
                   free_pages, bugs, panicked>>

-----------------------------------------------------------------------------
(* Traps. *)

\* handle_timer_irq's tick_handle_periodic, from U or VS mode.
TickUser ==
    /\ InUser
    /\ UNCHANGED <<queue, free_pages, panicked>>
    /\ RetToUser(Ticked(counter), Flagged(counter, need_resched), ctx)

\* The same from kernel code.
TickKernel ==
    /\ InKernel
    /\ UNCHANGED <<queue, free_pages, panicked>>
    /\ RetToKernel(Ticked(counter), Flagged(counter, need_resched))

\* Any other trap that leaves the scheduler's data alone: an external
\* interrupt, a system call without effect here, a guest fault or ecall.
TrapUser ==
    /\ InUser
    /\ UNCHANGED <<queue, free_pages, panicked>>
    /\ RetToUser(counter, need_resched, ctx)

TrapKernel ==
    /\ InKernel
    /\ UNCHANGED <<queue, free_pages, panicked>>
    /\ RetToKernel(counter, need_resched)

\* The clone system call, flags = 0 as usr/ passes it.
Clone ==
    /\ InUser
    /\ UNCHANGED panicked
    /\ \/ /\ CanFork
          /\ LET child == find_empty_task
             IN  /\ ForkQueue(child)
                 /\ RetToUser(ForkSlices(counter, current, child), need_resched,
                              [ctx EXCEPT ![child] = "new_u"])
       \/ ~CanFork /\ ForkFails /\ RetToUser(counter, need_resched, ctx)

\* The malloc system call: one page, never given back.
Malloc ==
    /\ InUser /\ free_pages > 0
    /\ free_pages' = free_pages - 1
    /\ UNCHANGED <<queue, panicked>>
    /\ RetToUser(counter, need_resched, ctx)

\* A trap whose handler ends in do_trap_error, or that vs_sbi_ecall_handle or
\* stage2_page_fault gives up on.  With the page tables of boot.S and paging_init,
\* which set _PAGE_USER nowhere, the first fetch in U mode is such a trap.
UserFault ==
    /\ InUser
    /\ panicked' = TRUE
    /\ UNCHANGED <<current, queue, counter, need_resched, preempt_count, ctx, pre,
                   free_pages, bugs>>

-----------------------------------------------------------------------------
(* Kernel code with interrupts enabled. *)

\* preempt_schedule_irq's __schedule.
PreemptSchedule ==
    /\ ~panicked /\ pre[current] = "window"
    /\ UNCHANGED <<queue, free_pages, panicked>>
    /\ Schedule(counter, need_resched, preempt_count, ctx,
                [pre EXCEPT ![current] = "tail"])

\* Mutant: no jump back to need_resched.
PreemptDone_NoLoop ==
    /\ ~panicked /\ pre[current] = "tail"
    /\ preempt_count' = preempt_enable(preempt_count)
    /\ pre' = [pre EXCEPT ![current] = "no"]
    /\ UNCHANGED <<queue, free_pages, panicked, current, counter, need_resched, ctx, bugs>>

\* The rest of preempt_schedule_irq, and the jump back to need_resched.
PreemptDone ==
    /\ ~panicked /\ pre[current] = "tail"
    /\ UNCHANGED <<queue, free_pages, panicked>>
    /\ NeedResched(counter, need_resched, preempt_enable(preempt_count))

\* The preempt_enable of schedule(), called from work_resched.
ScheduleDone ==
    /\ At("resched")
    /\ preempt_count' = preempt_enable(preempt_count)
    /\ ctx' = [ctx EXCEPT ![current] = "exit"]
    /\ UNCHANGED <<current, queue, counter, need_resched, pre, free_pages, bugs,
                   panicked>>

\* j no_work_pending: to user mode without another look at the flag.
ExitToUser ==
    /\ At("exit")
    /\ ctx' = [ctx EXCEPT ![current] = "user"]
    /\ UNCHANGED <<current, queue, counter, need_resched, preempt_count, pre,
                   free_pages, bugs, panicked>>

\* A new process leaves ret_from_fork: ret_from_exception clears SIE first.
RetFromFork ==
    /\ At("forkret")
    /\ UNCHANGED <<queue, free_pages, panicked>>
    /\ RetToUser(counter, need_resched, ctx)

\* A kernel thread's get_free_page, with interrupts enabled: the user stack of
\* move_to_user_space, or the guest page of vs_main.  Without a page the first
\* returns -1 and fn then leaves by a frame of zeroes, the second writes to
\* address 0: either way a page fault in the kernel ends in panic().
KthreadPage ==
    /\ At("kthread") /\ current # Init_task
    /\ \/ /\ free_pages > 0
          /\ free_pages' = free_pages - 1
          /\ \E c \in {"uframe", "vs_main"} : ctx' = [ctx EXCEPT ![current] = c]
          /\ UNCHANGED panicked
       \/ /\ free_pages = 0
          /\ panicked' = TRUE
          /\ UNCHANGED <<ctx, free_pages>>
    /\ UNCHANGED <<current, queue, counter, need_resched, preempt_count, pre, bugs>>

\* fn returns to ret_from_exception, which clears SIE; the frame says U mode.
FnReturns ==
    /\ At("uframe")
    /\ UNCHANGED <<queue, free_pages, panicked>>
    /\ RetToUser(counter, need_resched, ctx)

\* jump_to_vs_mode: the sret is the thread's own, nothing is checked.
JumpToVsMode ==
    /\ At("vs_main")
    /\ ctx' = [ctx EXCEPT ![current] = "user"]
    /\ UNCHANGED <<current, queue, counter, need_resched, preempt_count, pre,
                   free_pages, bugs, panicked>>

\* panic() spins with interrupts disabled.
Spin == panicked /\ UNCHANGED vars

-----------------------------------------------------------------------------
Init ==
    /\ current = Init_task
    /\ runq = <<>>
    /\ nr_running = 0
    /\ g_task = {Init_task}
    /\ counter = [p \in Pids |-> IF p = Init_task THEN DEF_COUNTER ELSE 0]
    /\ need_resched = [p \in Pids |-> FALSE]
    /\ preempt_count = [p \in Pids |-> 0]
    /\ ctx = [p \in Pids |-> IF p = Init_task THEN "boot" ELSE "none"]
    /\ pre = [p \in Pids |-> "no"]
    /\ free_pages = NR_FREE
    /\ bugs = {}
    /\ panicked = FALSE

Tick == TickUser \/ TickKernel

\* The steps the hart takes by itself when no trap interferes.
Proceed == PreemptSchedule \/ PreemptDone \/ ScheduleDone \/ ExitToUser \/ RetFromFork

Next ==
    \/ BootFork \/ BootIrqEnable
    \/ Tick \/ TrapUser \/ TrapKernel \/ Clone \/ Malloc \/ UserFault
    \/ Proceed \/ KthreadPage \/ FnReturns \/ JumpToVsMode
    \/ Spin

Spec == Init /\ [][Next]_vars

\* The timer is re-armed by every timer interrupt, and code that may run
\* does: kernel_main enables interrupts, and Proceed goes on.
Fairness == WF_vars(Tick) /\ WF_vars(Proceed) /\ WF_vars(BootIrqEnable)
FairSpec == Spec /\ Fairness
-----------------------------------------------------------------------------
(* Properties. *)

TypeOK ==
    /\ current \in g_task
    /\ g_task \in SUBSET Pids
    /\ runq \in Seq(Pids)
    /\ nr_running \in Nat
    /\ counter \in [Pids -> 0 .. DEF_COUNTER + PRIORITY]
    /\ need_resched \in [Pids -> BOOLEAN]
    /\ preempt_count \in [Pids -> 0 .. 1]
    /\ ctx \in [Pids -> Contexts]
    /\ pre \in [Pids -> Phases]
    /\ free_pages \in 0 .. NR_FREE
    /\ bugs \subseteq Messages
    /\ panicked \in BOOLEAN

\* The run queue of src/sched_simple.c:12-17 holds exactly the forked tasks,
\* each once, and nr_running counts them.  In particular the init task is never
\* in it: once preempted, kernel_main's while (1) is over.
RunQueueOK ==
    /\ {runq[i] : i \in DOMAIN runq} = g_task \ {Init_task}
    /\ \A i, j \in DOMAIN runq : runq[i] = runq[j] => i = j
    /\ nr_running = Len(runq)

\* No "BUG:" line of sched.c:73-78 and 142-144 is ever printed: whatever the
\* interrupts that nest in the windows of schedule() and preempt_schedule_irq(),
\* the scheduler is entered with a preempt_count of exactly 1.
NoSchedulingBug == bugs = {}

\* What a task that is not running looks like: it never ran, or it stands behind
\* the cpu_switch_to of schedule() or of preempt_schedule_irq() with preemption
\* off, and no need_resched is left over from before it was switched out.  Only
\* the init task can be gone for ever.
ParkedOK ==
    \A p \in Pids \ {current} :
        /\ ~need_resched[p]
        /\ ctx[p] \in {"none", "new_k", "new_u"} =>
               preempt_count[p] = 0 /\ pre[p] = "no"
        /\ ctx[p] \notin {"none", "new_k", "new_u"} =>
               /\ preempt_count[p] = 1
               /\ ctx[p] = "resched" \/ pre[p] = "tail"
        /\ ctx[p] = "none" <=> p \notin g_task

\* An interrupt never returns to preemptible kernel code whose task has asked to
\* be rescheduled: the loop at entry.S:214-221 leaves only with the flag clear,
\* even if ticks arrive inside preempt_schedule_irq.  Not so on the way out of
\* work_resched, where interrupts are enabled again (LateByOneTrap).
KernelHonoursFlag ==
    (~panicked /\ pre[current] = "no" /\ ctx[current] \notin {"user", "resched", "exit"})
        => ~need_resched[current]

\* entry.S:183 has the flags checked atomically, but a tick between schedule() and
\* sret sets one unseen.  It is late by one trap at most: whatever trap is taken
\* next from user mode ends with the flag clear, be the task switched out or not,
\* unless it ends in panic().
LateByOneTrap ==
    [][InUser /\ need_resched[current]
           => ~need_resched'[current] \/ panicked']_vars

\* Slices are refilled (sched_simple.c:59-62) only when every task in the run
\* queue has used up its own, the running one with this very tick.
RefillWhenSpent ==
    [][(\E p \in g_task \ {current} : counter'[p] > counter[p])
        => \A p \in g_task \ {Init_task} : counter[p] <= IF p = current THEN 1 ELSE 0]_vars

\* Each task forked gets the hart again and again, whatever the ticks, clones and
\* nested preemptions in between, unless the kernel has panicked.
NoStarvation ==
    \A p \in Pids \ {Init_task} : p \in g_task ~> (current = p \/ panicked)

\* The scheduler implements the promise of TimeSlicing: the hart goes only to a
\* queued task with the largest slice, never to a spent one, and fork creates no
\* slice out of nothing.
TS == INSTANCE TimeSlicing WITH
          Tasks <- Pids, First <- Init_task, FirstSlice <- DEF_COUNTER,
          FullSlice <- DEF_COUNTER + PRIORITY,
          running <- current, ready <- g_task \ {Init_task}, slice <- counter

ImplementsTimeSlicing == TS!AsSpec
=============================================================================
