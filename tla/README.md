# benos in TLA+

A verification project for `src/benos`, a teaching operating system for one
RISC-V hart with the hypervisor extension, and for the concurrent examples in
`src/others`. It holds TLA+ modules translated from the source, TLC
configurations that check them on small instances, and proofs that TLAPS
checks.

## 1. Inventory

### The layers and how they meet

    VS mode   guest: virt/vs_main.c, vs_mmu.c, vs_trap.c, vs_timer.c, vs_entry.S
              | ecall (SBI_SET_TIMER, SBI_EXIT_VM_TEST), guest page fault
              | ^ hvip (virtual timer interrupt)
    U mode    threads of kernel.c, system calls of usr/
              | ecall, interrupts
    HS mode   entry.S, trap.c | sched.c, sched_simple.c, fork.c | timer.c, vmm.c,
              plic.c, uart.c | page_alloc.c, mmu.c, stage2_mmu.c | printk.c
              | ecall (SBI calls)   ^ sip.STIP, delegated exceptions
    M mode    sbi/: sbi_main.c, sbi_trap.c, sbi_timer.c, sbi_lib.c, sbi_entry.S

| Component | Source | State | Operations |
|---|---|---|---|
| Scheduler | `sched.c`, `sched_simple.c` | `g_rq`, `counter`, `need_resched`, `preempt_count` | tick, `schedule`, `preempt_schedule_irq`, refill of the slices |
| Processes | `fork.c`, `kernel.c` | `g_task`, `cpu_context`, the pt_regs at the top of each kernel stack | `do_fork`, `move_to_user_space`, the first run of a task |
| Trap path | `entry.S`, `trap.c` | `sscratch`, `sstatus`, `sepc`, `kernel_sp`, `user_sp`, the frames | `kernel_entry`, `kernel_exit`, `ret_to_user`, `ret_to_kernel`, `do_exception` |
| Way into the guest | `vs_main.c`, `vs_entry.S` | the same, `hstatus.SPV` | `vs_main`, `jump_to_vs_mode` |
| Timers | `timer.c`, `vmm.c`, `sbi_timer.c`, `sbi_trap.c`, `vs_timer.c`, `vs_trap.c` | `mtimecmp`, `mie.MTIE`, `mip.STIP`, `sie.STIE`, `hvip`, `vcpu_timer` | `reset_timer`, `sbi_set_timer`, `handle_timer_irq`, `riscv_vcpu_timer_event_start`, `riscv_vcpu_check_timer_expired` |
| Pages | `page_alloc.c` | `mem_map`, `phy_start_address` | `mem_init`, `get_free_page`, `free_page` |
| Page tables | `mmu.c`, `stage2_mmu.c`, `vs_mmu.c`, `boot.S` | the three trees | `create_pgd_mapping`, `stage2_page_fault`, `set_vs_mapping_page` |
| System calls | `syscall.c`, `usr/` | none of its own | `riscv_svc_handler`, the table |
| Console | `uart.c`, `plic.c`, `lib/printk.c` | the UART, PLIC claim and `SIE_SEIE`, `print_buf`, `log_buf`, `g_record` | `printk`, `init_printk_done`, `plic_handle_irq`, `handle_uart_irq` |
| Firmware | `sbi_main.c`, `sbi_lib.c`, `sbi_trap.c` | PMP entries, `mtvec`, `medeleg`, `mideleg` | `sbi_set_pmp`, `delegate_traps`, `sbi_trap_handler` |
| Symbol table | `scripts/kallsyms/kallsyms.c`, `src/kallsyms.c` | `table`, `best_table`, `token_profit`; the tables it writes | two passes of the tool over the output of `nm`; `kallsyms_lookup` |
| Back trace, dump, memset | `stacktrace.c`, `dump_pgtable.c`, `memset.c` | the stack, the page tables, memory | `walk_stackframe`, `walk_pgd`, `memset` |
| Laboratory examples | `src/others` | shared words of a few threads | atomics, LR/SC, a lock-free list, litmus tests |

### What is hard

* Interrupts nest in three places only: the window of `preempt_schedule_irq`,
  what follows `__schedule`'s `raw_local_irq_enable`, and kernel threads. Every
  hazard of the scheduler and of the trap path sits there.
* `ret_to_user` leaves with interrupts enabled after `schedule()` (`entry.S:204`),
  so the rest of `kernel_exit` can be interrupted.
* The timer chain crosses four modes; each link disarms itself and relies on
  another to be armed again.
* `get_free_page` tests and sets `mem_map` in kernel threads that can be
  preempted.
* The guest runs the kernel's own allocator on the kernel's own `mem_map`
  (stage 2 maps every page to itself), and each of its accesses may fault into
  a handler that allocates from it as well.
* `printk` has one static buffer for kernel, handlers and guest, and sends it
  character by character with interrupts enabled.
* The symbol tables are linked into the program they describe: the tool runs on
  its own effect.
* The threads of `example_14_10_free_lock_list.c` append and cut on one list
  with nothing but `cmpxchg`, and read it between the test and the `cmpxchg`.

### What makes each part correct

| Part | What has to hold | Where |
|---|---|---|
| Scheduler | the queue holds each task once; nesting never enters the scheduler in atomic context; no stale or unseen `need_resched`; the hart goes to a largest slice; nobody starves | `Sched`, `TimeSlicing` |
| Trap path | whoever leaves the kernel finds its registers, its stack and `sscratch`; frames still needed are never written; nesting is bounded | `TrapFrame` |
| Timers | the next tick is in exactly one link of the chain; no early tick; host and guest ticks go on | `Timer`, `OneShotTimer` |
| Guest memory | no page serves two purposes, none is lost; both stages together return what was stored; panic only without pages; faults end | `GuestPaging` |
| Lock-free list | no lost link, no cycle, no node with two predecessors; what was cut stays out | `LockFreeList` |
| Console | every message printed early is printed once when the console is up; characters are mixed up only by handlers, and stay in their place | `Console`, `PrintFormat` |
| PLIC, UART | received bytes are read; the transmitter has room | `Console` |
| Symbol table | both passes agree; compression loses nothing; an address finds its function | `Kallsyms` |
| Page tables | an address leads where the last mapping says; the dump says so | `PageTable` |
| Firmware | an access has the permission of the request that holds its address; every trap reaches the routine that serves it | `Pmp`, `TrapRouting` |
| Memory, back trace | exactly the bytes asked for; the chain of calls, and an end | `Memset`, `StackTrace` |

## 2. Modules and the code

| Module | Models | Lines it stands for |
|---|---|---|
| `Sched` | scheduler, `do_fork`, and the return paths that call `schedule` | `sched.c`, `sched_simple.c`, `fork.c`, `kernel.c`, `entry.S` |
| `TimeSlicing` | what the scheduler promises, without queue, flag or interrupt | (abstract) |
| `TrapFrame` | entry, return, kernel stack and CSRs of one task; the way into the guest | `entry.S`, `ptregs.h`, `vs_main.c`, `vs_entry.S`, `fork.c` |
| `Timer` | host tick and virtual timer | `sbi_timer.c`, `sbi_trap.c`, `timer.c`, `vmm.c`, `vs_timer.c`, `vs_trap.c` |
| `OneShotTimer` | a timer that is set, fires once, and is set again | (abstract) |
| `GuestPaging` | allocator, stage 2 on demand, the guest's stage 1, the `VS_MEM` test | `page_alloc.c`, `mmu.c`, `stage2_mmu.c`, `vs_mmu.c`, `vs_main.c`, `trap.c` |
| `LockFreeList` | `add_node`, `del_node` | `others/atomic/example_14_10_free_lock_list.c` |
| `Console` | `printk` and who calls it, UART, PLIC | `printk.c`, `uart.c`, `plic.c`, `kernel.c`, `vs_main.c` |
| `Kallsyms` | the symbol table from `nm` to the look-up | `scripts/kallsyms/kallsyms.c`, `src/kallsyms.c` |
| `PageTable` | page tables over ranges, the sections of the start, the dump | `mmu.c`, `boot.S`, `pgtable.h`, `dump_pgtable.c` |
| `TrapRouting` | delegation and dispatch of traps between three levels | `sbi_trap.c`, `sbi_main.c`, `trap.c`, `vs_trap.c` |
| `Pmp`, `Memset`, `PrintFormat`, `StackTrace` | `sbi_set_pmp`; `memset`; one directive of `myprintf`; `walk_stackframe` | `sbi_main.c`, `sbi_lib.c`; `memset.c`; `printk.c`; `stacktrace.c` |
| `Routines` | the six modules above and `Kallsyms` side by side: a behaviour picks one and runs it | (composition) |
| `SchedProofs`, `TrapFrameProofs`, `TimerProofs`, `GuestPagingProofs`, `LockFreeListProofs`, `ConsoleProofs`, `KallsymsProofs`, `RoutinesProofs` | theorems about the module each is named after | |
| `MCConsole`, `MCKallsyms`, `MCRoutines` | small instances of `Console`, `Kallsyms` and `Routines` for TLC | |

`TimeSlicing` and `OneShotTimer` are instantiated by `Sched` (as `TS`) and
`Timer` (twice, as `Host` and `Vcpu`) with a refinement mapping. The other
modules meet at their edges instead of sharing variables: `Sched` takes the
result of an allocation as a number of pages left, `TrapFrame` takes whether
`need_resched` is set as an open choice, `Timer` takes the kernel between two
ticks as one place, `run`.

Definitions with the comment `Mutant:`, named `Something_How` or `X_Something`,
are plausible bugs of `Something`. Nothing uses them in the specifications; each
one put in place of `Something` breaks the property that `PROJECT.json` pairs it with.

### Sched

One step is a stretch of code that runs with `SIE` clear, or a stretch that an
interrupt can enter but that changes nothing that is modelled.

| Code | Model |
|---|---|
| `tp`, `g_task`, `rq_head`, `nr_running` | `current`, `g_task`, `runq`, `nr_running` |
| `counter`, `need_resched`, `preempt_count` of a task | functions over `Pids` |
| a task's place in code other than `preempt_schedule_irq` | `ctx[p]` |
| its place in `preempt_schedule_irq`, on top of that | `pre[p]` |
| `task_tick_simple` | `TickCounter`, `TickFlag` |
| `pick_next_task_simple`, `reset_score` | `FirstBest`, `Refill` |
| `__schedule` up to interrupts enabled again | `Schedule` |
| `ret_to_user`, `work_resched`, `no_work_pending` | `RetToUser`, `ScheduleDone`, `ExitToUser` |
| `ret_to_kernel`, `need_resched:`, `preempt_schedule_irq` | `RetToKernel`, `NeedResched`, `PreemptSchedule`, `PreemptDone` |
| `do_fork` at boot, and through `clone` | `BootFork`, `Clone`, `ForkFails` |
| `handle_timer_irq` from either side | `TickUser`, `TickKernel` |
| every other trap | `TrapUser`, `TrapKernel`, `Malloc`, `UserFault` |
| kernel threads going to user mode or to the guest | `KthreadPage`, `FnReturns`, `JumpToVsMode` |
| `ret_from_fork` | `RetFromFork` |
| `panic` | `Spin` |

Two facts of the build are worth knowing when reading it. `kernel_main` as
compiled forks one task, `vs_thread`; the threads that go to user mode stand
under `#if 0` (`kernel.c:558-575`), and the module models them because the
kernel's code for them is complete. And no page table of `boot.S` or
`paging_init` sets the U bit, so those threads would fault at their first
fetch: `UserFault` is that fault, next to the behaviours a U bit would allow.
The init task never enters the run queue, so it is gone once it is preempted.

### TrapFrame

One task and the instructions of `kernel_entry` and `kernel_exit`, each step a
register or a group of registers that a trap cannot tell apart. Stack pointers
count `pt_regs` frames from the top of the kernel stack; the C frames between
are not counted. A history variable, `hit`, records that a trap arrived in the
kernel at one of the steps in `ExitLabels` or `VsLabels`, reached with
interrupts enabled: after `schedule()` in `work_resched`, and in `vs_main`. The
safety invariants say what holds as long as that has not happened; three runs
show what the code's own comments say that does not hold once it has.

`Sret` models the hart: the mode is the one `SPV` and `SPP` name, and both are
cleared.

### Timer and OneShotTimer

Times are what is left until them, so that no clock grows: the CLINT's compare
value is `mtimecmp`, the argument of an `sbi_set_timer` on its way is `hs_next`
or `vs_next`, both of which shrink as time passes between the computation and
the call. `handle_timer_irq` is three steps (`check`, `rearm`, `ecall`) with
`SIE` clear, between which time passes and the firmware's interrupt can fall.
`vs_main` never calls `vs_timer_init`; the guest's driver is modelled in use.

### GuestPaging

One step is one access of the guest to memory, or one fault with its whole
handler. `Access` is the access the guest's code makes next, `Touches` the
accesses to its own code, variables, stack and UART registers it may make at any
time before; `Fault` is any of these that stage 2 does not permit. The guest's
`get_free_page` is two accesses, `Scan` and `Take`, with faults in between.
`cell` is the word at `gpa_addr`, `seen` what was read through `VS_MEM`.

`free_page` and `set_stage2_page_mapping` have no caller in the tree and are
left out. The only task is `vs_thread`, as built, so the allocator's users are
the fault handler and the guest. Assumed: the hart sets the A and D bits itself,
the image fits in one 2 MB region (`LayoutAssumption`), and every change of a
table is seen by the next access, which the fences of the code see to. The two
walks of the tables are taken page by page.

### LockFreeList

One step is one access to memory that another thread may write; the order is
sequentially consistent. A dereference of `NULL` is `crashed`. `print_list`
only reads; `free_node` has no caller, so nodes are never reused.

### Console

One step is one character stored into `print_buf`, one test of the line status
register, one character sent, or one step of `plic_handle_irq`. `frames` is the
stack of activations of `printk` and of the interrupt handler on the hart, with
the interrupted one below. A message is a name, and one message stands for each
run of messages that are printed under the same conditions: two before the
console is up (`E1`, `E2`), one with interrupts off, the last one of
`kernel_main`, one of `vs_thread`, two of the guest, and those of the handlers.
The guest runs the same `printk` on the same buffer, mapped one to one, and its
accesses to code, buffer and UART fault as long as stage 2 does not map them.

What the model shows besides its properties: the early log works because just
two messages are printed before `init_printk_done`; a third would overwrite the
second (`g_record = log_buf + len`). The guest's first message, "running in VS
mode", is overwritten by the message of the stage-2 fault it causes itself.
`uart_init` clears the transmit FIFO and may take the last character of the text
before with it. The last message of `kernel_main` can be cut short by the first
tick, after which the init task never runs again. The test `c < 0` of
`handle_uart_irq` is never true, `char` being unsigned.

### Kallsyms

One behaviour is a whole build and its use: the map of the first link is read,
filtered, sorted and compressed token by token, the tables are written, the
second link moves what lies behind the text and adds their labels, the same
again, and then look-ups in the tables of the second pass. Characters are codes;
the names that the tool compares with fixed strings are constants. `_stext`,
`_etext` and `_text` are in every map, as `linker.ld` defines them.

Of several symbols at one address the kernel finds the last in the sorted order,
the weakest. Loops of the tool that carry a result along (the sums of
`token_profit[]`, `compress_symbols`, the offsets of `write_src`) are functions of
the number of rounds. Left out: the limit of 128 characters and the tool's options.

### PageTable, Pmp, Memset, PrintFormat, TrapRouting, StackTrace

Each is a routine or a few, with just the state they work on. Where a pointer
could run off its table, `PageTable` has the memory behind it as well. Its first
state is either the kernel's tables as `boot.S` leaves them, the sections counted
as the first call, or the empty tables of the guest. `create_mmio_mapping` maps
devices, away from the sections (`Requested`); `stage2_page_fault` maps wherever
the guest faults, so the guest's calls are not restricted. The loops of
`__create_pgd_mapping` are functions of the number of rounds.
`TrapRouting` sets the vectors and delegation registers in the order of the
start and lets every trap come in every state; a fault of the kernel before
`trap_init` goes to `FW_JUMP_ADDR`, which starts the kernel again, and one of the
guest before `vs_trap_init` to address 0. `Pmp` also has register number 8,
which the test in `sbi_set_pmp` lets through and which sets nothing, and starts
that are not aligned, which are rounded down. A negative number printed with a
field width may be one wider than asked: `-` takes no place of the width.
What the hart does with an entry of the PMP is `Matches`, what a request asks for
is `Asks`: the block of the next power of two, which is the range itself when its
start is aligned. `StackTrace` counts rounds of the walk and `PrintFormat` reads a
field back digit by digit (`ReadsAs`), so that a number that is printed in the
wrong base or with a digit too few does not read as itself.

## 3. Runs

Deadlock is checked in every run but `routines`, whose behaviours end with their
calls: where the code stops for good (`panic()`, a
lost hart, a guest that is through, a process that was killed) the module has a
step that says so.

| Run | Question | Bounds | Result |
|---|---|---|---|
| `sched` | queue, nesting, flags, refinement, starvation | `NR_TASK = 4`, `NR_FREE = 7`, `DEF_COUNTER = 3`, `PRIORITY = 1` | holds, 19 466 states |
| `trapframe_safe` | what holds until a trap hits a way out | `MaxDepth = 6` | holds, 396 000 states |
| `trapframe_sscratch` | does a trap from user mode find the task? | `MaxDepth = 5` | violated |
| `trapframe_vs` | does the sret of `vs_main` go to VS mode? | `MaxDepth = 5` | violated |
| `timer` | both chains, pace, refinement, ticks go on | `Period = 3`, `VsPeriod = 6` | holds, 633 states |
| `guest_safe` | pages, tables, both stages, faults end | 8 pages per 2 MB, 4 regions per 1 GB, 20 free pages | holds, 16 100 states |
| `list_safe` | what the list keeps under races | 2 adders, 1 deleter, `MaxNodes = 4` | holds, 253 000 states |
| `list_null` | is there an element behind the empty test? | `MaxNodes = 3` | violated |
| `list_lost` | is only the last element deleted? | `MaxNodes = 3` | violated |
| `console` | early log, mixed messages, overruns, lost bytes | messages of 1 to 4 characters, 3 bytes received, FIFO of 2 | holds, 1 139 583 states |
| `routines` | does each routine do what it is for? | see below | holds, 82 688 states |
| `kallsyms_markers` | does the kernel find the entry of an index? | as `routines`, a marker every 2 | violated |

### Why the bounds are enough

* `sched`: three tasks besides the init task are the fewest for which a choice
  among several ready tasks with different slices happens while a fourth is
  parked; slices of 4 are halved twice by nested clones down to 1 and 0, the edge
  cases of `fork.c:118`; 7 pages let every clone fail both for want of a slot
  and for want of a page.
* `trapframe_safe`: `FramesBounded` shows that without a hit at most 4 frames
  are in use, so 6 leave room for the bound to be broken. After a hit the stack
  can be eaten up frame by frame; those runs need only one hit.
* `timer`: the ratio of the two periods is that of `HZ = 100` and `VS_HZ = 50`;
  3 units per tick are enough for a delay of each step of the handler to carry
  the deadline past, and the proofs hold for any length.
* `guest_safe`: the free pages lie in the image's region and in two more, the
  UART, the CLINT and `VS_MEM` in three regions of another gigabyte, so tables
  are missing at both levels in both stages; every number of pages already taken
  is an initial state, so memory runs out at every point of the way through.
* `list_safe`: `main()` starts two adders and one deleter; four nodes let the
  deleter cut a node off while both adders stand at different nodes.
* `console`: a fault's message is longer than the guest's and the handler's is
  shorter, so that either can end inside the other; two characters show both
  ends of a message, three bytes fill a FIFO of two and overflow it; one
  interrupt reads one byte at any depth.
* `routines`: 10 character codes are fewer than the pairs of the symbols, so
  codes run out, tokens contain tokens, pairs overlap (`bbbb`), and every choice
  of four out of eight symbols has aliases, weak ones, a symbol at `_etext` and
  lookups between, before and behind symbols. Pages of 2 units and tables of 4
  entries put every kind of boundary (page, table, directory entry) within a
  range of 17 units; calls meet, overlap and lie in the directory entry of the
  sections, and the guest's also in the sections, with as many free pages as all
  of the calls together need tables. PMP words have 6 bits, with sizes around the powers of two
  and the register numbers 0, 1 and 7 to 9. `memset` starts at every residue of
  16 with counts from 0 past two blocks. Numbers have 8, 6 and 4 bits for long,
  int and short, with values at each boundary. The stack has 8 words.

### Fairness

* `Sched`: `WF(Tick)` because each timer interrupt arms the next (`Timer`,
  `TicksForever`), in user mode and wherever the kernel has interrupts enabled;
  `WF(Proceed)` because the hart goes on executing kernel code;
  `WF(BootIrqEnable)` because `kernel_main` forks a fixed number of tasks. There
  is no fairness on what user code or a kernel thread does.
* `Timer`: time passes, the firmware's interrupt is taken, the kernel's handler
  goes on: `WF`. `SF(Guest)` because the guest is stopped at every tick and
  comes back to run after it (`Sched`, `NoStarvation`), for longer than a step.
* `GuestPaging`: `WF(Next)`, the hart executes.
* `Console`: `WF` of the hart's own steps, of taking an interrupt that is pending
  and enabled, of the tick that preempts the init task, and of the devices:
  characters leave, the character time-out expires, the gateway forwards. Nobody
  has to type.

### Findings

Each is the shortest behaviour TLC finds against a line the source states.

| Property | The source says | What happens |
|---|---|---|
| `ScratchInUser` | `entry.S:190`, `sscratch` is set for the next trap from user mode | a trap after `entry.S:199` and before the `sret` looks like one from user mode, is given the frame that is being restored, and `sscratch` is 0 afterwards; a tick a little earlier sets `need_resched` unseen (`LateByOneTrap` bounds that harm) or moves `kernel_sp` down |
| `SretGoesToVs` | `vs_main.c:27`, the sret goes to VS mode | an interrupt between `vs_main.c:25` and `vs_entry.S:151` clears `SPP` and `SPV` by its own sret |
| `ListHasElement` | line 55 of the list, what to do when the list is empty | `next` was read before the `cmpxchg` and is `NULL` when another adder has just put the first element in |
| `OffsetOfIndex` | `src/kallsyms.c:39`, `get_symbol_offset` finds the entry of an index | the tool writes markers of 8 bytes, the kernel reads words of 4: right up to 256 symbols only |
| `OnlyLastDeleted` | lines 96-97, the last element is released | the node tested to be last gets a successor before the `cmpxchg` on its predecessor, and the successor is lost with it |

## 4. Proofs

The theorems hold for every value of the constants that satisfies what the
module assumes. TLC evaluates each `ASSUME` on the instances above.

| Module | Assumed of the constants |
|---|---|
| `Sched` | at least two task slots, at least one page, a positive slice, any priority |
| `Timer` | two positive periods |
| `TrapFrame` | room for more than one frame; for `OutsideStaysIntact` for more than three |
| `GuestPaging` | `LayoutAssumption`: tables of at least one entry; image, free memory, UART, CLINT and `VS_MEM` lie as `linker.ld` and `vs_mmu.c` have them |
| `LockFreeList` | no thread is adder and deleter at once |
| `Console` | no message is empty; the trigger level is within the FIFO |
| `Kallsyms` | `MapsAssumption`: `nm` prints addresses of the address space and names of non-zero characters, and both maps have the three labels of `linker.ld`; `LabelsAssumption`: the text does not begin at address 0, its labels are not on the tool's list of names to leave out; `RelinkAssumption`: but for names on that list both maps have the same lines in the same order, a label of the text is on one line, and only what is not below `_etext` moves, never below it; `SizeAssumption` |
| `Routines` | `FillsAssumption`: counts and addresses of `memset` are natural numbers; `StackAssumption`: the text ends below the stacks, frames have room for their two words and keep to two words; `RequestsAssumption`: registers have more than two bits, starts are addresses; `FieldsAssumption`: an argument fits in a long, an int and a short in a long, strings have no blanks (or a field could not be told from its padding); `TablesAssumption`: the tables and the pages of `get_free_page` lie in the DDR, each page is given once, and there are as many as the calls need tables, because `early_pgtable_alloc` enters what `get_free_page` returns without a test; the sections of `boot.S` lie under one directory entry, of which `boot.S` has one; a call maps at least one unit of the address space, with a right to read, write or execute, and never the sections themselves again |

`OutsideStaysIntact` alone needs room for four frames, because a smaller kernel
stack does overflow: a page (`THREAD_SIZE`) holds 13 frames of 296 bytes.

In each module the properties are not inductive as they stand, and the proofs
are about an inductive invariant `IInv` (`TimerInv` in `Timer`). Each has one
lemma, or one step, per action.

### SchedProofs

`Invariant`: `Spec => []IInv`. `TypeOK` and the properties need it: that `__schedule` finds a count of 1 depends on
where the task stands. `IInv` has two parts that change for different reasons.

* `QueueInv`: the queue holds exactly the forked tasks, once each. Only
  `ForkQueue` disturbs it (`ForkQueueKeeps`).
* `TaskInv`: `preempt_count[p]` is 1 exactly when `p` stands in `schedule()` or
  in `preempt_schedule_irq`, and is 0 elsewhere; a task that is not running has
  never run or stands behind `cpu_switch_to`, without a flag; the init task is
  the only one that boots, and once it has, there is a task to switch to.

The steps share three code paths, each with a lemma of its own:
`ScheduleKeeps`, `RetToUserKeeps`, `NeedReschedKeeps`; `NextKeeps` has one step
per action. `FirstBestIsBest` says what the scan of the queue chooses, by the
least element of a set of indices, and `RefillIsFair` that the chosen task has
a positive slice.

| Theorem | Says |
|---|---|
| `TypeCorrect` | `TypeOK`, with `preempt_count` never above 1 |
| `RunQueueCorrect` | `RunQueueOK` |
| `NeverABug` | neither "BUG:" message is ever printed |
| `ParkedCorrect` | `ParkedOK` |
| `KernelHonoursFlagAlways` | `KernelHonoursFlag` |
| `Implementation` | `Sched` implements `TimeSlicing` (`StepImplements`, step by step) |
| `FlagWaitsForOneTrap` | `LateByOneTrap`: every trap from user mode ends in `schedule()` or `panic()` when the flag is set |
| `RefillOnlyWhenSpent` | `RefillWhenSpent` |

### TimerProofs

`TimerInv` adds to `OneLink` and `OneVirtualLink` how both chains begin, and
`Paced`: where the next tick has been fixed, the time since the last one and
the time left add up to a period at least. That sum is what makes `NoEarlyTick`
provable, whatever the delays. Theorems: `TimerInvariant`, `TypeCorrect`,
`NoTickLost`, `NoVirtualTickLost`, `TicksArePaced`, `HostImplements`,
`VcpuImplements`.

### TrapFrameProofs

Until a trap hits a way out, the kernel stack has one of six shapes: `OnBottom`,
`LeavingKernel`, `EnteringGuest`, `OnInterrupt`, `OnSecondInterrupt`, or `Lost`
when it has run out of room. Each shape fixes the frames, `pc`, `kernel_sp`,
`sscratch` and the preemption count together; only that tells why an interrupt
finds a place to save to and why it returns to where it came from. `IInv` says
nothing once `hit` holds: what happens then is what the three violated runs show.
From it: `OutsideStaysIntact` (`IntactUnlessHit`), `ScratchTells`
(`ScratchTellsMode`), `NestingBounded` (`FramesBounded`), `ChainUnbroken`
(`FramesChained`), and `TypedUnlessHit`.

### GuestPagingProofs

The places that can hold a page (`gpa_addr`, the page just taken, the entries of
both stages) are the domain of one function, `Held`. `PagesOK` says of it and
`mem_map` that no page is in two places, that the marked pages are those in a
place, and that memory is full once a page behind the DDR has been handed out.
`Give` and `Move` are the two things that can happen to it. What makes the
guest's unlocked `get_free_page` safe is `Stage2OK`: from the first step on the
tables above `mem_map` exist, so the fault that its store to `mem_map` may cause
allocates nothing between the test and the mark (`FaultAccess`). `AllocOK`,
`Stage1OK` and `WordOK` tie the place of the guest to its tables and to the word
at `VS_MEM`. Theorems: `NoPageTwice` (`PagesExclusive`), `NoPageLost`
(`PagesAccounted`), `PanicMeansFull` (`PanicsOnlyWithoutPages`), `MarkIsRead`
(`GuestReadsTheMark`), `Typing`.

### LockFreeListProofs

A node is fresh, in the hands of one `add_node`, or linked. `HandsOK` says that
nothing points to a node in hand and that nobody else has it, so a `cmpxchg`
that succeeds links a node without a predecessor; `LinksOK` that no link leads
to a node that has been cut off. `AtMostOnePredecessor`, `DeletedNodesStayOut`
(what is reached from the head is what links lead to, `ReachWithin`),
`LinksStayUntilCut`, `Typing`.

### ConsoleProofs

The stack of activations is at most three deep, and its shape says who prints:
`StackOK` orders who can interrupt whom and remembers in `hits` the handlers
that have printed above an activation. `BufferOK` then says, for every character
that an activation has stored in `print_buf`, that it is still its own or that
of such a handler. `RoomOK` counts what is in the transmitter between the test
of the line status register and the write. `RoomIsFound`
(`TransmitterHasRoom`) and `OnlyHandlersMix` (`MixedOnlyByHandlers`) follow from
these.

`LogComesFirst` (`EarlyLogWhole`) also needs `LogOK`, what is in the log while
there is no console, and `EarlyOK`: while the log is replayed, the line, the
transmitter and what is still to be written are exactly the part of the log that
has been taken out, after the character the firmware may have left.

### KallsymsProofs

`KallsymsInvariant` (`KallsymsIInv`) is about the tool between two tokens:
`Compressing` says that there is a meaning, a sequence of characters for each
code, by which every compressed symbol spells what it was before, and which is
made of the meanings of codes that were given out earlier (`Grounded`). Replacing
a pair of codes by a new one keeps it (`Meaning`); pairs that cost profit consist
of codes in use, so a code is never given out twice (`Used`, `Paying`). What a
sequence spells is a function that exists and is unique (`SpellsExists`), by the
least length at which it would not. `NamesSurviveCompression` (`NamesSurvive`)
follows.

`LookupFindsSymbols` (`LookupRight`) adds `LookupIInv`. Its parts: the list that
the tool writes has every symbol it should, once, and in ascending order
(`InOrder`); what `write_src` writes for a sequence stands in the table from its
offset on, and the kernel, adding up lengths from the marker before, arrives at
that offset; a string of the token table ends at the first zero; the search keeps
`addr` between the addresses at its two ends (`Searching`). The theorem assumes
`OneMarker`, a table of at most `MarkerEvery` (256) symbols: beyond that it is
false, and `kallsyms_markers` shows how.

`PassesListTheSame` (`PassesAgree`): the lines of the two maps that are not on the
tool's list correspond one to one by their places (`PlacesAre`, `LinesLast`); a line
that moves was not listed before and is not afterwards, because it was not below
`_etext` (`ValidLasts`); and two sets of entries that correspond in their keys and
in the order of their lines sort to lists that correspond (`SameSorted`).

### RoutinesProofs

The theorems are about `Routines`; steps of another routine leave the state of
each alone.

* `FillsWhatIsAsked` (`FilledExactly`): the head ends at a multiple of 16 or at
  the end (`Aligned`), the block loop runs once per block (`Blocks`), writing two
  ranges that meet is writing one (`Joined`). The model counts in natural
  numbers, which is the code as long as a count is below 2^31.
* `RegionsAreAsRequested` (`AccessAsRequested`): powers of two are positive, grow
  and divide each other; the number of trailing ones of a register is unique; so
  an entry matches exactly the block that its request asks for, and the first
  entry that matches is the first whose request does.
* `EveryTrapIsServed` (`TrapsFindHandlers`): `FirmwareGives` and `KernelGives` say
  what is delegated from the moment a level has its vector, and that the one does
  not come without the other; `StartOK` that programs run and interrupts come
  only after their level is ready. Then by cause: `InterruptFound`,
  `ExceptionFound`.
* `TraceShowsTheCalls` (`TraceIsTheCallChain`): as long as nothing else writes to
  the stack, each frame holds the place of the call and the frame pointer of its
  caller, down to the first one, whose frame pointer is below the stack. A round
  of the walk climbs at least two words, whatever it finds, so it ends.
* `FieldsReadBack` (`FieldReadsBack`): the digits that `number` produces are
  digits of the base and read back as the number, whatever its size, because a
  sequence of digits has one reading; the layout is blanks, a field without
  blanks, and blanks, and reading finds the field between them; a word is a
  negative number exactly when it is in the upper half of its range, also after
  it has been cut to an int or a short and extended to a long.
* `TablesAreAsAsked` (`TablesShowMappings`): three arguments.
  - The walk of a range. `AddrEnd` cuts a range into pieces that meet and stay
    each under one entry (`SliceIs`, `Scaled`), so the pointers that the loops
    count up stay in one table.
  - The invariant `TablesIInv`. Memory is a tree (`Tree`): an entry is empty, is a
    leaf, or leads to a table that no other entry leads to, and a section stands
    only where `boot.S` put one, in the kernel's tables. The leaf on the way of
    every address (`Hit`) is the one that the last call that covers it asks for.
    The tables from the allocator are as many as entries that lead to one, and
    each of these is on the way of some call (`Counted`), so the allocator does
    not run out. One round of each of the three loops keeps this and changes
    the leaves of its own piece only (`PtesBecome`, `PmdBecomes`, `PgdBecomes`;
    `BecameJoin` puts rounds together).
  - The dump. What a level prints for its pieces is in order and within the
    piece; put together, the lines hold an address exactly when it is mapped
    (`ShowsJoin`, `PteShown`, `PmdShown`, `PgdShown`).

### Only model-checked

* Liveness under fairness is out of reach of the prover: `NoStarvation`,
  `TicksForever`, `GuestTicks`, `GuestFinishes`, `BytesAreRead`.

Every safety and action property of a passing run is proved (`LookupRight` for a
table of at most 256 symbols, see above).

The library's induction theorems take an operator as a parameter, which no
installed prover can instantiate. Where a proof needs an induction, over the length
of a sequence, the rounds of a loop or the size of a number, it takes the least
case that fails (`LeastNat`) and looks at the one before.

`RefillWhenSpent` of `Sched` and the `TypeOK` of `Timer`, `TrapFrame`,
`GuestPaging` and `LockFreeList` are proved and not model-checked in a run of
their own.

## 5. Assumed and left out

Assumed (marked external in `PROJECT.json` where a definition stands for it):
the passing of time, the `sret` of the hart, the check of the second stage by
the hart, sequentially consistent memory for the list. The registers and stack
of other tasks are not in `TrapFrame`: it takes from `Sched` that they come back
to this task with preemption off.

Assumed besides these: the UART and PLIC hardware of `Console` (a FIFO with a
trigger level and a character time-out, a gateway that forwards one request
until it is completed), the matching of PMP entries and the delegation by the
hart, and the calling convention in `StackTrace`.

Not modelled:

| Part | Why |
|---|---|
| Other atomics of `src/others/atomic` | one atomic instruction each; a model of it would assume what it should show |
| Litmus tests | they ask about RVWMO, whose axioms are not code of this repository |
| The register frame of the guest's and the firmware's own vectors | `vs_entry.S` and `sbi_entry.S` save and restore as `entry.S` does, with interrupts off throughout |
| `plic_init`, `sbi_main` apart from PMP and delegation, `sbi_boot.S`, `early_printk.S` | registers set once, in one order |
| The system-call table | an array indexed by the number the programs in `usr/` pass |
| Parsing of flags and widths in `myprintf` | `PrintFormat` starts from the parsed directive; `size`, which bounds the output, is never read by the code, and no message of the tree is as long as the buffer |
| `string.c`, `memset.S`, `create_identical_mapping` | two plain loops; not called |
| Instruction, vector and C exercises of `src/others` | one instruction or one expression each, no state |

## 6. Plan

The model is complete but for the table in section 5, and every property of a
passing run is proved but the five of liveness. What a change of the code should
look at first: a new caller of `__create_pgd_mapping` has to keep
`TablesAssumption` (a kernel mapping within the sections would write through a
leaf as if it led to a table), a new path out of the kernel belongs in
`TrapFrame` and `Sched`, a new caller of `printk` in `Console`.
