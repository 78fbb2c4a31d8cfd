----------------------------- MODULE TrapFrame -----------------------------
(***************************************************************************)
(* One task on its way into and out of the kernel: kernel_entry and        *)
(* kernel_exit of src/entry.S, the return paths between them, and the way  *)
(* into the guest in virt/vs_main.c and virt/vs_entry.S, instruction by    *)
(* instruction wherever the hart can be interrupted and it matters.        *)
(*                                                                         *)
(* Stack pointers count the pt_regs frames below the top of the kernel     *)
(* stack: 0 is the top, 1 is where task_pt_regs looks.  The C frames in    *)
(* between are left out, and so is what do_exception does (SIE is clear    *)
(* from the trap to its return).  Other tasks run while this one is in     *)
(* schedule() or preempt_schedule_irq(): they leave sscratch 0, and CSRs   *)
(* that kernel_exit writes before it uses them.                            *)
(***************************************************************************)
EXTENDS Integers

CONSTANT MaxDepth       \* frames that fit on a kernel stack above the task_struct

ASSUME TrapFrameAssumption == MaxDepth \in Nat /\ MaxDepth > 1

VARIABLES
    mode,       \* "S", "U", or "VS" for the guest
    pc,         \* what is executed next, see Labels
    sie,        \* sstatus.SIE
    spp,        \* sstatus.SPP
    spv,        \* hstatus.SPV
    sepc,
    sscratch,   \* TRUE: points to the task; FALSE: 0
    kernel_sp,  \* task_struct.kernel_sp
    sp,
    regs,       \* whose values the general registers hold
    a,          \* a0, a2 and a3 once kernel_exit has loaded them
    frame,      \* the frames of the kernel stack
    preempt_count,
    hit         \* history: a trap came where the code is not ready for one

csrs == <<sie, spp, spv, sepc, sscratch>>
vars == <<mode, pc, csrs, kernel_sp, sp, regs, a, frame, preempt_count, hit>>

\* Steps of kernel_exit and of jump_to_vs_mode, by what is still to be done.
ExitLabels == {"set_sscratch", "restore_all", "write_sstatus", "write_sepc", "load_gprs"}
VsLabels == {"vs_spv", "vs_main", "vs_sscratch", "vs_sepc", "vs_sret"}
Labels == ExitLabels \cup VsLabels \cup
          {"user", "guest", "kthread", "ret_from_exception", "schedule",
           "preempt_schedule_irq", "no_work_pending", "halt"}

Own == -1                               \* sp in the user's or the guest's stack
Sps == {Own} \cup 0 .. MaxDepth
Owners == {"own", "kernel"}
NoExit == [sepc |-> "halt", spp |-> TRUE, sie |-> FALSE, spv |-> FALSE]

\* pt_regs: the CSRs, PT_SP, and the general registers with a0, a2 and a3.
Frame(s, epc, p, i, v, r, exit) ==
    [sepc |-> epc, spp |-> p, sie |-> i, spv |-> v, sp |-> s, regs |-> r, a |-> exit]

\* What memset leaves in the pt_regs of a new kernel thread, with SPP set.
NoFrame == Frame(0, "halt", TRUE, FALSE, FALSE, "kernel", NoExit)

\* A forked child starts with a copy of its parent's frame.
UserFrame == Frame(Own, "user", FALSE, FALSE, FALSE, "own", NoExit)

-----------------------------------------------------------------------------
(* Entry. *)

\* Mutant: line 148 is missing.
ClearScratch_Not(fromUser) == sscratch' = fromUser

\* csrw sscratch, x0: a trap from here on comes from the kernel.
ClearScratch(fromUser) == sscratch' = FALSE

\* Mutant: line 23 is missing.
StackAtEntry_Old == kernel_sp

\* Where kernel_entry puts the frame: below kernel_sp, into which a trap from the
\* kernel has just saved sp.
StackAtEntry == IF sscratch THEN kernel_sp ELSE sp

\* The trap, kernel_entry and do_exception, up to ret_from_exception.  sscratch
\* tells where the trap comes from; if it is 0 while tp is not the kernel's, the
\* stack pointer is saved through a foreign tp; past MaxDepth the frames run into
\* the task_struct.  Either way the hart is lost.
Trap ==
    LET ksp == StackAtEntry
    IN  /\ pc # "halt"
        /\ mode # "S" \/ sie
        /\ hit' = (hit \/ (mode = "S" /\ pc \in ExitLabels \cup VsLabels))
        /\ spp' = (mode # "U")
        /\ spv' = (mode = "VS")
        /\ sepc' = pc
        /\ sie' = FALSE
        /\ mode' = "S"
        /\ regs' = "kernel"
        /\ a' = NoExit
        /\ IF ksp \in {Own, MaxDepth}
           THEN /\ pc' = "halt"
                /\ UNCHANGED <<sscratch, kernel_sp, sp, frame>>
           ELSE /\ pc' = "ret_from_exception"
                /\ kernel_sp' = ksp
                /\ sp' = ksp + 1
                /\ frame' = [frame EXCEPT ![ksp + 1] =
                                 Frame(sp, pc, spp', sie', spv', regs, a)]
                /\ ClearScratch(sscratch)
        /\ UNCHANGED preempt_count

-----------------------------------------------------------------------------
(* Return. *)

\* Mutant: preempt_count is not tested before need_resched.
MayPreempt_Always == TRUE

MayPreempt == preempt_count = 0

\* need_resched: either the flag is set and preempt_schedule_irq is called, which
\* enables interrupts, or the frame is restored.
NeedResched ==
    \/ pc' = "preempt_schedule_irq" /\ sie' = TRUE /\ preempt_count' = 1
    \/ pc' = "restore_all" /\ sie' = FALSE /\ preempt_count' = 0

\* ret_from_exception clears SIE and goes by the frame, not by the CSRs: SPV or
\* no SPP is ret_to_user, where the flag may lead through schedule().
RetFromException ==
    /\ pc = "ret_from_exception"
    /\ \/ /\ frame[sp].spv \/ ~frame[sp].spp
          /\ \/ pc' = "no_work_pending" /\ sie' = FALSE /\ UNCHANGED preempt_count
             \/ pc' = "schedule" /\ sie' = TRUE /\ preempt_count' = preempt_count + 1
       \/ /\ ~frame[sp].spv /\ frame[sp].spp
          /\ \/ MayPreempt /\ NeedResched
             \/ ~MayPreempt /\ pc' = "restore_all" /\ sie' = FALSE /\ UNCHANGED preempt_count
    /\ UNCHANGED <<mode, spp, spv, sepc, sscratch, kernel_sp, sp, regs, a, frame, hit>>

\* The end of preempt_schedule_irq, and the jump back to need_resched.
PreemptDone ==
    /\ pc = "preempt_schedule_irq"
    /\ NeedResched
    /\ UNCHANGED <<mode, spp, spv, sepc, sscratch, kernel_sp, sp, regs, a, frame, hit>>

\* schedule() returns to work_resched with interrupts enabled.
ScheduleDone ==
    /\ pc = "schedule"
    /\ preempt_count' = preempt_count - 1
    /\ pc' = "no_work_pending"
    /\ UNCHANGED <<mode, csrs, kernel_sp, sp, regs, a, frame, hit>>

\* A step of kernel_exit or of jump_to_vs_mode that writes one register.
Goto(from, to) ==
    /\ pc = from
    /\ pc' = to
    /\ UNCHANGED <<mode, regs, sp, frame, preempt_count, hit>>

\* Mutant: the frame is not given back.
NoWorkPending_KeepsFrame ==
    /\ Goto("no_work_pending", "set_sscratch")
    /\ kernel_sp' = sp
    /\ UNCHANGED <<csrs, a>>

\* kernel_sp = sp + PT_SIZE: the next trap from user mode reuses this frame.
NoWorkPending ==
    /\ Goto("no_work_pending", "set_sscratch")
    /\ kernel_sp' = sp - 1
    /\ UNCHANGED <<csrs, a>>

SetScratch ==
    /\ Goto("set_sscratch", "restore_all")
    /\ sscratch' = TRUE
    /\ UNCHANGED <<sie, spp, spv, sepc, kernel_sp, a>>

\* The loads of a0, a2 and a3.
RestoreAll ==
    /\ Goto("restore_all", "write_sstatus")
    /\ a' = [sepc |-> frame[sp].sepc, spp |-> frame[sp].spp,
             sie |-> frame[sp].sie, spv |-> frame[sp].spv]
    /\ UNCHANGED <<csrs, kernel_sp>>

WriteSstatus ==
    /\ Goto("write_sstatus", "write_sepc")
    /\ spp' = a.spp
    /\ sie' = a.sie
    /\ UNCHANGED <<spv, sepc, sscratch, kernel_sp, a>>

\* sepc and hstatus.
WriteSepc ==
    /\ Goto("write_sepc", "load_gprs")
    /\ sepc' = a.sepc
    /\ spv' = a.spv
    /\ UNCHANGED <<sie, spp, sscratch, kernel_sp, a>>

\* sret: the mode is the one SPV and SPP name, and both are cleared.  An
\* interrupt is taken in S mode only with SIE set, so SPIE sets it again.  The
\* kernel's and the guest's code cannot be executed in U mode.
Sret ==
    /\ mode' = IF spv THEN "VS" ELSE IF spp THEN "S" ELSE "U"
    /\ pc' = IF mode' = "U" /\ sepc # "user" THEN "halt" ELSE sepc
    /\ spp' = FALSE
    /\ spv' = FALSE
    /\ sie' = TRUE

\* The loads of the other registers, sp last, and the sret.
LoadGprs ==
    /\ pc = "load_gprs"
    /\ regs' = frame[sp].regs
    /\ a' = frame[sp].a
    /\ sp' = frame[sp].sp
    /\ Sret
    /\ UNCHANGED <<sepc, sscratch, kernel_sp, frame, preempt_count, hit>>

-----------------------------------------------------------------------------
(* A kernel thread moves to user mode, or to the guest. *)

task_pt_regs == 1

\* start_user_thread writes the frame and keeps the live SIE, which is set; fn
\* then returns to ret_from_exception.
MoveToUserSpace ==
    /\ pc = "kthread"
    /\ pc' = "ret_from_exception"
    /\ frame' = [frame EXCEPT ![task_pt_regs] =
                     Frame(Own, "user", FALSE, sie, FALSE, "own", NoExit)]
    /\ UNCHANGED <<mode, csrs, kernel_sp, sp, regs, a, preempt_count, hit>>

\* vs_main sets SPP, then SPV; its prints and allocations follow.
VsSpp ==
    /\ Goto("kthread", "vs_spv")
    /\ spp' = TRUE
    /\ UNCHANGED <<sie, spv, sepc, sscratch, kernel_sp, a>>

VsSpv ==
    /\ Goto("vs_spv", "vs_main")
    /\ spv' = TRUE
    /\ UNCHANGED <<sie, spp, sepc, sscratch, kernel_sp, a>>

\* jump_to_vs_mode.
VsKernelSp ==
    /\ Goto("vs_main", "vs_sscratch")
    /\ kernel_sp' = sp
    /\ UNCHANGED <<csrs, a>>

VsScratch ==
    /\ Goto("vs_sscratch", "vs_sepc")
    /\ sscratch' = TRUE
    /\ UNCHANGED <<sie, spp, spv, sepc, kernel_sp, a>>

VsSepc ==
    /\ Goto("vs_sepc", "vs_sret")
    /\ sepc' = "guest"
    /\ UNCHANGED <<sie, spp, spv, sscratch, kernel_sp, a>>

\* The guest goes on with the registers of the thread and a stack of its own.
VsSret ==
    /\ pc = "vs_sret"
    /\ Sret
    /\ regs' = "own"
    /\ sp' = Own
    /\ UNCHANGED <<sepc, sscratch, kernel_sp, a, frame, preempt_count, hit>>

\* panic(), or a hart that is lost.
Spin == pc = "halt" /\ UNCHANGED vars

-----------------------------------------------------------------------------
\* The first run of a task: fn of a kernel thread, or a forked child.  Interrupts
\* have been enabled by schedule_tail.
Init ==
    /\ mode = "S"
    /\ sie = TRUE
    /\ spp = FALSE /\ spv = FALSE
    /\ sepc = "halt"
    /\ sscratch = FALSE
    /\ kernel_sp = 0
    /\ sp = 1
    /\ regs = "kernel"
    /\ a = NoExit
    /\ \/ pc = "kthread" /\ frame = [i \in 1 .. MaxDepth |-> NoFrame]
       \/ /\ pc = "ret_from_exception"
          /\ frame = [i \in 1 .. MaxDepth |-> IF i = 1 THEN UserFrame ELSE NoFrame]
    /\ preempt_count = 0
    /\ hit = FALSE

Exit == NoWorkPending \/ SetScratch \/ RestoreAll \/ WriteSstatus \/ WriteSepc \/ LoadGprs
EnterVs == VsSpp \/ VsSpv \/ VsKernelSp \/ VsScratch \/ VsSepc \/ VsSret

Next ==
    \/ Trap
    \/ RetFromException \/ PreemptDone \/ ScheduleDone \/ Exit
    \/ MoveToUserSpace \/ EnterVs
    \/ Spin

Spec == Init /\ [][Next]_vars
-----------------------------------------------------------------------------
(* Properties. *)

TypeOK ==
    /\ mode \in {"S", "U", "VS"}
    /\ pc \in Labels /\ sepc \in Labels
    /\ {sie, spp, spv, sscratch, hit} \subseteq BOOLEAN
    /\ kernel_sp \in 0 .. MaxDepth
    /\ sp \in Sps
    /\ regs \in Owners
    /\ a \in [sepc : Labels, spp : BOOLEAN, sie : BOOLEAN, spv : BOOLEAN]
    /\ DOMAIN frame = 1 .. MaxDepth
    /\ \A i \in 1 .. MaxDepth : frame[i].sp \in Sps /\ frame[i].sepc \in Labels
    /\ preempt_count \in 0 .. 1

\* Whoever runs outside the kernel runs at its own pc, with its own registers and
\* stack, and the next trap will find the task through sscratch and its kernel
\* stack where it was left: empty for a user thread, below the pt_regs of vs_main
\* for the guest.
OutsideIntact ==
    mode # "S" =>
        /\ pc = IF mode = "U" THEN "user" ELSE "guest"
        /\ regs = "own" /\ sp = Own
        /\ sscratch
        /\ kernel_sp = IF mode = "U" THEN 0 ELSE 1

\* It stays so as long as no trap arrives where the code is not ready for it.
IntactUnlessHit == ~hit => pc # "halt" /\ OutsideIntact

\* entry.S:7-8, "sscratch is 0 for a trap from the kernel": as long as nothing
\* was hit, interrupts are never enabled in the kernel with sscratch set, but in
\* the last steps of the two ways out.
ScratchTellsMode ==
    (~hit /\ mode = "S" /\ sscratch) => pc \in ExitLabels \cup VsLabels

\* Nested traps never pile up: at most the frame of the trap, the one of an
\* interrupt after schedule(), and one in the preemption this one leads to.
FramesBounded ==
    ~hit /\ mode = "S" => sp <= IF frame[2].spv THEN 4 ELSE 3

\* A frame that is still needed is never written again: every frame of the kernel
\* stack leads to the one above it, and the topmost out of the kernel.
FramesChained ==
    ~hit /\ mode = "S" =>
        \A i \in 1 .. sp :
            \/ frame[i].sp = i - 1
            \/ frame[i].sp = Own /\ i = IF frame[i].spv THEN 2 ELSE 1

\* entry.S:190-191, "save the task_struct pointer in sscratch, so that the next
\* trap from user mode finds it".
ScratchInUser == pc \in {"user", "guest"} => sscratch

\* vs_main.c:27, "set hstatus.SPV: the sret then goes to VS mode".
SretGoesToVs == pc = "vs_sret" => spp /\ spv
=============================================================================
