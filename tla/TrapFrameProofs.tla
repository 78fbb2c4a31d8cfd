-------------------------- MODULE TrapFrameProofs --------------------------
(***************************************************************************)
(* Theorems about TrapFrame for every size of the kernel stack.            *)
(***************************************************************************)
EXTENDS TrapFrame, TLAPS

-----------------------------------------------------------------------------
(* The inductive invariant.                                                 *)
(*                                                                          *)
(* Until a trap has come where the code is not ready for one, the kernel    *)
(* stack has one of a few shapes.  At its bottom is a context that did not  *)
(* interrupt the kernel: a kernel thread above its unused pt_regs, or the   *)
(* trap of a user thread or of the guest.  On it may be the frame of one    *)
(* interrupt, and on that one, if it found the bottom preemptible and is in *)
(* preempt_schedule_irq, the frame of another.  That no third one comes is  *)
(* due to preempt_count and to SIE, so both are part of each shape.         *)

WaysOut == {"ret_from_exception", "schedule", "no_work_pending"}
Restoring == ExitLabels \ {"set_sscratch"}
Exits == [sepc : Labels, spp : BOOLEAN, sie : BOOLEAN, spv : BOOLEAN]

\* Level i is the bottom, and it may be interrupted at label.
Bottom(i, label) ==
    \/ /\ i = 1 /\ frame[1].sp = 0 /\ ~frame[1].spv
       /\ label = "kthread"
    \/ /\ i = 1 /\ frame[1].sp = Own /\ frame[1].sepc = "user"
       /\ ~frame[1].spp /\ ~frame[1].spv /\ frame[1].regs = "own"
       /\ label \in WaysOut
    \/ /\ i = 2 /\ frame[1].sp = 0 /\ ~frame[1].spv
       /\ frame[2].sp = Own /\ frame[2].sepc = "guest"
       /\ frame[2].spp /\ frame[2].spv /\ frame[2].regs = "own"
       /\ label \in WaysOut

\* Level i is an interrupt of level i - 1.
Nested(i) ==
    /\ frame[i].sp = i - 1
    /\ frame[i].spp /\ ~frame[i].spv /\ ~frame[i].sie /\ frame[i].regs = "kernel"

\* What the steps of kernel_exit have moved from the frame to the registers.
Loaded ==
    /\ pc \in {"write_sstatus", "write_sepc", "load_gprs"} =>
           a = [sepc |-> frame[sp].sepc, spp |-> frame[sp].spp,
                sie |-> frame[sp].sie, spv |-> frame[sp].spv]
    /\ pc \in {"write_sepc", "load_gprs"} => spp = frame[sp].spp
    /\ pc = "load_gprs" => sepc = frame[sp].sepc /\ spv = frame[sp].spv

InUser ==
    /\ mode = "U" /\ pc = "user" /\ regs = "own" /\ sp = Own
    /\ sscratch /\ kernel_sp = 0 /\ preempt_count = 0

InGuest ==
    /\ mode = "VS" /\ pc = "guest" /\ regs = "own" /\ sp = Own
    /\ sscratch /\ kernel_sp = 1 /\ preempt_count = 0
    /\ frame[1].sp = 0 /\ ~frame[1].spv

OnBottom ==
    /\ sp \in {1, 2} /\ Bottom(sp, pc) /\ ~sscratch
    /\ preempt_count = IF pc = "schedule" THEN 1 ELSE 0

\* kernel_exit, back to the user or the guest.
LeavingKernel ==
    /\ pc \in ExitLabels /\ Loaded
    /\ sp \in {1, 2} /\ Bottom(sp, "no_work_pending") /\ kernel_sp = sp - 1
    /\ sscratch <=> pc # "set_sscratch"
    /\ preempt_count = 0

\* vs_main and jump_to_vs_mode.
EnteringGuest ==
    /\ pc \in VsLabels
    /\ sp = 1 /\ Bottom(1, "kthread")
    /\ pc # "vs_spv" => spv
    /\ pc \in {"vs_sscratch", "vs_sepc", "vs_sret"} => kernel_sp = 1
    /\ sscratch <=> pc \in {"vs_sepc", "vs_sret"}
    /\ pc = "vs_sret" => sepc = "guest"
    /\ preempt_count = 0

\* One interrupt on the bottom: being handled, or in preempt_schedule_irq.
OnInterrupt ==
    /\ sp \in {2, 3} /\ Nested(sp) /\ Bottom(sp - 1, frame[sp].sepc) /\ ~sscratch
    /\ \/ /\ pc \in {"ret_from_exception"} \cup Restoring /\ Loaded
          /\ pc = "ret_from_exception" => ~sie
          /\ preempt_count = IF frame[sp].sepc = "schedule" THEN 1 ELSE 0
       \/ /\ pc = "preempt_schedule_irq" /\ frame[sp].sepc # "schedule"
          /\ preempt_count = 1

\* A second interrupt, of the preempt_schedule_irq that the first one called.
OnSecondInterrupt ==
    /\ sp \in {3, 4} /\ Nested(sp) /\ frame[sp].sepc = "preempt_schedule_irq"
    /\ Nested(sp - 1) /\ Bottom(sp - 2, frame[sp - 1].sepc)
    /\ frame[sp - 1].sepc # "schedule"
    /\ pc \in {"ret_from_exception"} \cup Restoring /\ Loaded
    /\ pc = "ret_from_exception" => ~sie
    /\ ~sscratch /\ preempt_count = 1

\* The frames have run into the task_struct.
Lost ==
    /\ pc = "halt" /\ MaxDepth < 4 /\ ~sscratch /\ preempt_count \in 0 .. 1
    /\ \/ sp = 2 /\ \E label \in WaysOut : Bottom(2, label)
       \/ sp \in {2, 3} /\ Nested(sp) /\ Bottom(sp - 1, frame[sp].sepc)

InKernel ==
    /\ mode = "S" /\ regs = "kernel" /\ sp \in 1 .. MaxDepth
    /\ \/ OnBottom \/ LeavingKernel \/ EnteringGuest
       \/ OnInterrupt \/ OnSecondInterrupt \/ Lost

\* The types that the shapes leave open.
FrameOK(f) ==
    /\ f.sp \in Sps /\ f.sepc \in Labels /\ f.regs \in Owners /\ f.a \in Exits
    /\ {f.spp, f.sie, f.spv} \subseteq BOOLEAN

FieldsOK ==
    /\ {sie, spp, spv, sscratch} \subseteq BOOLEAN
    /\ sepc \in Labels
    /\ kernel_sp \in 0 .. MaxDepth
    /\ a \in Exits
    /\ DOMAIN frame = 1 .. MaxDepth
    /\ \A i \in 1 .. MaxDepth : FrameOK(frame[i])

IInv ==
    /\ hit \in BOOLEAN
    /\ ~hit => FieldsOK /\ (InUser \/ InGuest \/ InKernel)

-----------------------------------------------------------------------------
(* Each step preserves the invariant. *)

\* A frame has the types of what is saved in it.
LEMMA FrameTyped ==
    ASSUME NEW s \in Sps, NEW epc \in Labels, NEW p \in BOOLEAN, NEW i \in BOOLEAN,
           NEW v \in BOOLEAN, NEW r \in Owners, NEW exit \in Exits
    PROVE  FrameOK(Frame(s, epc, p, i, v, r, exit))
BY DEF FrameOK, Frame

LEMMA NoExitTyped == NoExit \in Exits
BY DEF NoExit, Exits, Labels

\* A kernel thread, or a forked child, starts at the bottom.
LEMMA InitInv == Init => IInv
<1> SUFFICES ASSUME Init PROVE IInv
  OBVIOUS
<1>1. FieldsOK
  <2>1. /\ {0, Own} \subseteq Sps /\ {"halt", "user"} \subseteq Labels
        /\ {"kernel", "own"} \subseteq Owners /\ 0 \in 0 .. MaxDepth
    BY TrapFrameAssumption DEF Sps, Labels, Owners
  <2>2. FrameOK(NoFrame) /\ FrameOK(UserFrame)
    BY <2>1, FrameTyped, NoExitTyped DEF NoFrame, UserFrame
  <2>3. DOMAIN frame = 1 .. MaxDepth /\ \A i \in 1 .. MaxDepth : FrameOK(frame[i])
    BY <2>2 DEF Init
  <2> QED
    BY <2>1, <2>3, NoExitTyped DEF Init, FieldsOK
<1>2. OnBottom
  BY TrapFrameAssumption
  DEF Init, OnBottom, Bottom, NoFrame, UserFrame, Frame, WaysOut, Own
<1>3. InKernel
  BY <1>2, TrapFrameAssumption DEF Init, InKernel
<1> QED
  BY <1>1, <1>3 DEF Init, IInv

\* In every shape pc, sp and regs are what a frame can hold, and the next frame
\* is one of the first five.
LEMMA ShapeTypes ==
    ASSUME FieldsOK, InUser \/ InGuest \/ InKernel
    PROVE  /\ pc \in Labels /\ sp \in Sps /\ regs \in Owners
           /\ preempt_count \in 0 .. 1
           /\ mode \in {"S", "U", "VS"}
<1> USE TrapFrameAssumption
    DEF Labels, ExitLabels, VsLabels, Sps, Owners, FieldsOK
<1>1. CASE InUser \/ InGuest
  BY <1>1 DEF InUser, InGuest
<1>2. CASE InKernel
  <2>1. CASE OnBottom
    BY <1>2, <2>1 DEF InKernel, OnBottom, Bottom, WaysOut
  <2>2. CASE LeavingKernel \/ EnteringGuest
    BY <1>2, <2>2 DEF InKernel, LeavingKernel, EnteringGuest
  <2>3. CASE OnInterrupt \/ OnSecondInterrupt \/ Lost
    BY <1>2, <2>3 DEF InKernel, OnInterrupt, OnSecondInterrupt, Lost, Restoring
  <2> QED
    BY <1>2, <2>1, <2>2, <2>3 DEF InKernel
<1> QED
  BY <1>1, <1>2

\* The trap, where the code is ready for one: it comes from outside the kernel,
\* from the bottom, or from preempt_schedule_irq, and gets the frame above.
LEMMA TrapInv ==
    ASSUME FieldsOK, InUser \/ InGuest \/ InKernel, ~hit, Trap, ~hit'
    PROVE  FieldsOK' /\ (InUser \/ InGuest \/ InKernel)'
<1> DEFINE ksp == StackAtEntry
<1>1. /\ pc \in Labels /\ sp \in Sps /\ regs \in Owners
      /\ preempt_count \in 0 .. 1 /\ mode \in {"S", "U", "VS"}
  BY ShapeTypes
<1>2. /\ mode = "S" => sie /\ pc \notin ExitLabels \cup VsLabels
      /\ pc # "halt"
  BY DEF Trap
<1>3. \/ InUser /\ ksp = 0
      \/ InGuest /\ ksp = 1
      \/ InKernel /\ OnBottom /\ ksp = sp
      \/ InKernel /\ OnInterrupt /\ pc = "preempt_schedule_irq" /\ ksp = sp
  <2>1. CASE InUser \/ InGuest
    BY <2>1 DEF InUser, InGuest, StackAtEntry
  <2>2. CASE InKernel
    <3>1. sie /\ pc \notin ExitLabels \cup VsLabels
      BY <1>2, <2>2 DEF InKernel
    <3>2. ~LeavingKernel /\ ~EnteringGuest /\ ~Lost
      BY <1>2, <3>1 DEF LeavingKernel, EnteringGuest, Lost
    <3>3. ~OnSecondInterrupt /\ (OnInterrupt => pc = "preempt_schedule_irq")
      BY <3>1 DEF OnInterrupt, OnSecondInterrupt, Restoring
    <3> QED
      BY <2>2, <3>2, <3>3 DEF InKernel, OnBottom, OnInterrupt, StackAtEntry
  <2> QED
    BY <2>1, <2>2
<1>4. ksp \in 0 .. MaxDepth /\ ksp # Own
  BY <1>3, TrapFrameAssumption DEF InKernel, Own
<1> HIDE DEF ksp
<1>5. CASE ksp = MaxDepth
  <2>1. UNCHANGED <<sscratch, kernel_sp, sp, frame, preempt_count>> /\ pc' = "halt"
    BY <1>5 DEF Trap, ksp
  <2>2. mode' = "S" /\ regs' = "kernel" /\ FieldsOK'
    BY <1>1, <2>1, NoExitTyped DEF Trap, FieldsOK
  <2>3. InKernel /\ ksp = sp /\ MaxDepth < 4
    BY <1>3, <1>5, TrapFrameAssumption DEF OnBottom, OnInterrupt
  <2>4. Lost'
    BY <1>1, <1>3, <1>5, <2>1, <2>3, TrapFrameAssumption
    DEF Lost, OnBottom, OnInterrupt, Bottom, Nested
  <2> QED
    BY <2>1, <2>2, <2>3, <2>4 DEF InKernel
<1>6. CASE ksp # MaxDepth
  <2>10. /\ spp' = IF mode = "U" THEN FALSE ELSE TRUE
         /\ spv' = IF mode = "VS" THEN TRUE ELSE FALSE
    BY Zenon DEF Trap
  <2> DEFINE new == Frame(sp, pc, spp', FALSE, spv', regs, a)
  <2>1. /\ pc' = "ret_from_exception" /\ kernel_sp' = ksp /\ sp' = ksp + 1
        /\ sscratch' = FALSE /\ UNCHANGED preempt_count
        /\ mode' = "S" /\ regs' = "kernel" /\ sie' = FALSE
    BY <1>4, <1>6 DEF Trap, ClearScratch, ksp
  <2>11. frame' = [frame EXCEPT ![ksp + 1] = new]
    BY <1>4, <1>6 DEF Trap, ksp
  <2>2. FrameOK(new)
    BY <1>1, <2>10, FrameTyped DEF FieldsOK
  <2>3. sp' \in 1 .. MaxDepth
    BY <1>4, <1>6, <2>1, TrapFrameAssumption
  <2>4. FieldsOK'
    <3> HIDE DEF new
    <3>1. \A i \in 1 .. MaxDepth : FrameOK(frame'[i])
      BY <1>4, <2>11, <2>2 DEF FieldsOK
    <3> QED
      BY <1>1, <1>4, <2>1, <2>10, <2>11, <3>1, NoExitTyped DEF Trap, FieldsOK
  <2>5. /\ frame'[sp'] = new
        /\ \A i \in 1 .. ksp : frame'[i] = frame[i]
    <3> HIDE DEF new
    <3> QED
      BY <1>4, <2>1, <2>3, <2>11 DEF FieldsOK
  <2>6. /\ frame'[sp'].sp = sp /\ frame'[sp'].sepc = pc /\ frame'[sp'].regs = regs
        /\ frame'[sp'].spp = spp' /\ frame'[sp'].sie = FALSE /\ frame'[sp'].spv = spv'
    BY <2>5 DEF Frame
  <2> HIDE DEF new
  <2>7. CASE InUser \/ InGuest
    <3>1. CASE InUser
      <4>1. sp' = 1 /\ mode = "U" /\ sp = Own /\ pc = "user" /\ regs = "own"
            /\ preempt_count' = 0
        BY <1>3, <2>1, <3>1 DEF InUser, InGuest, InKernel
      <4>2. OnBottom'
        BY <2>1, <2>6, <2>10, <4>1 DEF OnBottom, Bottom, WaysOut
      <4> QED
        BY <2>1, <2>3, <2>4, <4>2 DEF InKernel
    <3>2. CASE InGuest
      <4>1. sp' = 2 /\ mode = "VS" /\ sp = Own /\ pc = "guest" /\ regs = "own"
            /\ preempt_count' = 0 /\ frame'[1].sp = 0 /\ ~frame'[1].spv
        BY <1>3, <2>1, <2>5, <3>2 DEF InUser, InGuest, InKernel
      <4>2. OnBottom'
        BY <2>1, <2>6, <2>10, <4>1 DEF OnBottom, Bottom, WaysOut
      <4> QED
        BY <2>1, <2>3, <2>4, <4>2 DEF InKernel
    <3> QED
      BY <2>7, <3>1, <3>2
  <2>8. CASE InKernel /\ OnBottom /\ ksp = sp
    <3>1. sp' \in {2, 3} /\ sp' - 1 = sp /\ Nested(sp)' /\ frame'[sp'].sepc = pc
      BY <2>1, <2>6, <2>8, <2>10 DEF InKernel, OnBottom, Nested
    <3>2. Bottom(sp - 1, frame[sp].sepc)'
      BY <2>1, <2>5, <2>8, <3>1 DEF OnBottom, Bottom
    <3>3. OnInterrupt'
      BY <2>1, <2>8, <3>1, <3>2 DEF OnBottom, OnInterrupt, Loaded
    <3> QED
      BY <2>1, <2>3, <2>4, <3>3 DEF InKernel
  <2>9. CASE InKernel /\ OnInterrupt /\ pc = "preempt_schedule_irq" /\ ksp = sp
    <3>1. sp' \in {3, 4} /\ sp' - 1 = sp /\ Nested(sp)' /\ frame'[sp'].sepc = pc
      BY <2>1, <2>6, <2>9, <2>10 DEF InKernel, OnInterrupt, Nested
    <3>6. /\ Bottom(sp - 1, frame[sp].sepc) /\ sp \in {2, 3}
          /\ frame[sp].sepc # "schedule" /\ preempt_count = 1
      BY <2>9 DEF OnInterrupt, Restoring, ExitLabels
    <3>2. frame'[sp] = frame[sp] /\ sp' - 2 = sp - 1
      <4>1. frame'[sp] = frame[sp]
        BY <2>5, <2>9, <3>6
      <4>2. sp' - 2 = sp - 1
        BY <3>1, <3>6
      <4> QED
        BY <4>1, <4>2
    <3>3. Nested(sp - 1)' /\ frame'[sp' - 1].sepc = frame[sp].sepc
      BY <2>9, <3>1, <3>2 DEF OnInterrupt, Nested
    <3>4. Bottom(sp - 2, frame[sp - 1].sepc)' /\ frame'[sp' - 1].sepc # "schedule"
      <4>1. frame'[1] = frame[1] /\ (sp = 3 => frame'[2] = frame[2])
        BY <2>5, <2>9, <3>6
      <4> QED
        BY <3>2, <3>3, <3>6, <4>1 DEF Bottom
    <3>5. OnSecondInterrupt'
      BY <2>1, <2>9, <3>1, <3>3, <3>4, <3>6 DEF OnSecondInterrupt, Loaded
    <3> QED
      BY <2>1, <2>3, <2>4, <3>5 DEF InKernel
  <2> QED
    BY <1>3, <2>7, <2>8, <2>9
<1> QED
  BY <1>5, <1>6

\* What may be executed in each shape: no label belongs to two of them, but the
\* ones that the returns from the bottom and from an interrupt share.
LEMMA WhereInKernel ==
    ASSUME InUser \/ InGuest \/ InKernel
    PROVE  /\ pc \in {"ret_from_exception", "kthread"} \cup WaysOut \cup ExitLabels \cup VsLabels
                 \cup {"preempt_schedule_irq"} => InKernel
           /\ pc \in {"schedule", "no_work_pending", "kthread"} => OnBottom
           /\ pc = "set_sscratch" => LeavingKernel
           /\ pc \in VsLabels => EnteringGuest
           /\ pc = "preempt_schedule_irq" => OnInterrupt
           /\ pc = "ret_from_exception" => OnBottom \/ OnInterrupt \/ OnSecondInterrupt
           /\ pc \in Restoring => LeavingKernel \/ OnInterrupt \/ OnSecondInterrupt
BY DEF InUser, InGuest, InKernel, OnBottom, LeavingKernel, EnteringGuest, OnInterrupt,
       OnSecondInterrupt, Lost, Bottom, WaysOut, Restoring, ExitLabels, VsLabels

\* ret_from_exception goes by the frame: the bottom leads out of the kernel, an
\* interrupt back into it, with preempt_count telling whether by a preemption.
LEMMA RetFromExceptionInv ==
    ASSUME FieldsOK, InUser \/ InGuest \/ InKernel, RetFromException
    PROVE  FieldsOK' /\ InKernel'
<1>1. /\ pc = "ret_from_exception" /\ InKernel
      /\ UNCHANGED <<mode, spp, spv, sepc, sscratch, kernel_sp, sp, regs, a, frame>>
  BY WhereInKernel DEF RetFromException
<1>2. sie' \in BOOLEAN
  BY DEF RetFromException, NeedResched
<1>3. FieldsOK'
  BY <1>1, <1>2 DEF FieldsOK
<1>4. CASE OnBottom
  <2>1. frame[sp].spv \/ ~frame[sp].spp
    BY <1>1, <1>4 DEF OnBottom, Bottom
  <2>2. \/ pc' = "no_work_pending" /\ UNCHANGED preempt_count
        \/ pc' = "schedule" /\ preempt_count' = preempt_count + 1
    BY <2>1 DEF RetFromException
  <2>3. OnBottom'
    BY <1>1, <1>4, <2>2 DEF OnBottom, Bottom, WaysOut
  <2> QED
    BY <1>1, <1>3, <2>3 DEF InKernel
<1>5. CASE OnInterrupt
  <2>1. ~frame[sp].spv /\ frame[sp].spp
    BY <1>5 DEF OnInterrupt, Nested
  <2>2. \/ MayPreempt /\ NeedResched
        \/ ~MayPreempt /\ pc' = "restore_all" /\ sie' = FALSE /\ UNCHANGED preempt_count
    BY <2>1 DEF RetFromException
  <2>3. preempt_count = IF frame[sp].sepc = "schedule" THEN 1 ELSE 0
    BY <1>1, <1>5 DEF OnInterrupt
  <2>4. OnInterrupt'
    BY <1>1, <1>5, <2>2, <2>3, ZenonT(30)
    DEF OnInterrupt, Bottom, Nested, Loaded, MayPreempt, NeedResched, Restoring, ExitLabels
  <2> QED
    BY <1>1, <1>3, <2>4 DEF InKernel
<1>6. CASE OnSecondInterrupt
  <2>1. ~frame[sp].spv /\ frame[sp].spp /\ ~MayPreempt
    BY <1>6 DEF OnSecondInterrupt, Nested, MayPreempt
  <2>2. pc' = "restore_all" /\ sie' = FALSE /\ UNCHANGED preempt_count
    BY <2>1 DEF RetFromException
  <2>3. OnSecondInterrupt'
    BY <1>1, <1>6, <2>2
    DEF OnSecondInterrupt, Bottom, Nested, Loaded, Restoring, ExitLabels
  <2> QED
    BY <1>1, <1>3, <2>3 DEF InKernel
<1> QED
  BY <1>1, <1>4, <1>5, <1>6, WhereInKernel

\* preempt_schedule_irq and schedule() give preempt_count back.
LEMMA ScheduledInv ==
    ASSUME FieldsOK, InUser \/ InGuest \/ InKernel, PreemptDone \/ ScheduleDone
    PROVE  FieldsOK' /\ InKernel'
<1>1. /\ InKernel
      /\ UNCHANGED <<mode, spp, spv, sepc, sscratch, kernel_sp, sp, regs, a, frame>>
      /\ sie' \in BOOLEAN
  BY WhereInKernel DEF PreemptDone, ScheduleDone, NeedResched, WaysOut, csrs, FieldsOK
<1>2. FieldsOK'
  BY <1>1 DEF FieldsOK
<1>3. CASE PreemptDone
  <2>1. OnInterrupt /\ pc = "preempt_schedule_irq"
    BY <1>3, WhereInKernel DEF PreemptDone
  <2>2. frame[sp].sepc # "schedule"
    BY <2>1 DEF OnInterrupt, Restoring, ExitLabels
  <2>3. \/ pc' = "preempt_schedule_irq" /\ preempt_count' = 1
        \/ pc' = "restore_all" /\ preempt_count' = 0
    BY <1>3 DEF PreemptDone, NeedResched
  <2>4. (sp \in {2, 3} /\ Nested(sp) /\ Bottom(sp - 1, frame[sp].sepc) /\ ~sscratch)'
    BY <1>1, <2>1 DEF OnInterrupt, Bottom, Nested
  <2>5. OnInterrupt'
    BY <1>1, <2>2, <2>3, <2>4 DEF OnInterrupt, Loaded, Restoring, ExitLabels
  <2> QED
    BY <1>1, <1>2, <2>5 DEF InKernel
<1>4. CASE ScheduleDone
  <2>1. OnBottom /\ pc = "schedule"
    BY <1>4, WhereInKernel DEF ScheduleDone
  <2>2. OnBottom'
    BY <1>1, <1>4, <2>1 DEF ScheduleDone, OnBottom, Bottom, WaysOut
  <2> QED
    BY <1>1, <1>2, <2>2 DEF InKernel
<1> QED
  BY <1>3, <1>4

\* The steps of kernel_exit up to the loads of the general registers.
LEMMA ExitInv ==
    ASSUME FieldsOK, InUser \/ InGuest \/ InKernel,
           NoWorkPending \/ SetScratch \/ RestoreAll \/ WriteSstatus \/ WriteSepc
    PROVE  FieldsOK' /\ InKernel'
<1> USE DEF Goto, csrs
<1>1. UNCHANGED <<mode, regs, sp, frame, preempt_count>>
  BY DEF NoWorkPending, SetScratch, RestoreAll, WriteSstatus, WriteSepc
<1>2. InKernel
  BY WhereInKernel
  DEF NoWorkPending, SetScratch, RestoreAll, WriteSstatus, WriteSepc, WaysOut, ExitLabels
<1>3. CASE NoWorkPending
  <2>1. OnBottom /\ pc = "no_work_pending" /\ UNCHANGED <<sie, spp, spv, sepc, sscratch, a>>
    BY <1>3, WhereInKernel DEF NoWorkPending
  <2>2. sp \in {1, 2} /\ kernel_sp' = sp - 1 /\ pc' = "set_sscratch"
    BY <1>3, <2>1 DEF NoWorkPending, OnBottom
  <2>3. FieldsOK'
    BY <1>1, <1>2, <2>1, <2>2, TrapFrameAssumption DEF FieldsOK, InKernel
  <2>4. LeavingKernel'
    BY <1>1, <2>1, <2>2 DEF OnBottom, LeavingKernel, Bottom, Loaded, ExitLabels
  <2> QED
    BY <1>1, <1>2, <2>3, <2>4 DEF InKernel
<1>4. CASE SetScratch
  <2>1. LeavingKernel /\ pc = "set_sscratch" /\ pc' = "restore_all" /\ sscratch' = TRUE
        /\ UNCHANGED <<sie, spp, spv, sepc, kernel_sp, a>>
    BY <1>4, WhereInKernel DEF SetScratch
  <2>2. FieldsOK'
    BY <1>1, <2>1 DEF FieldsOK
  <2>3. LeavingKernel'
    BY <1>1, <2>1 DEF LeavingKernel, Bottom, Loaded, ExitLabels
  <2> QED
    BY <1>1, <1>2, <2>2, <2>3 DEF InKernel
<1>5. CASE RestoreAll \/ WriteSstatus \/ WriteSepc
  <2>1. /\ pc \in Restoring /\ pc' \in Restoring
        /\ pc' # "ret_from_exception" /\ UNCHANGED <<sscratch, kernel_sp>>
    BY <1>5 DEF RestoreAll, WriteSstatus, WriteSepc, Restoring, ExitLabels, csrs
  <2>2. sp \in 1 .. MaxDepth /\ FrameOK(frame[sp])
    BY <1>2 DEF InKernel, FieldsOK
  <2>3. FieldsOK'
    BY <1>1, <1>5, <2>1, <2>2
    DEF FieldsOK, FrameOK, RestoreAll, WriteSstatus, WriteSepc, Exits, csrs
  <2>4. Loaded'
    <3>1. Loaded
      BY <2>1, WhereInKernel
      DEF LeavingKernel, OnInterrupt, OnSecondInterrupt, Restoring, ExitLabels
    <3> QED
      BY <1>1, <1>5, <3>1 DEF Loaded, RestoreAll, WriteSstatus, WriteSepc, csrs
  <2>5. CASE LeavingKernel
    BY <1>1, <1>2, <2>1, <2>3, <2>4, <2>5 DEF InKernel, LeavingKernel, Bottom, Restoring
  <2>6. CASE OnInterrupt
    BY <1>1, <1>2, <2>1, <2>3, <2>4, <2>6
    DEF InKernel, OnInterrupt, Bottom, Nested, Restoring, ExitLabels
  <2>7. CASE OnSecondInterrupt
    BY <1>1, <1>2, <2>1, <2>3, <2>4, <2>7
    DEF InKernel, OnSecondInterrupt, Bottom, Nested
  <2> QED
    BY <2>1, <2>5, <2>6, <2>7, WhereInKernel
<1> QED
  BY <1>3, <1>4, <1>5

\* The sret: out of the kernel from the bottom, and from an interrupt to the
\* level below, where the frame says.
LEMMA LoadGprsInv ==
    ASSUME FieldsOK, InUser \/ InGuest \/ InKernel, LoadGprs
    PROVE  FieldsOK' /\ (InUser \/ InGuest \/ InKernel)'
<1>1. /\ pc = "load_gprs" /\ InKernel
      /\ LeavingKernel \/ OnInterrupt \/ OnSecondInterrupt
      /\ Loaded
  <2>1. pc = "load_gprs" /\ pc \in Restoring
    BY DEF LoadGprs, Restoring, ExitLabels
  <2>2. InKernel /\ (LeavingKernel \/ OnInterrupt \/ OnSecondInterrupt)
    BY <2>1, WhereInKernel DEF Restoring
  <2> QED
    BY <2>1, <2>2 DEF LeavingKernel, OnInterrupt, OnSecondInterrupt
<1>2. sp \in 1 .. MaxDepth /\ FrameOK(frame[sp])
  BY <1>1 DEF InKernel, FieldsOK
<1>3. sepc = frame[sp].sepc /\ spp = frame[sp].spp /\ spv = frame[sp].spv
  BY <1>1 DEF Loaded
<1>4. /\ regs' = frame[sp].regs /\ sp' = frame[sp].sp /\ a' = frame[sp].a
      /\ spp' = FALSE /\ spv' = FALSE /\ sie' = TRUE
      /\ UNCHANGED <<sepc, sscratch, kernel_sp, frame, preempt_count>>
  BY DEF LoadGprs, Sret
<1>5. FieldsOK'
  BY <1>2, <1>4 DEF FieldsOK, FrameOK
<1>6. CASE LeavingKernel
  <2>1. /\ sp \in {1, 2} /\ Bottom(sp, "no_work_pending") /\ kernel_sp = sp - 1
        /\ sscratch /\ preempt_count = 0
    BY <1>1, <1>6 DEF LeavingKernel
  <2>2. CASE sp = 1
    <3>1. /\ frame[1].sp = Own /\ frame[1].sepc = "user"
          /\ ~frame[1].spp /\ ~frame[1].spv /\ frame[1].regs = "own"
      BY <2>1, <2>2 DEF Bottom
    <3>2. mode' = "U" /\ pc' = "user"
      BY <1>3, <2>2, <3>1 DEF LoadGprs, Sret
    <3> QED
      BY <1>4, <1>5, <2>1, <2>2, <3>1, <3>2 DEF InUser
  <2>3. CASE sp = 2
    <3>1. /\ frame[1].sp = 0 /\ ~frame[1].spv
          /\ frame[2].sp = Own /\ frame[2].sepc = "guest"
          /\ frame[2].spv /\ frame[2].regs = "own"
      BY <2>1, <2>3 DEF Bottom
    <3>2. mode' = "VS" /\ pc' = "guest"
      BY <1>3, <2>3, <3>1 DEF LoadGprs, Sret
    <3> QED
      BY <1>4, <1>5, <2>1, <2>3, <3>1, <3>2 DEF InGuest
  <2> QED
    BY <2>1, <2>2, <2>3
<1>7. CASE OnInterrupt \/ OnSecondInterrupt
  <2>1. Nested(sp) /\ sp \in {2, 3, 4} /\ ~sscratch
    BY <1>7 DEF OnInterrupt, OnSecondInterrupt
  <2>2. /\ mode' = "S" /\ pc' = frame[sp].sepc /\ regs' = "kernel"
        /\ sp' = sp - 1 /\ sp' \in 1 .. MaxDepth
    BY <1>2, <1>3, <1>4, <2>1, TrapFrameAssumption DEF Nested, LoadGprs, Sret
  <2>3. CASE OnInterrupt
    <3>1. Bottom(sp - 1, frame[sp].sepc) /\ sp \in {2, 3}
      BY <2>3 DEF OnInterrupt
    <3>2. preempt_count = IF frame[sp].sepc = "schedule" THEN 1 ELSE 0
      BY <1>1, <2>3 DEF OnInterrupt
    <3>3. OnBottom'
      BY <1>4, <2>1, <2>2, <3>1, <3>2 DEF OnBottom, Bottom
    <3> QED
      BY <1>5, <2>2, <3>3 DEF InKernel
  <2>4. CASE OnSecondInterrupt
    <3>1. /\ Nested(sp - 1) /\ Bottom(sp - 2, frame[sp - 1].sepc) /\ sp \in {3, 4}
          /\ frame[sp].sepc = "preempt_schedule_irq" /\ frame[sp - 1].sepc # "schedule"
          /\ preempt_count = 1
      BY <2>4 DEF OnSecondInterrupt
    <3>2. sp' - 1 = sp - 2
      BY <2>2, <3>1
    <3>3. OnInterrupt'
      BY <1>4, <2>1, <2>2, <3>1, <3>2 DEF OnInterrupt, Bottom, Nested
    <3> QED
      BY <1>5, <2>2, <3>3 DEF InKernel
  <2> QED
    BY <1>7, <2>3, <2>4
<1> QED
  BY <1>1, <1>6, <1>7

\* A thread that leaves for user mode writes its own pt_regs, a guest takes none.
LEMMA EnterInv ==
    ASSUME FieldsOK, InUser \/ InGuest \/ InKernel, MoveToUserSpace \/ EnterVs
    PROVE  FieldsOK' /\ (InUser \/ InGuest \/ InKernel)'
<1> USE DEF Goto, csrs
<1>1. CASE MoveToUserSpace
  <2>1. /\ pc = "kthread" /\ InKernel /\ OnBottom /\ sp = 1 /\ preempt_count = 0
        /\ ~sscratch
    BY <1>1, WhereInKernel DEF MoveToUserSpace, OnBottom, Bottom, WaysOut
  <2> DEFINE new == Frame(Own, "user", FALSE, sie, FALSE, "own", NoExit)
  <2>2. frame' = [frame EXCEPT ![1] = new]
        /\ UNCHANGED <<mode, sie, spp, spv, sepc, sscratch, kernel_sp, sp, regs, a, preempt_count>>
        /\ pc' = "ret_from_exception"
    BY <1>1 DEF MoveToUserSpace, task_pt_regs
  <2>3. 1 \in DOMAIN frame
    BY TrapFrameAssumption DEF FieldsOK
  <2>4. FrameOK(new)
    <3>1. Own \in Sps /\ "user" \in Labels /\ "own" \in Owners /\ sie \in BOOLEAN
      BY DEF Sps, Labels, Owners, FieldsOK
    <3> QED
      BY <3>1, FrameTyped, NoExitTyped
  <2>5. FieldsOK'
    <3> HIDE DEF new
    <3> QED
      BY <2>2, <2>3, <2>4 DEF FieldsOK
  <2>6. /\ frame'[1].sp = Own /\ frame'[1].sepc = "user" /\ frame'[1].regs = "own"
        /\ frame'[1].spp = FALSE /\ frame'[1].spv = FALSE
    BY <2>2, <2>3 DEF Frame
  <2>7. OnBottom'
    <3> HIDE DEF new
    <3> QED
      BY <2>1, <2>2, <2>6 DEF OnBottom, Bottom, WaysOut
  <2> QED
    BY <2>1, <2>2, <2>5, <2>7 DEF InKernel
<1>2. CASE VsSpp \/ VsSpv \/ VsKernelSp \/ VsScratch \/ VsSepc
  <2>1. UNCHANGED <<mode, regs, sp, frame, preempt_count>>
    BY <1>2 DEF VsSpp, VsSpv, VsKernelSp, VsScratch, VsSepc
  <2>2. /\ InKernel /\ sp = 1 /\ Bottom(1, "kthread") /\ preempt_count = 0
        /\ (pc = "kthread" /\ ~sscratch) \/ EnteringGuest
    BY <1>2, WhereInKernel
    DEF VsSpp, VsSpv, VsKernelSp, VsScratch, VsSepc, OnBottom, EnteringGuest, Bottom, WaysOut,
        VsLabels
  <2>3. FieldsOK'
    <3>1. {spp', spv', sie', sscratch'} \subseteq BOOLEAN /\ sepc' \in Labels /\ UNCHANGED a
      BY <1>2 DEF VsSpp, VsSpv, VsKernelSp, VsScratch, VsSepc, FieldsOK, Labels
    <3>2. kernel_sp' \in 0 .. MaxDepth
      BY <1>2, <2>2, TrapFrameAssumption
      DEF VsSpp, VsSpv, VsKernelSp, VsScratch, VsSepc, FieldsOK
    <3> QED
      BY <2>1, <3>1, <3>2 DEF FieldsOK
  <2>4. Bottom(1, "kthread")'
    BY <2>1, <2>2 DEF Bottom
  <2>5. EnteringGuest'
    BY <1>2, <2>1, <2>2, <2>4
    DEF VsSpp, VsSpv, VsKernelSp, VsScratch, VsSepc, EnteringGuest, VsLabels
  <2> QED
    BY <2>1, <2>2, <2>3, <2>5 DEF InKernel
<1>3. CASE VsSret
  <2>1. pc = "vs_sret" /\ EnteringGuest
    BY <1>3, WhereInKernel DEF VsSret, VsLabels
  <2>2. /\ spv /\ sscratch /\ kernel_sp = 1 /\ sepc = "guest" /\ preempt_count = 0
        /\ frame[1].sp = 0 /\ ~frame[1].spv
    BY <2>1 DEF EnteringGuest, Bottom, WaysOut
  <2>3. InGuest'
    BY <1>3, <2>2 DEF VsSret, Sret, InGuest
  <2>4. FieldsOK'
    BY <1>3 DEF VsSret, Sret, FieldsOK
  <2> QED
    BY <2>3, <2>4
<1> QED
  BY <1>1, <1>2, <1>3 DEF EnterVs

\* Every step preserves the invariant.
LEMMA NextInv == IInv /\ [Next]_vars => IInv'
<1> SUFFICES ASSUME IInv, [Next]_vars PROVE IInv'
  OBVIOUS
<1>1. hit' \in BOOLEAN /\ (hit => hit')
  BY DEF IInv, Next, vars, Trap, RetFromException, PreemptDone, ScheduleDone, Exit, NoWorkPending,
         SetScratch, RestoreAll, WriteSstatus, WriteSepc, LoadGprs, MoveToUserSpace, EnterVs,
         VsSpp, VsSpv, VsKernelSp, VsScratch, VsSepc, VsSret, Goto, Spin
<1>2. SUFFICES ASSUME ~hit, ~hit', FieldsOK, InUser \/ InGuest \/ InKernel
               PROVE  FieldsOK' /\ (InUser \/ InGuest \/ InKernel)'
  BY <1>1 DEF IInv
<1>3. CASE UNCHANGED vars
  <2>1. UNCHANGED <<mode, pc, sie, spp, spv, sepc, sscratch, kernel_sp, sp, regs, a, frame,
                    preempt_count>>
    BY <1>3 DEF vars, csrs
  <2>2. FieldsOK' /\ (InUser \/ InGuest => (InUser \/ InGuest)')
    BY <1>2, <2>1 DEF FieldsOK, InUser, InGuest
  <2>3. InKernel => InKernel'
    BY <2>1
    DEF InKernel, OnBottom, LeavingKernel, EnteringGuest, OnInterrupt, OnSecondInterrupt, Lost,
        Bottom, Nested, Loaded
  <2> QED
    BY <1>2, <2>2, <2>3
<1>4. CASE Next
  BY <1>2, <1>3, <1>4, TrapInv, RetFromExceptionInv, ScheduledInv, ExitInv, LoadGprsInv, EnterInv
  DEF Next, Exit, Spin
<1> QED
  BY <1>3, <1>4

LEMMA SpecInv == Spec => []IInv
BY InitInv, NextInv, PTL DEF Spec

-----------------------------------------------------------------------------
(* The theorems. *)

\* What the bottom says of the frames up to it.
LEMMA BottomChained ==
    ASSUME NEW i, NEW label, Bottom(i, label)
    PROVE  /\ i \in {1, 2} /\ label \in WaysOut \cup {"kthread"}
           /\ i = 2 => frame[2].spv /\ frame[1].sp = 0
           /\ \/ frame[i].sp = i - 1
              \/ frame[i].sp = Own /\ i = IF frame[i].spv THEN 2 ELSE 1
BY DEF Bottom

\* Until a trap hits a way out the variables have their types; what a hart that
\* was hit there does is not said.
THEOREM TypedUnlessHit == Spec => [](~hit => TypeOK)
<1>1. IInv => (~hit => TypeOK)
  <2> SUFFICES ASSUME FieldsOK, InUser \/ InGuest \/ InKernel, hit \in BOOLEAN
               PROVE  TypeOK
    BY DEF IInv
  <2> QED
    BY ShapeTypes DEF FieldsOK, FrameOK, TypeOK, Exits
<1> QED
  BY <1>1, SpecInv, PTL

\* As long as no trap comes in the last steps of a way out, whoever runs outside
\* the kernel has its own pc, registers and stack, sscratch leads the next trap
\* to its task, and kernel_sp is where that task left its kernel stack; and the
\* hart is not lost, if the stack holds the four frames that can be nested.
THEOREM OutsideStaysIntact ==
    ASSUME MaxDepth > 3
    PROVE  Spec => []IntactUnlessHit
<1>1. IInv => IntactUnlessHit
  <2> SUFFICES ASSUME InUser \/ InGuest \/ InKernel
               PROVE  pc # "halt" /\ OutsideIntact
    BY DEF IInv, IntactUnlessHit
  <2>1. CASE InUser \/ InGuest
    BY <2>1 DEF InUser, InGuest, OutsideIntact
  <2>2. CASE InKernel
    <3>1. ~Lost
      BY TrapFrameAssumption DEF Lost
    <3> QED
      BY <2>2, <3>1
      DEF InKernel, OnBottom, LeavingKernel, EnteringGuest, OnInterrupt, OnSecondInterrupt,
          Bottom, WaysOut, Restoring, ExitLabels, VsLabels, OutsideIntact
  <2> QED
    BY <2>1, <2>2
<1> QED
  BY <1>1, SpecInv, PTL

\* kernel_entry may go by sscratch: in the kernel it is set in the last steps of
\* the two ways out and nowhere else.
THEOREM ScratchTells == Spec => []ScratchTellsMode
<1>1. IInv => ScratchTellsMode
  BY DEF IInv, ScratchTellsMode, InUser, InGuest, InKernel, OnBottom, LeavingKernel,
         EnteringGuest, OnInterrupt, OnSecondInterrupt, Lost
<1> QED
  BY <1>1, SpecInv, PTL

\* Interrupts of the kernel nest two deep at most, however schedule(),
\* preempt_schedule_irq and the traps follow each other.
THEOREM NestingBounded == Spec => []FramesBounded
<1>1. IInv => FramesBounded
  <2> SUFFICES ASSUME InKernel
               PROVE  sp <= IF frame[2].spv THEN 4 ELSE 3
    BY DEF IInv, FramesBounded, InUser, InGuest
  <2>1. CASE sp \in {1, 2, 3}
    BY <2>1
  <2>2. CASE sp \notin {1, 2, 3}
    <3>1. OnSecondInterrupt /\ sp = 4
      BY <2>2 DEF InKernel, OnBottom, LeavingKernel, EnteringGuest, OnInterrupt,
                  OnSecondInterrupt, Lost
    <3>2. frame[2].spv
      BY <3>1, BottomChained DEF OnSecondInterrupt
    <3> QED
      BY <3>1, <3>2
  <2> QED
    BY <2>1, <2>2
<1> QED
  BY <1>1, SpecInv, PTL

\* No trap writes a frame that is still needed: from the current frame each one
\* leads to the one above it, and the topmost out of the kernel.
THEOREM ChainUnbroken == Spec => []FramesChained
<1> DEFINE Link(i) == \/ frame[i].sp = i - 1
                      \/ frame[i].sp = Own /\ i = IF frame[i].spv THEN 2 ELSE 1
<1>1. IInv => FramesChained
  <2> SUFFICES ASSUME InKernel, NEW i \in 1 .. sp
               PROVE  Link(i)
    BY DEF IInv, FramesChained, InUser, InGuest
  <2>1. ASSUME NEW b, NEW label, Bottom(b, label), i \in 1 .. b
        PROVE  Link(i)
    <3>1. b \in {1, 2} /\ Link(b) /\ (b = 2 => Link(1))
      BY <2>1, BottomChained
    <3> HIDE DEF Link
    <3> QED
      BY <2>1, <3>1
  <2>2. \A n \in {sp, sp - 1} : Nested(n) => Link(n)
    BY DEF Nested
  <2> HIDE DEF Link
  <2>3. CASE OnBottom \/ LeavingKernel \/ EnteringGuest
    BY <2>1, <2>3 DEF OnBottom, LeavingKernel, EnteringGuest
  <2>4. CASE OnInterrupt
    BY <2>1, <2>2, <2>4 DEF OnInterrupt
  <2>5. CASE OnSecondInterrupt
    BY <2>1, <2>2, <2>5 DEF OnSecondInterrupt
  <2>6. CASE Lost
    BY <2>1, <2>2, <2>6 DEF Lost
  <2> QED
    BY <2>3, <2>4, <2>5, <2>6 DEF InKernel
<1> QED
  BY <1>1, SpecInv, PTL
=============================================================================
