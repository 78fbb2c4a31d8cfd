---------------------------- MODULE TimerProofs ----------------------------
(***************************************************************************)
(* Theorems about Timer for every length of the two periods.               *)
(***************************************************************************)
EXTENDS Timer, TLAPS

-----------------------------------------------------------------------------
(* The inductive invariant: the types, the two chains, how both begin, and  *)
(* that the time since the last tick and the time left until the next one   *)
(* add up to at least a period wherever the next one has been fixed.        *)

Begin ==
    /\ hs_pc = "boot" => ~mtie /\ ~stip /\ vs_pc = "boot"
    /\ vs_pc = "boot" => ~vcpu_timer_init /\ ~vstip

Paced ==
    /\ hs_pc = "ecall" => since + hs_next >= Period
    /\ hs_pc = "run" /\ mtie => since + mtimecmp >= Period
    /\ hs_pc = "run" /\ stip => since = Period

TimerInv == TypeOK /\ OneLink /\ OneVirtualLink /\ Begin /\ Paced

\* The two halves of TypeOK.
TimesOK ==
    /\ mtimecmp \in 0 .. Period /\ hs_next \in 0 .. Period
    /\ vcpu_next_cycle \in 0 .. VsPeriod /\ vs_next \in 0 .. VsPeriod
    /\ since \in 0 .. Period

FlagsOK ==
    /\ mtie \in BOOLEAN /\ stip \in BOOLEAN /\ stie \in BOOLEAN
    /\ vcpu_timer_init \in BOOLEAN /\ vstip \in BOOLEAN /\ vs_stie \in BOOLEAN
    /\ hs_pc \in HsLabels /\ vs_pc \in VsLabels

\* TypeOK falls into its part on times and its part on flags.
LEMMA Halves == TypeOK <=> TimesOK /\ FlagsOK
  BY Zenon DEF TypeOK, TimesOK, FlagsOK

\* A time left stays in range while time passes.
LEMMA LeftInRange ==
    ASSUME NEW max \in Nat, NEW t \in 0 .. max
    PROVE  Left(t) \in 0 .. max /\ (t > 0 => Left(t) = t - 1) /\ (t = 0 => Left(t) = 0)
  BY DEF Left

\* No step leaves a flag or a program counter outside its type.
LEMMA FlagsInv == FlagsOK /\ [Next]_vars => FlagsOK'
<1> SUFFICES ASSUME FlagsOK, [Next]_vars PROVE FlagsOK'
  OBVIOUS
<1> USE DEF FlagsOK, HsLabels, VsLabels, host, vcpu, guest
<1>1. CASE Elapse
  BY <1>1, Zenon DEF Elapse
<1>2. CASE sbi_timer_process
  BY <1>2, Zenon DEF sbi_timer_process
<1>3. CASE timer_init \/ handle_timer_irq \/ reset_timer
  BY <1>3, Zenon DEF timer_init, handle_timer_irq, reset_timer
<1>4. CASE riscv_vcpu_check_timer_expired
  BY <1>4, Zenon DEF riscv_vcpu_check_timer_expired
<1>5. CASE sbi_set_timer
  BY <1>5, Zenon DEF sbi_set_timer, clint_timer_event_start
<1>6. CASE vs_timer_init \/ vs_handle_timer_irq \/ vs_reset_timer
  BY <1>6, Zenon DEF vs_timer_init, vs_handle_timer_irq, vs_reset_timer
<1>7. CASE vs_sbi_ecall
  BY <1>7, Zenon DEF vs_sbi_ecall, riscv_vcpu_timer_event_start
<1>8. CASE UNCHANGED vars
  BY <1>8, Zenon DEF vars
<1> QED
  BY <1>1, <1>2, <1>3, <1>4, <1>5, <1>6, <1>7, <1>8, Zenon DEF Next, Kernel, Guest

\* What the invariant says beside the types of the flags.
Rest == TimesOK /\ OneLink /\ OneVirtualLink /\ Begin /\ Paced

\* The invariant falls into the types of the flags and the rest.
LEMMA Parts == TimerInv <=> FlagsOK /\ Rest
  BY Halves, Zenon DEF TimerInv, Rest

\* Before timer_init nothing is armed and nothing is pending.
LEMMA InitInv == Init => TimerInv
<1> SUFFICES ASSUME Init PROVE TimerInv
  OBVIOUS
<1>1. FlagsOK
  BY Zenon DEF Init, FlagsOK, HsLabels, VsLabels
<1>2. TimesOK
  BY TimerAssumption DEF Init, TimesOK
<1>3. OneLink /\ OneVirtualLink /\ Begin /\ Paced
  BY DEF Init, OneLink, OneVirtualLink, Begin, Paced
<1> QED
  BY <1>1, <1>2, <1>3, Parts DEF Rest

\* Time brings deadlines closer by as much as it moves the last tick away.
LEMMA ElapseInv == TimerInv /\ Elapse => Rest'
<1> SUFFICES ASSUME TimerInv, Elapse PROVE Rest'
  OBVIOUS
<1>1. TimesOK'
  BY TimerAssumption, LeftInRange DEF TimerInv, TypeOK, TimesOK, Elapse
<1>2. OneLink' /\ OneVirtualLink' /\ Begin'
  BY DEF TimerInv, Elapse, OneLink, OneVirtualLink, Begin
<1>3. Paced'
  BY TimerAssumption, LeftInRange DEF TimerInv, TypeOK, Paced, Elapse
<1> QED
  BY <1>1, <1>2, <1>3 DEF Rest

\* The firmware's interrupt moves the tick from the CLINT to STIP.
LEMMA MachineInv == TimerInv /\ sbi_timer_process => Rest'
  BY TimerAssumption
  DEF TimerInv, TypeOK, HsLabels, Rest, TimesOK, OneLink, OneVirtualLink, Begin, Paced,
      sbi_timer_process, vcpu, guest

\* The kernel's handler holds the tick until the firmware has it again.
LEMMA KernelInv == TimerInv /\ Kernel => Rest'
<1> SUFFICES ASSUME TimerInv, Kernel PROVE Rest'
  OBVIOUS
<1> USE TimerAssumption
     DEF TimerInv, TypeOK, Rest, TimesOK, OneLink, OneVirtualLink, Begin, Paced,
         vcpu, guest
<1>1. CASE timer_init
  BY <1>1 DEF timer_init
<1>2. CASE handle_timer_irq
  BY <1>2 DEF handle_timer_irq
<1>3. CASE riscv_vcpu_check_timer_expired
  BY <1>3 DEF riscv_vcpu_check_timer_expired, Expired
<1>4. CASE reset_timer
  BY <1>4 DEF reset_timer
<1>5. CASE sbi_set_timer
  BY <1>5 DEF sbi_set_timer, clint_timer_event_start
<1> QED
  BY <1>1, <1>2, <1>3, <1>4, <1>5 DEF Kernel

\* The guest's steps do not touch the chain of the kernel.
LEMMA GuestInv == TimerInv /\ Guest => Rest'
<1> SUFFICES ASSUME TimerInv, Guest PROVE Rest'
  OBVIOUS
<1> USE TimerAssumption
     DEF TimerInv, TypeOK, Rest, TimesOK, OneLink, OneVirtualLink, Begin, Paced,
         host, vcpu, guest
<1>1. CASE vs_timer_init
  BY <1>1 DEF vs_timer_init
<1>2. CASE vs_handle_timer_irq
  BY <1>2 DEF vs_handle_timer_irq
<1>3. CASE vs_reset_timer
  BY <1>3 DEF vs_reset_timer
<1>4. CASE vs_sbi_ecall
  BY <1>4 DEF vs_sbi_ecall, riscv_vcpu_timer_event_start
<1> QED
  BY <1>1, <1>2, <1>3, <1>4 DEF Guest

\* The inductive invariant of every execution.
THEOREM TimerInvariant == Spec => []TimerInv
<1>1. TimerInv /\ [Next]_vars => TimerInv'
  <2> SUFFICES ASSUME TimerInv, [Next]_vars PROVE TimerInv'
    OBVIOUS
  <2>1. FlagsOK'
    BY FlagsInv, Parts
  <2>2. TimerInv' <=> FlagsOK' /\ Rest'
    BY Parts, PTL
  <2>3. SUFFICES Rest'
    BY <2>1, <2>2
  <2>4. CASE UNCHANGED vars
    BY <2>4 DEF vars, host, vcpu, guest, TimerInv, TypeOK, Rest, TimesOK, OneLink,
                OneVirtualLink, Begin, Paced
  <2> QED
    BY <2>4, ElapseInv, MachineInv, KernelInv, GuestInv, Zenon DEF Next
<1> QED
  BY <1>1, InitInv, PTL DEF Spec

\* Type correctness: in particular no deadline is ever further away than a period.
THEOREM TypeCorrect == Spec => []TypeOK
<1>1. TimerInv => TypeOK
  BY DEF TimerInv
<1> QED
  BY <1>1, TimerInvariant, PTL

\* The next tick is always on its way through exactly one link of the chain.
THEOREM NoTickLost == Spec => []OneLink
<1>1. TimerInv => OneLink
  BY DEF TimerInv
<1> QED
  BY <1>1, TimerInvariant, PTL

\* So is the next interrupt of the guest.
THEOREM NoVirtualTickLost == Spec => []OneVirtualLink
<1>1. TimerInv => OneVirtualLink
  BY DEF TimerInv
<1> QED
  BY <1>1, TimerInvariant, PTL

\* Between two ticks at least a period passes.
THEOREM TicksArePaced == Spec => NoEarlyTick
<1>1. TimerInv /\ [Next]_vars => [hs_pc' = "check" /\ hs_pc # "check" => since = Period]_vars
  <2> SUFFICES ASSUME TimerInv, Next, hs_pc' = "check", hs_pc # "check"
               PROVE  since = Period
    OBVIOUS
  <2>1. handle_timer_irq
    BY DEF Next, Elapse, sbi_timer_process, Kernel, Guest, timer_init,
           riscv_vcpu_check_timer_expired, reset_timer, sbi_set_timer, vs_timer_init,
           vs_handle_timer_irq, vs_reset_timer, vs_sbi_ecall, host
  <2> QED
    BY <2>1 DEF handle_timer_irq, TimerInv, Paced
<1> QED
  BY <1>1, TimerInvariant, PTL DEF Spec, NoEarlyTick

-----------------------------------------------------------------------------
(* The two refinements. *)

\* Each step sets, fires or runs down the chain of the kernel, or leaves it.
THEOREM HostImplements == Spec => HostIsOneShot
<1>1. Init => Host!OsInit
  BY DEF Init, Host!OsInit
<1>2. TimerInv /\ [Next]_vars => [Host!OsNext]_(Host!osVars)
  <2> SUFFICES ASSUME TimerInv, [Next]_vars
               PROVE  [Host!OsNext]_(Host!osVars)
    OBVIOUS
  <2> USE DEF TimerInv, TypeOK, OneLink, Begin, Host!OsNext, Host!osVars
  <2>1. CASE Elapse
    BY <2>1, TimerAssumption DEF Elapse, Left, Host!Pass
  <2>2. CASE sbi_timer_process
    BY <2>2 DEF sbi_timer_process, Host!Fire
  <2>3. CASE sbi_set_timer
    BY <2>3 DEF sbi_set_timer, clint_timer_event_start, Host!Set
  <2>4. CASE \/ timer_init \/ handle_timer_irq \/ riscv_vcpu_check_timer_expired
             \/ reset_timer \/ Guest \/ UNCHANGED vars
    BY <2>4 DEF timer_init, handle_timer_irq, riscv_vcpu_check_timer_expired, reset_timer,
                Guest, vs_timer_init, vs_handle_timer_irq, vs_reset_timer, vs_sbi_ecall,
                vars, host
  <2> QED
    BY <2>1, <2>2, <2>3, <2>4 DEF Next, Kernel
<1> QED
  BY <1>1, <1>2, TimerInvariant, PTL DEF Spec, HostIsOneShot, Host!OsSpec

\* Each step sets, fires or runs down the virtual timer, or leaves it.
THEOREM VcpuImplements == Spec => VcpuIsOneShot
<1>1. Init => Vcpu!OsInit
  BY DEF Init, Vcpu!OsInit
<1>2. TimerInv /\ [Next]_vars => [Vcpu!OsNext]_(Vcpu!osVars)
  <2> SUFFICES ASSUME TimerInv, [Next]_vars
               PROVE  [Vcpu!OsNext]_(Vcpu!osVars)
    OBVIOUS
  <2> USE DEF TimerInv, TypeOK, OneVirtualLink, Begin, Vcpu!OsNext, Vcpu!osVars
  <2>1. CASE Elapse
    BY <2>1, TimerAssumption DEF Elapse, Left, Vcpu!Pass
  <2>2. CASE riscv_vcpu_check_timer_expired
    BY <2>2 DEF riscv_vcpu_check_timer_expired, Expired, Vcpu!Fire
  <2>3. CASE vs_sbi_ecall
    BY <2>3 DEF vs_sbi_ecall, riscv_vcpu_timer_event_start, Vcpu!Set
  <2>4. CASE \/ sbi_timer_process \/ timer_init \/ handle_timer_irq \/ reset_timer
             \/ sbi_set_timer \/ vs_timer_init \/ vs_handle_timer_irq
             \/ vs_reset_timer \/ UNCHANGED vars
    BY <2>4 DEF sbi_timer_process, timer_init, handle_timer_irq, reset_timer,
                sbi_set_timer, vs_timer_init, vs_handle_timer_irq, vs_reset_timer,
                vars, vcpu
  <2> QED
    BY <2>1, <2>2, <2>3, <2>4 DEF Next, Kernel, Guest
<1> QED
  BY <1>1, <1>2, TimerInvariant, PTL DEF Spec, VcpuIsOneShot, Vcpu!OsSpec
=============================================================================
