------------------------------- MODULE Timer -------------------------------
(***************************************************************************)
(* The timers, across the four modes: the CLINT and the firmware           *)
(* (sbi/sbi_timer.c, sbi/sbi_trap.c), the kernel's tick and the virtual    *)
(* timer it keeps for the guest (src/timer.c), and the guest's own driver  *)
(* (virt/vs_timer.c, virt/vs_trap.c).                                      *)
(*                                                                         *)
(* Times are kept as what is left until them, never below 0.  The kernel's *)
(* handler runs with SIE clear, but time passes and the firmware's         *)
(* interrupt comes at any of its steps; the guest stops at any of its own. *)
(* What a tick does to the scheduler is in Sched.                          *)
(*                                                                         *)
(* The guest of vs_main calls no vs_timer_init and leaves interrupts off;  *)
(* it is modelled with its driver in use.                                  *)
(***************************************************************************)
EXTENDS Integers

CONSTANTS
    Period,     \* CLINT_TIMEBASE_FREQ / HZ
    VsPeriod    \* CLINT_TIMEBASE_FREQ / VS_HZ

ASSUME TimerAssumption ==
    /\ Period \in Nat /\ Period > 0
    /\ VsPeriod \in Nat /\ VsPeriod > 0

VARIABLES
    mtimecmp,           \* time left until the CLINT's compare value
    mtie,               \* mie.MTIE
    stip,               \* mip.STIP, which the kernel sees as sip.STIP
    stie,               \* sie.STIE
    hs_pc,              \* where the kernel is, see HsLabels
    hs_next,            \* the argument of its sbi_set_timer
    vcpu_next_cycle,    \* time left until the virtual timer's deadline
    vcpu_timer_init,    \* the virtual timer has been set and has not expired
    vstip,              \* hvip.VSTIP
    vs_stie,            \* the guest's sie.STIE
    vs_pc,              \* where the guest is, see VsLabels
    vs_next,            \* the argument of its sbi_set_timer
    since               \* history: time since the last tick, up to Period

host == <<mtimecmp, mtie, stip, stie, hs_pc, hs_next>>
vcpu == <<vcpu_next_cycle, vcpu_timer_init, vstip>>
guest == <<vs_stie, vs_pc, vs_next>>
vars == <<host, vcpu, guest, since>>

HsLabels == {
    "boot",     \* before timer_init
    "run",      \* anything with interrupts enabled, the guest included
    "check",    \* riscv_vcpu_check_timer_expired
    "rearm",    \* reset_timer
    "ecall" }   \* its sbi_set_timer

VsLabels == {"boot", "run", "rearm", "ecall"}

Left(t) == IF t > 0 THEN t - 1 ELSE 0

-----------------------------------------------------------------------------
(* The CLINT and the firmware. *)

Elapse ==
    /\ mtimecmp' = Left(mtimecmp)
    /\ hs_next' = Left(hs_next)
    /\ vcpu_next_cycle' = Left(vcpu_next_cycle)
    /\ vs_next' = Left(vs_next)
    /\ since' = IF since < Period THEN since + 1 ELSE since
    /\ UNCHANGED <<mtie, stip, stie, hs_pc, vcpu_timer_init, vstip, vs_stie, vs_pc>>

\* Mutant: the firmware leaves MTIE set.
sbi_timer_process_KeepsMtie ==
    /\ mtie /\ mtimecmp = 0
    /\ stip' = TRUE
    /\ UNCHANGED <<mtie, mtimecmp, stie, hs_pc, hs_next, vcpu, guest, since>>

\* The machine timer interrupt.
sbi_timer_process ==
    /\ mtie /\ mtimecmp = 0
    /\ mtie' = FALSE
    /\ stip' = TRUE
    /\ UNCHANGED <<mtimecmp, stie, hs_pc, hs_next, vcpu, guest, since>>

\* Mutant: STIP is left pending.
clint_timer_event_start_KeepsStip(next_event) ==
    /\ mtimecmp' = next_event
    /\ mtie' = TRUE
    /\ UNCHANGED stip

\* The SBI call.
clint_timer_event_start(next_event) ==
    /\ mtimecmp' = next_event
    /\ stip' = FALSE
    /\ mtie' = TRUE

-----------------------------------------------------------------------------
(* The kernel. *)

timer_init ==
    /\ hs_pc = "boot"
    /\ hs_pc' = "rearm"
    /\ UNCHANGED <<mtimecmp, mtie, stip, stie, hs_next, vcpu, guest, since>>

\* The supervisor timer interrupt, from the kernel, a thread or the guest.
handle_timer_irq ==
    /\ hs_pc = "run" /\ stip /\ stie
    /\ hs_pc' = "check"
    /\ stie' = FALSE
    /\ since' = 0
    /\ UNCHANGED <<mtimecmp, mtie, stip, hs_next, vcpu, guest>>

\* Mutant: the virtual timer fires before its deadline.
Expired_Early == vcpu_next_cycle <= 1

\* !(val < vcpu_next_cycle)
Expired == vcpu_next_cycle = 0

\* A virtual timer that has expired is injected once; then the tick.
riscv_vcpu_check_timer_expired ==
    /\ hs_pc = "check"
    /\ hs_pc' = "rearm"
    /\ \/ /\ vcpu_timer_init /\ Expired
          /\ vstip' = TRUE
          /\ vcpu_timer_init' = FALSE
       \/ /\ ~(vcpu_timer_init /\ Expired)
          /\ UNCHANGED <<vstip, vcpu_timer_init>>
    /\ UNCHANGED <<mtimecmp, mtie, stip, stie, hs_next, vcpu_next_cycle, guest, since>>

\* Mutant: STIE is not set again.
reset_timer_NoStie ==
    /\ hs_pc = "rearm"
    /\ hs_pc' = "ecall"
    /\ hs_next' = Period
    /\ UNCHANGED <<mtimecmp, mtie, stip, stie, vcpu, guest, since>>

\* Mutant: a time base that is off by one.
reset_timer_Short ==
    /\ hs_pc = "rearm"
    /\ hs_pc' = "ecall"
    /\ stie' = TRUE
    /\ hs_next' = Period - 1
    /\ UNCHANGED <<mtimecmp, mtie, stip, vcpu, guest, since>>

\* The time is read here, and the call made later.
reset_timer ==
    /\ hs_pc = "rearm"
    /\ hs_pc' = "ecall"
    /\ stie' = TRUE
    /\ hs_next' = Period
    /\ UNCHANGED <<mtimecmp, mtie, stip, vcpu, guest, since>>

sbi_set_timer ==
    /\ hs_pc = "ecall"
    /\ hs_pc' = "run"
    /\ clint_timer_event_start(hs_next)
    /\ hs_next' = 0
    /\ UNCHANGED <<stie, vcpu, guest, since>>

-----------------------------------------------------------------------------
(* The guest, which runs only while the kernel does not. *)

vs_timer_init ==
    /\ hs_pc = "run" /\ vs_pc = "boot"
    /\ vs_pc' = "rearm"
    /\ UNCHANGED <<host, vcpu, vs_stie, vs_next, since>>

\* VSTIP is delegated by hideleg and reaches the guest as its own timer interrupt.
vs_handle_timer_irq ==
    /\ hs_pc = "run" /\ vs_pc = "run" /\ vstip /\ vs_stie
    /\ vs_pc' = "rearm"
    /\ vs_stie' = FALSE
    /\ UNCHANGED <<host, vcpu, vs_next, since>>

\* Mutant: STIE is not set again.
vs_reset_timer_NoStie ==
    /\ hs_pc = "run" /\ vs_pc = "rearm"
    /\ vs_pc' = "ecall"
    /\ vs_next' = VsPeriod
    /\ UNCHANGED <<host, vcpu, vs_stie, since>>

vs_reset_timer ==
    /\ hs_pc = "run" /\ vs_pc = "rearm"
    /\ vs_pc' = "ecall"
    /\ vs_stie' = TRUE
    /\ vs_next' = VsPeriod
    /\ UNCHANGED <<host, vcpu, since>>

\* Mutant: the pending interrupt is not cleared.
riscv_vcpu_timer_event_start_Keeps(next_cycle) ==
    /\ vcpu_next_cycle' = next_cycle
    /\ vcpu_timer_init' = TRUE
    /\ UNCHANGED vstip

riscv_vcpu_timer_event_start(next_cycle) ==
    /\ vstip' = FALSE
    /\ vcpu_next_cycle' = next_cycle
    /\ vcpu_timer_init' = TRUE

\* The guest's SBI call, which vs_sbi_ecall_handle serves.
vs_sbi_ecall ==
    /\ hs_pc = "run" /\ vs_pc = "ecall"
    /\ vs_pc' = "run"
    /\ riscv_vcpu_timer_event_start(vs_next)
    /\ vs_next' = 0
    /\ UNCHANGED <<host, vs_stie, since>>

-----------------------------------------------------------------------------
Init ==
    /\ mtimecmp = 0
    /\ mtie = FALSE /\ stip = FALSE
    /\ stie = TRUE
    /\ hs_pc = "boot" /\ hs_next = 0
    /\ vcpu_next_cycle = 0 /\ vcpu_timer_init = FALSE /\ vstip = FALSE
    /\ vs_stie = TRUE
    /\ vs_pc = "boot" /\ vs_next = 0
    /\ since = 0

Kernel ==
    \/ timer_init \/ handle_timer_irq \/ riscv_vcpu_check_timer_expired
    \/ reset_timer \/ sbi_set_timer

Guest == vs_timer_init \/ vs_handle_timer_irq \/ vs_reset_timer \/ vs_sbi_ecall

Next == Elapse \/ sbi_timer_process \/ Kernel \/ Guest

Spec == Init /\ [][Next]_vars

\* Time passes; the hart executes; and it comes back to the guest after each tick
\* (Sched, NoStarvation), for longer than a few instructions.
Fairness ==
    /\ WF_vars(Elapse) /\ WF_vars(sbi_timer_process) /\ WF_vars(Kernel)
    /\ SF_vars(Guest)

FairSpec == Spec /\ Fairness
-----------------------------------------------------------------------------
(* Properties. *)

TypeOK ==
    /\ mtimecmp \in 0 .. Period /\ hs_next \in 0 .. Period
    /\ vcpu_next_cycle \in 0 .. VsPeriod /\ vs_next \in 0 .. VsPeriod
    /\ since \in 0 .. Period
    /\ mtie \in BOOLEAN /\ stip \in BOOLEAN /\ stie \in BOOLEAN
    /\ vcpu_timer_init \in BOOLEAN /\ vstip \in BOOLEAN /\ vs_stie \in BOOLEAN
    /\ hs_pc \in HsLabels /\ vs_pc \in VsLabels

\* The next tick is on its way through exactly one link of the chain: the CLINT
\* with MTIE set, or STIP, which the kernel's handler holds until it has called the
\* firmware.  Whenever interrupts are enabled STIE lets it through.  No tick is
\* lost and none is delivered twice, although each link switches itself off.
OneLink ==
    /\ hs_pc = "run" => (mtie <=> ~stip) /\ stie
    /\ hs_pc = "check" => ~mtie /\ stip /\ ~stie
    /\ hs_pc = "rearm" => ~mtie
    /\ hs_pc = "ecall" => ~mtie /\ stie

\* The same for the virtual timer: waiting, injected, or about to be set again by
\* the guest's handler.
OneVirtualLink ==
    /\ ~(vcpu_timer_init /\ vstip)
    /\ vs_pc = "run" => (vcpu_timer_init \/ vstip) /\ vs_stie
    /\ vs_pc = "rearm" => ~vcpu_timer_init
    /\ vs_pc = "ecall" => ~vcpu_timer_init /\ vs_stie

\* jiffies never runs ahead of the clock: between two ticks at least Period passes.
NoEarlyTick == [][hs_pc' = "check" /\ hs_pc # "check" => since = Period]_vars

\* The chain of the CLINT, the firmware and the kernel is a one-shot timer that is
\* never set while it runs.
Host == INSTANCE OneShotTimer WITH
            MaxDelay <- Period, remaining <- mtimecmp,
            state <- IF mtie THEN "armed" ELSE IF stip THEN "fired" ELSE "idle"

HostIsOneShot == Host!OsSpec

\* So is the virtual timer that the kernel keeps for the guest.
Vcpu == INSTANCE OneShotTimer WITH
            MaxDelay <- VsPeriod, remaining <- vcpu_next_cycle,
            state <- IF vcpu_timer_init THEN "armed" ELSE IF vstip THEN "fired" ELSE "idle"

VcpuIsOneShot == Vcpu!OsSpec

\* Ticks never stop.
TicksForever == []<>(hs_pc = "check")

\* Every deadline the guest sets is followed by an interrupt that it handles.
GuestTicks == vcpu_timer_init ~> vs_pc = "rearm"
=============================================================================
