---------------------------- MODULE TrapRouting ----------------------------
(***************************************************************************)
(* Which level takes a trap, and what it does with it, while the machine   *)
(* comes up: the firmware sets its vector and delegates, the kernel sets   *)
(* its own and delegates on to the guest, the guest sets its own.  The     *)
(* levels are M (sbi/), HS (src/trap.c) and VS (virt/vs_trap.c); programs  *)
(* run in S (the kernel), U and VS.                                        *)
(***************************************************************************)
EXTENDS Naturals

VARIABLES mode,      \* who runs: M, S, U, VS
          vector,    \* what mtvec, stvec and vstvec of the levels point to
          medeleg, mideleg, hedeleg, hideleg,
          enabled,   \* levels whose interrupts the code has enabled
          taken      \* the traps being handled, at most one

vars == <<mode, vector, medeleg, mideleg, hedeleg, hideleg, enabled, taken>>

(* include/asm/trap.h, sbi/sbi_trap.h.                                     *)
Cause == [FetchMisaligned |-> 0, FetchAccess |-> 1,
          IllegalInstruction |-> 2, Breakpoint |-> 3,
          MisalignedLoad |-> 4, LoadAccess |-> 5, MisalignedStore |-> 6,
          StoreAccess |-> 7, UserEcall |-> 8, SupervisorEcall |-> 9,
          VirtualEcall |-> 10, FetchPageFault |-> 12,
          LoadPageFault |-> 13, StorePageFault |-> 15,
          FetchGuestFault |-> 20, LoadGuestFault |-> 21,
          VirtualInst |-> 22, StoreGuestFault |-> 23]
GuestFaults == {Cause.FetchGuestFault, Cause.LoadGuestFault, Cause.StoreGuestFault}
(* What the firmware gives to the kernel, and the kernel to the guest.     *)
Faults == {Cause.FetchMisaligned, Cause.FetchPageFault, Cause.Breakpoint,
           Cause.LoadPageFault, Cause.StorePageFault, Cause.UserEcall,
           Cause.LoadAccess, Cause.StoreAccess, Cause.IllegalInstruction}

Irq == [S_SOFT |-> 1, S_TIMER |-> 5, S_EXT |-> 9, VS_SOFT |-> 2,
        VS_TIMER |-> 6, VS_EXT |-> 10, M_TIMER |-> 7]

Init == /\ mode = "M"
        /\ vector = [M |-> "none", HS |-> "none", VS |-> "none"]
        /\ medeleg = {} /\ mideleg = {} /\ hedeleg = {} /\ hideleg = {}
        /\ enabled = {} /\ taken = {}

-----------------------------------------------------------------------------
(* The steps of the start, in their order.                                 *)
sbi_trap_init ==
  /\ mode = "M" /\ vector["M"] = "none"
  /\ vector' = [vector EXCEPT !["M"] = "sbi_exception_vector"]
  /\ UNCHANGED <<mode, medeleg, mideleg, hedeleg, hideleg, enabled, taken>>

(* Mutant: the guest's ecall stays with the firmware.                      *)
X_delegate_traps ==
  /\ mode = "M" /\ vector["M"] # "none" /\ medeleg = {}
  /\ mideleg' = {Irq.S_SOFT, Irq.S_TIMER, Irq.S_EXT}
  /\ medeleg' = Faults \cup GuestFaults
  /\ UNCHANGED <<mode, vector, hedeleg, hideleg, enabled, taken>>

delegate_traps ==
  /\ mode = "M" /\ vector["M"] # "none" /\ medeleg = {}
  /\ mideleg' = {Irq.S_SOFT, Irq.S_TIMER, Irq.S_EXT}
  /\ medeleg' = Faults \cup GuestFaults \cup {Cause.VirtualEcall}
  /\ UNCHANGED <<mode, vector, hedeleg, hideleg, enabled, taken>>

(* The end of sbi_main: stvec still leads to the start of the kernel.      *)
Mret == /\ mode = "M" /\ medeleg # {}
        /\ mode' = "S"
        /\ vector' = [vector EXCEPT !["HS"] = "FW_JUMP_ADDR"]
        /\ UNCHANGED <<medeleg, mideleg, hedeleg, hideleg, enabled, taken>>

trap_init ==
  /\ mode = "S" /\ vector["HS"] = "FW_JUMP_ADDR" /\ taken = {}
  /\ hedeleg' = Faults
  /\ hideleg' = {Irq.VS_SOFT, Irq.VS_TIMER, Irq.VS_EXT}
  /\ vector' = [vector EXCEPT !["HS"] = "do_exception_vector"]
  /\ UNCHANGED <<mode, medeleg, mideleg, enabled, taken>>

(* timer_init arms the firmware's timer, which enables its interrupt.      *)
TimerInit == /\ mode = "S" /\ vector["HS"] = "do_exception_vector" /\ enabled = {}
             /\ taken = {}
             /\ enabled' = {"M"}
             /\ UNCHANGED <<mode, vector, medeleg, mideleg, hedeleg, hideleg, taken>>

IrqEnable == /\ mode = "S" /\ enabled = {"M"} /\ taken = {}
             /\ enabled' = {"M", "HS"}
             /\ UNCHANGED <<mode, vector, medeleg, mideleg, hedeleg, hideleg, taken>>

(* A thread goes to user mode or into the guest; the guest sets its vector. *)
EnterUser == /\ mode = "S" /\ "HS" \in enabled /\ taken = {} /\ mode' = "U"
             /\ UNCHANGED <<vector, medeleg, mideleg, hedeleg, hideleg, enabled, taken>>
EnterGuest == /\ mode = "S" /\ "HS" \in enabled /\ taken = {} /\ mode' = "VS"
              /\ UNCHANGED <<vector, medeleg, mideleg, hedeleg, hideleg, enabled, taken>>
vs_trap_init ==
  /\ mode = "VS" /\ vector["VS"] = "none" /\ taken = {}
  /\ vector' = [vector EXCEPT !["VS"] = "vs_exception_vector"]
  /\ enabled' = enabled \cup {"VS"}
  /\ UNCHANGED <<mode, medeleg, mideleg, hedeleg, hideleg, taken>>

-----------------------------------------------------------------------------
(* What can happen to a program: any fault of its mode, its ecall, and the
   interrupts that something in the machine raises.                        *)
Exceptions(m) ==
  (Faults \ {Cause.UserEcall})
  \cup {Cause.FetchAccess, Cause.MisalignedLoad, Cause.MisalignedStore}
  \cup (CASE m = "U" -> {Cause.UserEcall}
          [] m = "S" -> {Cause.SupervisorEcall}
          [] m = "VS" -> {Cause.VirtualEcall, Cause.VirtualInst} \cup GuestFaults
          [] OTHER -> {})
Interrupts(m) ==
  (IF "M" \in enabled THEN {Irq.M_TIMER} ELSE {})
  \cup (IF "HS" \in enabled THEN {Irq.S_TIMER, Irq.S_EXT} ELSE {})
  \cup (IF m = "VS" /\ "VS" \in enabled THEN {Irq.VS_TIMER} ELSE {})

(* The hart: to the firmware, unless it delegates; to the kernel, unless
   the guest runs and the kernel delegates.  The guest's interrupts are
   delegated to the kernel in any case, and reach it under the code of the
   supervisor's.                                                           *)
Level(m, irq, c) ==
  IF c \notin IF irq THEN mideleg \cup {Irq.VS_SOFT, Irq.VS_TIMER, Irq.VS_EXT}
              ELSE medeleg
  THEN "M"
  ELSE IF m = "VS" /\ c \in (IF irq THEN hideleg ELSE hedeleg) THEN "VS" ELSE "HS"
Code(level, irq, c) == IF level = "VS" /\ irq THEN c - 1 ELSE c

(* sbi_trap_handler, do_exception and do_vs_exception: the routine that is
   called, or the cause that is named before the panic.                    *)
Report(cause) == [does |-> "report", cause |-> cause]
Call(routine) == [does |-> routine, cause |-> 0]

(* fault_info has 16 lines; ec_to_fault_info takes the low four bits.      *)
FaultInfo(c) == Report(c % 16)

SbiTrapHandler(irq, c) ==
  CASE irq /\ c = Irq.M_TIMER -> Call("sbi_timer_process")
    [] ~irq /\ c = Cause.SupervisorEcall -> Call("sbi_ecall_handle")
    [] OTHER -> Report(c)
DoException(irq, c) ==
  IF irq
  THEN CASE c = Irq.S_TIMER -> Call("handle_timer_irq")
         [] c = Irq.S_EXT -> Call("plic_handle_irq")
         [] c = Irq.S_SOFT -> Call("nothing")
         [] OTHER -> Report(c)
  ELSE CASE c = Cause.UserEcall -> Call("riscv_svc_handler")
         [] c = Cause.VirtualEcall -> Call("vs_sbi_ecall_handle")
         [] c \in GuestFaults -> Call("stage2_page_fault")
         [] OTHER -> FaultInfo(c)
DoVsException(irq, c) ==
  IF irq THEN IF c = Irq.S_TIMER THEN Call("vs_handle_timer_irq") ELSE Report(c)
  ELSE FaultInfo(c)

Outcome(level, irq, c) ==
  CASE vector[level] = "sbi_exception_vector" -> SbiTrapHandler(irq, c)
    [] vector[level] = "do_exception_vector" -> DoException(irq, c)
    [] vector[level] = "vs_exception_vector" -> DoVsException(irq, c)
    [] OTHER -> Call(vector[level])

Trap == \E irq \in BOOLEAN :
          \E c \in IF irq THEN Interrupts(mode) ELSE Exceptions(mode) :
            LET level == Level(mode, irq, c) IN
            /\ mode # "M" /\ taken = {}
            /\ taken' = {[irq |-> irq, cause |-> c, level |-> level,
                          outcome |-> Outcome(level, irq, Code(level, irq, c))]}
            /\ UNCHANGED <<mode, vector, medeleg, mideleg, hedeleg, hideleg, enabled>>

(* A routine returns to where the trap came from; a panic stops the hart,
   and what follows a trap without a vector is not followed up.            *)
TrapReturn == /\ \E t \in taken : t.outcome.does \notin {"report", "FW_JUMP_ADDR", "none"}
              /\ taken' = {}
              /\ UNCHANGED <<mode, vector, medeleg, mideleg, hedeleg, hideleg, enabled>>

Next == \/ sbi_trap_init \/ delegate_traps \/ Mret \/ trap_init \/ TimerInit
        \/ IrqEnable \/ EnterUser \/ EnterGuest \/ vs_trap_init \/ Trap \/ TrapReturn
Spec == Init /\ [][Next]_vars

-----------------------------------------------------------------------------
(* What the system runs on, whoever wrote the code that serves it.         *)
Service(irq, c) ==
  CASE irq /\ c = Irq.M_TIMER -> "sbi_timer_process"
    [] irq /\ c = Irq.S_TIMER -> "handle_timer_irq"
    [] irq /\ c = Irq.S_EXT -> "plic_handle_irq"
    [] irq /\ c = Irq.VS_TIMER -> "vs_handle_timer_irq"
    [] ~irq /\ c = Cause.SupervisorEcall -> "sbi_ecall_handle"
    [] ~irq /\ c = Cause.UserEcall -> "riscv_svc_handler"
    [] ~irq /\ c = Cause.VirtualEcall -> "vs_sbi_ecall_handle"
    [] ~irq /\ c \in GuestFaults -> "stage2_page_fault"
    [] OTHER -> "report"

(* The three delegations and the three handlers fit together: what the
   system runs on reaches the one routine that serves it, from whatever
   mode and at whatever point of the start; every other fault is reported
   under its own name by a level that is ready, or meets a level that has
   not set its vector yet, the kernel before trap_init (which then starts
   again) or the guest before vs_trap_init.                                *)
TrapsFindHandlers ==
  \A t \in taken :
    LET s == Service(t.irq, t.cause) IN
    IF s # "report" THEN t.outcome.does = s
    ELSE \/ t.outcome = Report(t.cause)
         \/ t.level = "HS" /\ t.outcome.does = "FW_JUMP_ADDR" /\ enabled = {}
         \/ t.level = "VS" /\ t.outcome.does = "none" /\ "VS" \notin enabled
=============================================================================
