-------------------------------- MODULE Irq --------------------------------
(***************************************************************************)
(* Physical interrupts on one CPU and the way back to the guest:           *)
(* do_trap_irq (traps.c) hands an acknowledged line to do_IRQ (irq.c),     *)
(* which runs it under desc->lock: a line with no action is only ended, a  *)
(* line routed to dom0 (IRQ_GUEST) is ended (priority drop), marked        *)
(* IRQ_INPROGRESS and injected, and a host line sets IRQ_PENDING and, unless   *)
(* it is disabled or in progress, runs its handler in a loop with the lock *)
(* dropped and interrupts enabled (spin_unlock_irq), then ends.  Every     *)
(* trap from the guest returns through leave_hypervisor_tail, which runs   *)
(* the pending softirqs with interrupts enabled until, with interrupts     *)
(* disabled, none is pending, and then injects virtual interrupts and      *)
(* returns.                                                                *)
(*                                                                         *)
(* The GIC (gic.c, outside the tree) is the environment: a line is         *)
(* pending, then active from its acknowledge until end() (EOIR and DIR for *)
(* a host line) or, for a guest line, until dom0's EOI, and an active line *)
(* is not delivered again.  Physical interrupts trap to Xen whatever the   *)
(* guest's CPSR.I; in Xen they are taken only with CPSR.I clear.  Xen's    *)
(* frames on the CPU form a stack: the exception return restores the       *)
(* interrupted CPSR.                                                       *)
(***************************************************************************)
EXTENDS Naturals, Sequences

CONSTANTS
  Lines,       \* interrupt lines with a descriptor
  GuestLines,  \* lines routed to dom0 (desc->status & IRQ_GUEST)
  NoAction,    \* lines with no handler (desc->action == NULL)
  Softirqs,    \* softirqs a host handler may raise
  MaxIrqs      \* bound on device interrupts

ASSUME GuestLines \subseteq Lines /\ NoAction \subseteq Lines
ASSUME GuestLines \cap NoAction = {} /\ MaxIrqs \in Nat

VARIABLES
  mode,      \* "guest" or "xen": where the CPU runs
  irqon,     \* in Xen: CPSR.I clear, interrupts enabled
  stack,     \* Xen's frames on the CPU, innermost last: [line, pc, from]
  pend,      \* lines the GIC holds pending
  active,    \* lines acknowledged and not yet deactivated
  status,    \* desc->status: a subset of {"INPROGRESS", "PENDING", "DISABLED"}
  locked,    \* lines whose desc->lock is held
  softirq,   \* softirq_pending(cpu)
  injected,  \* guest lines injected into dom0 and not yet EOIed by it
  n          \* device interrupts so far

vars == <<mode, irqon, stack, pend, active, status, locked, softirq, injected, n>>

\* The frame of leave_hypervisor_tail, below the frames of a trap from the guest.
TailFrame(p) == [line |-> "tail", pc |-> p, from |-> "guest"]

Init ==
  /\ mode = "guest"
  /\ irqon = FALSE
  /\ stack = <<>>
  /\ pend = {}
  /\ active = {}
  /\ status = [l \in Lines |-> {}]
  /\ locked = {}
  /\ softirq = {}
  /\ injected = {}
  /\ n = 0

Top == stack[Len(stack)]
L == Top.line
InXen(p) == mode = "xen" /\ stack # <<>> /\ Top.pc = p
SetPc(p) == stack' = [stack EXCEPT ![Len(stack)].pc = p]

-----------------------------------------------------------------------------
(* The environment: devices, the guest, the GIC and common code. *)

\* A device raises a line at the GIC.
DeviceIrq(l) ==
  /\ n < MaxIrqs /\ l \notin pend
  /\ pend' = pend \cup {l} /\ n' = n + 1
  /\ UNCHANGED <<mode, irqon, stack, active, status, locked, softirq, injected>>

\* A synchronous trap from the guest (a hypercall, a data abort); its
\* handler leaves interrupts as entry.S set them, and returns to the tail.
GuestTrap ==
  /\ mode = "guest"
  /\ mode' = "xen" /\ stack' = <<TailFrame("disable")>> /\ irqon' \in BOOLEAN
  /\ UNCHANGED <<pend, active, status, locked, softirq, injected, n>>

\* dom0 EOIs a line it was given; gic.c's maintenance path deactivates it
\* and clears IRQ_INPROGRESS.
GuestEOI(l) ==
  /\ mode = "guest" /\ l \in injected
  /\ injected' = injected \ {l} /\ active' = active \ {l}
  /\ status' = [status EXCEPT ![l] = @ \ {"INPROGRESS"}]
  /\ UNCHANGED <<mode, irqon, stack, pend, locked, softirq, n>>

\* do_softirq, interrupts enabled: run a pending softirq; when none is
\* left, back to the top of leave_hypervisor_tail's loop.
DoSoftirq ==
  /\ InXen("softirq")
  /\ IF softirq = {}
     THEN SetPc("disable") /\ UNCHANGED softirq
     ELSE \E s \in softirq : softirq' = softirq \ {s} /\ UNCHANGED stack
  /\ UNCHANGED <<mode, irqon, pend, active, status, locked, injected, n>>

-----------------------------------------------------------------------------
(* traps.c and irq.c. *)

\* do_trap_irq / do_trap_fiq: gic_interrupt acknowledges a pending line
\* that is not active and calls do_IRQ; from the guest the return path is
\* leave_hypervisor_tail.  The exception masks interrupts.
TakeIrq(l) ==
  /\ l \in pend \ active
  /\ mode = "guest" \/ irqon
  /\ pend' = pend \ {l} /\ active' = active \cup {l}
  /\ irqon' = FALSE /\ mode' = "xen"
  /\ stack' = IF mode = "guest"
              THEN <<TailFrame("disable"), [line |-> l, pc |-> "lock", from |-> "guest"]>>
              ELSE Append(stack, [line |-> l, pc |-> "lock", from |-> "xen"])
  /\ UNCHANGED <<status, locked, softirq, injected, n>>

\* (Mutant: a line with no action leaves through out_no_end, unended.)
IrqLockNoActionNoEnd ==
  /\ InXen("lock") /\ L \notin locked
  /\ locked' = locked \cup {L}
  /\ CASE L \in NoAction ->
            SetPc("out_no_end") /\ UNCHANGED <<status, injected>>
       [] L \in GuestLines ->
            /\ status' = [status EXCEPT ![L] = @ \cup {"INPROGRESS"}]
            /\ injected' = injected \cup {L}
            /\ SetPc("out_no_end")
       [] OTHER ->
            /\ status' = [status EXCEPT ![L] =
                            IF @ \cap {"DISABLED", "INPROGRESS"} # {}
                            THEN @ \cup {"PENDING"}
                            ELSE @ \cup {"PENDING", "INPROGRESS"}]
            /\ SetPc(IF status[L] \cap {"DISABLED", "INPROGRESS"} # {}
                     THEN "out" ELSE "loop")
            /\ UNCHANGED injected
  /\ UNCHANGED <<mode, irqon, pend, active, softirq, n>>

\* do_IRQ up to its loop: spin_lock(&desc->lock), ack; no action: out; an
\* IRQ_GUEST line: end, IRQ_INPROGRESS, inject into dom0, out_no_end;
\* otherwise IRQ_PENDING, and out if IRQ_DISABLED or IRQ_INPROGRESS, else
\* IRQ_INPROGRESS and the loop.
IrqLock ==
  /\ InXen("lock") /\ L \notin locked
  /\ locked' = locked \cup {L}
  /\ CASE L \in NoAction ->
            SetPc("out") /\ UNCHANGED <<status, injected>>
       [] L \in GuestLines ->
            /\ status' = [status EXCEPT ![L] = @ \cup {"INPROGRESS"}]
            /\ injected' = injected \cup {L}
            /\ SetPc("out_no_end")
       [] OTHER ->
            /\ status' = [status EXCEPT ![L] =
                            IF @ \cap {"DISABLED", "INPROGRESS"} # {}
                            THEN @ \cup {"PENDING"}
                            ELSE @ \cup {"PENDING", "INPROGRESS"}]
            /\ SetPc(IF status[L] \cap {"DISABLED", "INPROGRESS"} # {}
                     THEN "out" ELSE "loop")
            /\ UNCHANGED injected
  /\ UNCHANGED <<mode, irqon, pend, active, softirq, n>>

\* while ( desc->status & IRQ_PENDING ): clear it and spin_unlock_irq;
\* after the loop clear IRQ_INPROGRESS.
IrqLoop ==
  /\ InXen("loop")
  /\ IF "PENDING" \in status[L]
     THEN /\ status' = [status EXCEPT ![L] = @ \ {"PENDING"}]
          /\ locked' = locked \ {L} /\ irqon' = TRUE
          /\ SetPc("handler")
     ELSE /\ status' = [status EXCEPT ![L] = @ \ {"INPROGRESS"}]
          /\ SetPc("out") /\ UNCHANGED <<locked, irqon>>
  /\ UNCHANGED <<mode, pend, active, softirq, injected, n>>

\* action->handler: a host handler (a timer, a UART) may raise softirqs.
IrqHandler ==
  /\ InXen("handler")
  /\ \E S \in SUBSET Softirqs : softirq' = softirq \cup S
  /\ SetPc("relock")
  /\ UNCHANGED <<mode, irqon, pend, active, status, locked, injected, n>>

\* spin_lock_irq(&desc->lock), back to the loop test.
IrqRelock ==
  /\ InXen("relock") /\ L \notin locked
  /\ locked' = locked \cup {L} /\ irqon' = FALSE
  /\ SetPc("loop")
  /\ UNCHANGED <<mode, pend, active, status, softirq, injected, n>>

\* out: desc->handler->end(desc) deactivates a host line.
IrqOut ==
  /\ InXen("out")
  /\ active' = active \ {L}
  /\ SetPc("out_no_end")
  /\ UNCHANGED <<mode, irqon, pend, status, locked, softirq, injected, n>>

\* out_no_end: spin_unlock, irq_exit, and the exception return to the
\* interrupted frame with its CPSR (interrupts were enabled in Xen).
IrqExit ==
  /\ InXen("out_no_end")
  /\ locked' = locked \ {L}
  /\ irqon' = (Top.from = "xen")
  /\ stack' = SubSeq(stack, 1, Len(stack) - 1)
  /\ UNCHANGED <<mode, pend, active, status, softirq, injected, n>>

\* leave_hypervisor_tail: local_irq_disable(); if no softirq is pending,
\* gic_inject() and return to the guest; else local_irq_enable() and
\* do_softirq(), and round again.
\* (Mutant: the test made before interrupts are disabled.)
LeaveDisableLate ==
  /\ InXen("disable")
  /\ SetPc("check")
  /\ UNCHANGED <<mode, irqon, pend, active, status, locked, softirq, injected, n>>

LeaveDisable ==
  /\ InXen("disable")
  /\ irqon' = FALSE /\ SetPc("check")
  /\ UNCHANGED <<mode, pend, active, status, locked, softirq, injected, n>>

\* (Mutant: the softirq test inverted.)
LeaveCheckInverted ==
  /\ InXen("check")
  /\ SetPc(IF softirq # {} THEN "inject" ELSE "enable")
  /\ UNCHANGED <<mode, irqon, pend, active, status, locked, softirq, injected, n>>

LeaveCheck ==
  /\ InXen("check")
  /\ SetPc(IF softirq = {} THEN "inject" ELSE "enable")
  /\ UNCHANGED <<mode, irqon, pend, active, status, locked, softirq, injected, n>>

LeaveInject ==
  /\ InXen("inject")
  /\ mode' = "guest" /\ stack' = <<>>
  /\ UNCHANGED <<irqon, pend, active, status, locked, softirq, injected, n>>

LeaveEnable ==
  /\ InXen("enable")
  /\ irqon' = TRUE /\ SetPc("softirq")
  /\ UNCHANGED <<mode, pend, active, status, locked, softirq, injected, n>>

-----------------------------------------------------------------------------

\* The step of Xen's code on the CPU: its innermost frame.
XenStep ==
  \/ IrqLock \/ IrqLoop \/ IrqHandler \/ IrqRelock \/ IrqOut \/ IrqExit
  \/ LeaveDisable \/ LeaveCheck \/ LeaveInject \/ LeaveEnable \/ DoSoftirq

Next ==
  \/ XenStep
  \/ \E l \in Lines : DeviceIrq(l) \/ TakeIrq(l) \/ GuestEOI(l)
  \/ GuestTrap

\* Xen's code on the CPU keeps running; the GIC delivers an interrupt the
\* CPU can take; the guest need not trap or EOI.
Spec ==
  /\ Init /\ [][Next]_vars
  /\ WF_vars(XenStep)
  /\ \A l \in Lines : WF_vars(TakeIrq(l))

-----------------------------------------------------------------------------
(* Properties. *)

Pcs == {"lock", "loop", "handler", "relock", "out", "out_no_end",
        "disable", "check", "inject", "enable", "softirq"}

\* The variables keep their types.
TypeOK ==
  /\ mode \in {"guest", "xen"} /\ irqon \in BOOLEAN
  /\ stack \in Seq([line : Lines \cup {"tail"}, pc : Pcs, from : {"guest", "xen"}])
  /\ pend \subseteq Lines /\ active \subseteq Lines /\ locked \subseteq Lines
  /\ status \in [Lines -> SUBSET {"INPROGRESS", "PENDING", "DISABLED"}]
  /\ softirq \subseteq Softirqs /\ injected \subseteq GuestLines
  /\ n \in 0 .. MaxIrqs

\* leave_hypervisor_tail returns to the guest only with no softirq
\* pending: a softirq raised by an interrupt taken while the tail runs
\* (between its test and the return, or in do_softirq) is run before the
\* guest resumes, not left until the next trap.
EntersGuestWithNoSoftirq ==
  [][mode = "xen" /\ mode' = "guest" => softirq' = {}]_vars

\* A host line do_IRQ acknowledges is ended, however interrupts nest in
\* the handler loop (spin_unlock_irq) and in do_softirq: the GIC gets its
\* EOI and the line can be delivered again.
HostLineEnded ==
  \A l \in Lines \ GuestLines : l \in active ~> l \notin active

\* Every entry into Xen, from an interrupt or a trap, returns to the
\* guest: the tail's loop and do_IRQ's loop end once devices stop
\* interrupting.
ReturnsToGuest == mode = "xen" ~> mode = "guest"
====
