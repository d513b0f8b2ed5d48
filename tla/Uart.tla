-------------------------------- MODULE Uart --------------------------------
(***************************************************************************)
(* The 16550 UART driver (drivers/char/ns16550.c) at run time, for the     *)
(* ports the serial core drives asynchronously (irq >= 0): a port with an  *)
(* IRQ line (irq > 0) takes ns16550_interrupt, and every port is polled by *)
(* a timer on CPU 0 (ns16550_poll) until its first interrupt sets          *)
(* intr_works.  Across a system sleep, ns16550_suspend stops the poll      *)
(* timer; ns16550_resume reprograms the port (_ns16550_resume), or, while  *)
(* its I/O ports still read as 0xff, retries from a resume timer on CPU 0  *)
(* under one counter, delayed_resume_tries, that both ports share.         *)
(*                                                                         *)
(* The serial core (serial.c, outside the tree) is the environment: its    *)
(* asynchronous __serial_putc writes a character straight to an idle       *)
(* transmitter and buffers it otherwise, and serial_tx_interrupt moves     *)
(* tx_ready() buffered characters to the UART.  The device is the          *)
(* environment too: the transmitter empties, characters arrive, a sleep    *)
(* resets the registers and may leave the I/O ports undecoded until dom0's *)
(* AML reinitialises the chip.  An undecoded port reads 0xff from every    *)
(* register and drops writes.  Timers on CPU 0 run one at a time in its    *)
(* softirq, which a handler that never returns blocks.                     *)
(***************************************************************************)
EXTENDS Integers

CONSTANTS
  Ports,           \* ns16550_com[] entries the serial core drives
  IrqPorts,        \* ports with an interrupt line (uart->irq > 0)
  FifoSize,        \* uart->fifo_size: 16 on a 16550A, else 1
  RxFifo,          \* characters the receive FIFO holds
  RESUME_RETRIES,  \* delayed_resume_tries at ns16550_resume
  TriesFloor,      \* bound: lowest value the shared counter is followed to
  MaxPuts,         \* bound on characters the console writes
  MaxSleeps        \* bound on system sleeps

ASSUME IrqPorts \subseteq Ports /\ FifoSize \in {1, 16} /\ RxFifo \in Nat \ {0}
ASSUME RESUME_RETRIES \in Nat /\ TriesFloor \in Int /\ TriesFloor < 0

VARIABLES
  hw,          \* the device: [valid, thre, rxn, thri, ier] per port
  intr_works,  \* uart->intr_works
  timer,       \* uart->timer (poll) is pending
  spin,        \* __ns16550_poll is looping on the port, on CPU 0
  rtimer,      \* uart->resume_timer is pending
  phase,       \* "up", "suspended" or "resuming" (a delayed resume pending)
  tries,       \* delayed_resume_tries, shared by the ports
  txq,         \* characters in the serial core's transmit buffer
  delays,      \* resume-timer delays of all ports since the last resume
  waits,       \* resume-timer delays of each port since the last resume
  puts,        \* characters the console has written
  sleeps       \* system sleeps so far

vars == <<hw, intr_works, timer, spin, rtimer, phase, tries, txq, delays,
          waits, puts, sleeps>>

\* The registers after power-on: FIFOs empty, interrupts off.
ResetHw(v) == [valid |-> v, thre |-> TRUE, rxn |-> 0, thri |-> FALSE, ier |-> FALSE]

\* An interrupt is asserted (IIR_NOINT clear): received data, or an empty
\* transmitter the chip has not yet reported, with IER enabling them.
IrqPending(h) == h.valid /\ h.ier /\ (h.rxn > 0 \/ h.thri)

-----------------------------------------------------------------------------
(* Code.                                                                    *)

\* ns16550_tx_ready: LSR.THRE, which an undecoded port (0xff) reports set.
ns16550_tx_ready(p) ==
  IF ~hw[p].valid \/ hw[p].thre THEN FifoSize ELSE 0

\* ns16550_putc: a write to THR starts the transmitter and clears THRI;
\* an undecoded port drops it.
ns16550_putc(h) ==
  IF h.valid THEN [h EXCEPT !.thre = FALSE, !.thri = FALSE] ELSE h

\* The mutant of serial_tx_interrupt that ignores txbufc == txbufp.
TxFlushNoEmptyCheck(p, h) ==
  << ns16550_putc(h), txq[p] - ns16550_tx_ready(p) >>

\* serial_tx_interrupt: up to tx_ready() buffered characters through
\* ns16550_putc, stopping when the buffer is empty.
TxFlush(p, h) ==
  LET k == IF ns16550_tx_ready(p) < txq[p] THEN ns16550_tx_ready(p) ELSE txq[p]
  IN << IF k > 0 THEN ns16550_putc(h) ELSE h, txq[p] - k >>

\* The loop on LSR.DR reads every received character (ns16550_getc).
Drain(h) == IF h.valid THEN [h EXCEPT !.rxn = 0] ELSE h

\* ns16550_setup_preirq: IER cleared, FIFOs cleared (intr_works is reset
\* by the callers' actions).  Writes to an undecoded port are lost.
ns16550_setup_preirq(h) == IF h.valid THEN ResetHw(TRUE) ELSE h

\* ns16550_setup_postirq: for a port with an IRQ line, ERDAI|ETHREI
\* enabled, which with the transmitter empty raises THRI (the poll timer
\* is set by the callers' actions).
ns16550_setup_postirq(p, h) ==
  IF h.valid /\ p \in IrqPorts THEN [h EXCEPT !.ier = TRUE, !.thri = h.thre] ELSE h

\* _ns16550_resume's effect on the registers.
Reprogram(p) == ns16550_setup_postirq(p, ns16550_setup_preirq(hw[p]))

\* ns16550_ioport_invalid: LSR, MCR, IER, IIR and LCR all read 0xff.
ns16550_ioport_invalid(p) == ~hw[p].valid

\* Timers on CPU 0 run only while no poll handler is stuck there.
TimerSoftirqFree == \A q \in Ports : ~spin[q]

(* ns16550_interrupt: sets intr_works, then while IIR reports an         *)
(* interrupt, transmits if LSR.THRE and receives if LSR.DR; reading IIR   *)
(* clears a reported THRI.                                                *)
ns16550_interrupt(p) ==
  LET t == TxFlush(p, Drain([hw[p] EXCEPT !.thri = FALSE]))
  IN
  /\ p \in IrqPorts
  /\ IrqPending(hw[p])
  /\ intr_works' = [intr_works EXCEPT ![p] = TRUE]
  /\ hw' = [hw EXCEPT ![p] = t[1]]
  /\ txq' = [txq EXCEPT ![p] = t[2]]
  /\ UNCHANGED <<timer, spin, rtimer, phase, tries, delays, waits, puts, sleeps>>

\* The mutant that does not set the poll timer again.
PollTailNoRearm(p) ==
  LET t == TxFlush(p, Drain(hw[p]))
  IN
  /\ hw' = [hw EXCEPT ![p] = t[1]]
  /\ txq' = [txq EXCEPT ![p] = t[2]]
  /\ timer' = [timer EXCEPT ![p] = FALSE]

\* The rest of __ns16550_poll once LSR.DR reads clear: transmit if THRE,
\* and set the timer again.
PollTail(p) ==
  LET t == TxFlush(p, Drain(hw[p]))
  IN
  /\ hw' = [hw EXCEPT ![p] = t[1]]
  /\ txq' = [txq EXCEPT ![p] = t[2]]
  /\ timer' = [timer EXCEPT ![p] = TRUE]

(* ns16550_poll: the timer fires.  Once interrupts work it returns and   *)
(* is not set again.  Otherwise it loops while LSR.DR is set, which an    *)
(* undecoded port reports for good.                                      *)
ns16550_poll(p) ==
  /\ timer[p]
  /\ TimerSoftirqFree
  /\ \/ /\ intr_works[p]
        /\ timer' = [timer EXCEPT ![p] = FALSE]
        /\ UNCHANGED <<hw, spin, txq>>
     \/ /\ ~intr_works[p] /\ ~hw[p].valid
        /\ timer' = [timer EXCEPT ![p] = FALSE]
        /\ spin' = [spin EXCEPT ![p] = TRUE]
        /\ UNCHANGED <<hw, txq>>
     \/ /\ ~intr_works[p] /\ hw[p].valid
        /\ PollTail(p)
        /\ UNCHANGED spin
  /\ UNCHANGED <<intr_works, rtimer, phase, tries, delays, waits, puts, sleeps>>

\* The LSR.DR loop of a poll on an undecoded port ends once the port
\* decodes again.
PollLoop(p) ==
  /\ spin[p]
  /\ hw[p].valid
  /\ spin' = [spin EXCEPT ![p] = FALSE]
  /\ PollTail(p)
  /\ UNCHANGED <<intr_works, rtimer, phase, tries, delays, waits, puts, sleeps>>

\* ns16550_suspend for every port (serial_suspend), then the sleep: the
\* chip loses its registers and may come back with its I/O ports undecoded.
ns16550_suspend ==
  /\ sleeps < MaxSleeps
  /\ \A p \in Ports : phase[p] = "up"
  /\ TimerSoftirqFree
  /\ timer' = [p \in Ports |-> FALSE]
  /\ \E v \in [Ports -> BOOLEAN] : hw' = [p \in Ports |-> ResetHw(v[p])]
  /\ phase' = [p \in Ports |-> "suspended"]
  /\ sleeps' = sleeps + 1
  /\ UNCHANGED <<intr_works, spin, rtimer, tries, txq, delays, waits, puts>>

(* ns16550_resume for every port (serial_resume): a port whose registers *)
(* all read 0xff (ns16550_ioport_invalid) gets the resume timer and sets  *)
(* the shared counter to RESUME_RETRIES; any other is reprogrammed by     *)
(* _ns16550_resume, which sets its poll timer again.                      *)
ns16550_resume ==
  LET bad == {p \in Ports : ns16550_ioport_invalid(p)}
  IN
  /\ \A p \in Ports : phase[p] = "suspended"
  /\ tries' = IF bad = {} THEN tries ELSE RESUME_RETRIES
  /\ rtimer' = [p \in Ports |-> p \in bad]
  /\ phase' = [p \in Ports |-> IF p \in bad THEN "resuming" ELSE "up"]
  /\ hw' = [p \in Ports |-> IF p \in bad THEN hw[p] ELSE Reprogram(p)]
  /\ intr_works' = [p \in Ports |-> p \in bad /\ intr_works[p]]
  /\ timer' = [p \in Ports |-> p \notin bad]
  /\ delays' = 0
  /\ waits' = [p \in Ports |-> 0]
  /\ UNCHANGED <<spin, txq, puts, sleeps>>

\* The off-by-one of a pre-decrement: --delayed_resume_tries.
RetryPredec(p) == ns16550_ioport_invalid(p) /\ tries - 1 # 0

\* ns16550_ioport_invalid(uart) && delayed_resume_tries--: the counter is
\* tested before it is decremented, and only when the port is undecoded.
Retry(p) == ns16550_ioport_invalid(p) /\ tries # 0

(* ns16550_delayed_resume: the resume timer fires; it is set again while  *)
(* Retry holds, and otherwise _ns16550_resume runs, decoded or not.       *)
ns16550_delayed_resume(p) ==
  /\ rtimer[p]
  /\ TimerSoftirqFree
  /\ tries' = IF ns16550_ioport_invalid(p) THEN tries - 1 ELSE tries
  /\ \/ /\ Retry(p)
        /\ tries > TriesFloor
        /\ delays' = delays + 1
        /\ waits' = [waits EXCEPT ![p] = @ + 1]
        /\ UNCHANGED <<hw, intr_works, timer, rtimer, phase>>
     \/ /\ ~Retry(p)
        /\ rtimer' = [rtimer EXCEPT ![p] = FALSE]
        /\ hw' = [hw EXCEPT ![p] = Reprogram(p)]
        /\ intr_works' = [intr_works EXCEPT ![p] = FALSE]
        /\ timer' = [timer EXCEPT ![p] = TRUE]
        /\ phase' = [phase EXCEPT ![p] = "up"]
        /\ UNCHANGED <<delays, waits>>
  /\ UNCHANGED <<spin, txq, puts, sleeps>>

-----------------------------------------------------------------------------
(* Environment: the serial core's writer, the device, the sleep's end.    *)

\* __serial_putc, asynchronous: straight to the UART when the buffer is
\* empty and tx_ready() > 0, into the buffer otherwise.
serial_putc(p) ==
  /\ puts < MaxPuts
  /\ puts' = puts + 1
  /\ IF txq[p] = 0 /\ ns16550_tx_ready(p) > 0
     THEN /\ hw' = [hw EXCEPT ![p] = ns16550_putc(hw[p])]
          /\ UNCHANGED txq
     ELSE /\ txq' = [txq EXCEPT ![p] = @ + 1]
          /\ UNCHANGED hw
  /\ UNCHANGED <<intr_works, timer, spin, rtimer, phase, tries, delays, waits, sleeps>>

\* The transmitter empties; with ETHREI enabled the chip reports THRI.
TxDone(p) ==
  /\ hw[p].valid /\ ~hw[p].thre
  /\ hw' = [hw EXCEPT ![p].thre = TRUE, ![p].thri = hw[p].ier]
  /\ UNCHANGED <<intr_works, timer, spin, rtimer, phase, tries, txq, delays,
                 waits, puts, sleeps>>

\* A character arrives in the receive FIFO.
RxChar(p) ==
  /\ hw[p].valid /\ hw[p].rxn < RxFifo
  /\ hw' = [hw EXCEPT ![p].rxn = @ + 1]
  /\ UNCHANGED <<intr_works, timer, spin, rtimer, phase, tries, txq, delays,
                 waits, puts, sleeps>>

\* dom0's AML reinitialises the chip after the sleep: the ports decode.
AmlInit(p) ==
  /\ ~hw[p].valid /\ phase[p] # "suspended"
  /\ hw' = [hw EXCEPT ![p] = ResetHw(TRUE)]
  /\ UNCHANGED <<intr_works, timer, spin, rtimer, phase, tries, txq, delays,
                 waits, puts, sleeps>>

\* After ns16550_init_postirq: the port programmed, its poll timer set,
\* the counter zero (static).
Init ==
  /\ hw = [p \in Ports |-> ns16550_setup_postirq(p, ResetHw(TRUE))]
  /\ intr_works = [p \in Ports |-> FALSE]
  /\ timer = [p \in Ports |-> TRUE]
  /\ spin = [p \in Ports |-> FALSE]
  /\ rtimer = [p \in Ports |-> FALSE]
  /\ phase = [p \in Ports |-> "up"]
  /\ tries = 0
  /\ txq = [p \in Ports |-> 0]
  /\ delays = 0
  /\ waits = [p \in Ports |-> 0]
  /\ puts = 0
  /\ sleeps = 0

Next ==
  \/ \E p \in Ports :
       \/ ns16550_interrupt(p) \/ ns16550_poll(p) \/ PollLoop(p)
       \/ ns16550_delayed_resume(p)
       \/ serial_putc(p) \/ TxDone(p) \/ RxChar(p) \/ AmlInit(p)
  \/ ns16550_suspend
  \/ ns16550_resume

(* The code runs when it can: the GIC delivers an asserted line, timers   *)
(* fire, the transmitter empties and the sleep ends.                      *)
Fairness ==
  /\ WF_vars(ns16550_resume)
  /\ \A p \in Ports :
       /\ WF_vars(ns16550_interrupt(p)) /\ WF_vars(ns16550_poll(p))
       /\ WF_vars(PollLoop(p)) /\ WF_vars(ns16550_delayed_resume(p))
       /\ WF_vars(TxDone(p))

\* dom0 runs its AML in the end, as ns16550_resume waits for it to.
Spec == Init /\ [][Next]_vars /\ Fairness /\ \A p \in Ports : WF_vars(AmlInit(p))

\* No such promise from dom0.
SpecNoAml == Init /\ [][Next]_vars /\ Fairness

-----------------------------------------------------------------------------
(* Properties.                                                              *)

TypeOK ==
  /\ hw \in [Ports -> [valid : BOOLEAN, thre : BOOLEAN, rxn : 0 .. RxFifo,
                       thri : BOOLEAN, ier : BOOLEAN]]
  /\ intr_works \in [Ports -> BOOLEAN]
  /\ timer \in [Ports -> BOOLEAN] /\ spin \in [Ports -> BOOLEAN]
  /\ rtimer \in [Ports -> BOOLEAN]
  /\ phase \in [Ports -> {"up", "suspended", "resuming"}]
  /\ tries \in TriesFloor - 1 .. RESUME_RETRIES
  /\ txq \in [Ports -> 0 .. MaxPuts]
  /\ puts \in 0 .. MaxPuts /\ sleeps \in 0 .. MaxSleeps

(* Every character the console buffers for a port reaches the UART: the   *)
(* poll timer, dropped once ns16550_interrupt has set intr_works, and     *)
(* THRI hand the transmitter over to each other across sleeps, delayed    *)
(* resumes and give-ups, so no buffered output is stranded.               *)
TxDrained == \A p \in Ports : txq[p] > 0 ~> txq[p] = 0

(* ns16550_delayed_resume gives a port up (reprograms it while it still   *)
(* reads 0xff) only after the ports together have waited RESUME_RETRIES   *)
(* resume-timer delays since serial_resume: the counter is tested before  *)
(* its decrement.                                                         *)
SharedRetryBudget ==
  [][\A p \in Ports :
       (phase[p] = "resuming" /\ phase'[p] = "up" /\ ~hw[p].valid)
         => delays >= RESUME_RETRIES]_vars

(* Each port waits RESUME_RETRIES delays for dom0's AML before it is      *)
(* given up, as the comment of ns16550_resume describes.                  *)
PatientResume ==
  [][\A p \in Ports :
       (phase[p] = "resuming" /\ phase'[p] = "up" /\ ~hw[p].valid)
         => waits[p] >= RESUME_RETRIES]_vars
=============================================================================
