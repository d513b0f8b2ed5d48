----------------------------- MODULE Hypercall -----------------------------
(***************************************************************************)
(* The HVC path of a 32-bit guest, xen/arch/arm/traps.c: the HSR_EC_HVC32  *)
(* branch of do_trap_hypervisor, do_debug_trap, do_trap_psci and           *)
(* do_trap_hypercall with the two jump tables.                             *)
(*                                                                         *)
(* Registers are register_t, 32 bits, held as their signed value, so that  *)
(* 0xDEADBEEF and -ENOSYS keep their width; unsigned comparisons are       *)
(* written out.  A hypercall function is an outside collaborator: it      *)
(* returns some value, or (hypercall_create_continuation, domain.c)        *)
(* rewrites the argument registers and r12, moves regs->pc back onto the   *)
(* HVC and returns the new r0.  The guest then re-executes that HVC.       *)
(***************************************************************************)
EXTENDS Integers, Sequences, Bitwise, TLC

CONSTANTS
  Debug,      \* TRUE for a build without NDEBUG
  ISSs,       \* HVC immediates the guest uses
  Nrs,        \* hypercall numbers the guest puts in r12
  R0s,        \* values the guest puts in r0 (also the PSCI function)
  Args,       \* values the guest puts in r1..r4
  RetVals,    \* values a hypercall or PSCI function may return
  ContArgs,   \* argument values a continuation may carry
  ContFns,    \* hypercall functions that may create a continuation
  MaxCalls,   \* bound on the guest's HVC instructions
  NoTrap,     \* no trap being handled
  NoCont      \* no continuation pending

\* From public/arch-arm.h and public/xen.h.
XEN_HYPERCALL_TAG == 3745          \* 0xEA1
ENOSYS == 38
DEADBEEF == -559038737             \* 0xDEADBEEF as a signed 32-bit value

\* Unsigned comparison x >= k of a register with a small non-negative k.
UGE(x, k) == x < 0 \/ x >= k

\* arm_hypercall_table: designated initialisers at the __HYPERVISOR_
\* numbers; the slots in between are {NULL, 0}.
HypercallSlots ==
  (12 :> [fn |-> "memory_op", nr_args |-> 2]) @@
  (36 :> [fn |-> "domctl", nr_args |-> 1]) @@
  (29 :> [fn |-> "sched_op", nr_args |-> 2]) @@
  (18 :> [fn |-> "console_io", nr_args |-> 3]) @@
  (17 :> [fn |-> "xen_version", nr_args |-> 2]) @@
  (32 :> [fn |-> "event_channel_op", nr_args |-> 2]) @@
  (33 :> [fn |-> "physdev_op", nr_args |-> 2]) @@
  (35 :> [fn |-> "sysctl", nr_args |-> 2]) @@
  (34 :> [fn |-> "hvm_op", nr_args |-> 2]) @@
  (20 :> [fn |-> "grant_table_op", nr_args |-> 3]) @@
  (24 :> [fn |-> "vcpu_op", nr_args |-> 3])
NULL == [fn |-> "NULL", nr_args |-> 0]
arm_hypercall_table ==
  [i \in 0 .. 36 |-> IF i \in DOMAIN HypercallSlots THEN HypercallSlots[i] ELSE NULL]
ARRAY_SIZE == 37

\* arm_psci_table: cpu_off at 1, cpu_on at 2, slot 0 (cpu_suspend) NULL.
arm_psci_table == <<[fn |-> "NULL", nr_args |-> 0], [fn |-> "cpu_off", nr_args |-> 1],
                    [fn |-> "cpu_on", nr_args |-> 2]>>
PsciEntry(i) == arm_psci_table[i + 1]
PSCI_ARRAY_SIZE == 3

\* *nr >= ARRAY_SIZE(arm_hypercall_table), or the slot's fn is NULL.
Unimplemented(nr) ==
  IF UGE(nr, ARRAY_SIZE) THEN TRUE ELSE arm_hypercall_table[nr].fn = "NULL"

\* regs->r0 >= ARRAY_SIZE(arm_psci_table), or the slot's fn is NULL.
PsciInvalid(i) ==
  IF UGE(i, PSCI_ARRAY_SIZE) THEN TRUE ELSE PsciEntry(i).fn = "NULL"

Regs == {0, 1, 2, 3, 4, 12}

VARIABLES
  r,        \* regs->r0..r4 and regs->r12
  pc,       \* regs->pc
  hsr,      \* the HVC immediate being handled, or NoTrap
  vcpu,     \* "running", "crashed" (domain_crash_synchronous), "panic"
  hvcpc,    \* address of the guest's last HVC instruction
  hvciss,   \* its immediate
  pre,      \* the registers when that HVC trapped
  last,     \* what the last HVC did: kind, and the call's result
  cont,     \* the continuation the last call created, or NoCont
  n         \* HVC instructions executed

vars == <<r, pc, hsr, vcpu, hvcpc, hvciss, pre, last, cont, n>>

-----------------------------------------------------------------------------
(* The guest. *)

Init ==
  /\ r \in [Regs -> {0}]
  /\ pc = 0
  /\ hsr = NoTrap
  /\ vcpu = "running"
  /\ hvcpc = -4
  /\ hvciss = 0
  /\ pre = r
  /\ last = [kind |-> "none", rv |-> 0, nr |-> 0, args |-> <<>>]
  /\ cont = NoCont
  /\ n = 0

\* The guest loads r0..r4 and r12 and executes HVC #iss at pc.  The
\* preferred return address of an HVC is the next instruction.
GuestHVC(iss, regs) ==
  /\ vcpu = "running" /\ hsr = NoTrap /\ n < MaxCalls
  /\ pc # hvcpc
  /\ r' = regs
  /\ hsr' = iss
  /\ hvcpc' = pc
  /\ hvciss' = iss
  /\ pc' = pc + 4
  /\ pre' = regs
  /\ n' = n + 1
  /\ UNCHANGED <<vcpu, last, cont>>

\* Back at an HVC whose call was continued, the guest executes it again
\* with the registers the continuation left.
GuestReexecute ==
  /\ vcpu = "running" /\ hsr = NoTrap
  /\ pc = hvcpc
  /\ hsr' = hvciss
  /\ pc' = pc + 4
  /\ pre' = r
  /\ UNCHANGED <<r, vcpu, hvcpc, hvciss, last, cont, n>>

-----------------------------------------------------------------------------
(* The code. *)

Crash ==
  /\ vcpu' = "crashed" /\ hsr' = NoTrap
  /\ UNCHANGED <<r, pc, cont>>

\* do_debug_trap: the codes it prints for; any other code panics.
do_debug_trap(code) ==
  \/ /\ (code >= 224 /\ code <= 239) \/ code \in {253, 254, 255}
     /\ hsr' = NoTrap /\ last' = [kind |-> "debug", rv |-> 0, nr |-> 0, args |-> <<>>]
     /\ UNCHANGED <<r, pc, vcpu, cont>>
  \/ /\ ~((code >= 224 /\ code <= 239) \/ code \in {253, 254, 255})
     /\ vcpu' = "panic" /\ hsr' = NoTrap /\ last' = [kind |-> "debug", rv |-> 0, nr |-> 0, args |-> <<>>]
     /\ UNCHANGED <<r, pc, cont>>

\* do_trap_psci: the function index is r0; out of range or NULL crashes.
do_trap_psci ==
  \/ /\ PsciInvalid(r[0])
     /\ Crash /\ last' = [kind |-> "crash", rv |-> 0, nr |-> 0, args |-> <<>>]
  \/ /\ ~PsciInvalid(r[0])
     /\ \E rv \in RetVals :
          /\ r' = [r EXCEPT ![0] = rv]
          /\ last' = [kind |-> "psci", rv |-> rv, nr |-> 0, args |-> <<>>]
     /\ hsr' = NoTrap
     /\ UNCHANGED <<pc, vcpu, cont>>

\* (Mutant: the switch clobbers one register too many.)
ClobberArgsOffByOne(regs, nargs) ==
  [i \in Regs |-> IF (i \in 1 .. 4 /\ i <= nargs) \/ i = 12 THEN DEADBEEF
                  ELSE regs[i]]

\* The debug build's clobbering: ARG2..ARG<nr_args> (r1..r<nr_args-1>),
\* falling through the switch, then *nr.
ClobberArgs(regs, nargs) ==
  [i \in Regs |-> IF (i \in 1 .. 4 /\ i < nargs) \/ i = 12 THEN DEADBEEF
                  ELSE regs[i]]

\* HYPERCALL_ARGS: r0..r4.
HypercallArgs == <<r[0], r[1], r[2], r[3], r[4]>>

\* The call made through the table, and the clobbering after it when
\* regs->pc is where it was (orig_pc).
HypercallInvoke(e, nr) ==
  \/ \E rv \in RetVals :
       /\ r' = IF Debug THEN ClobberArgs([r EXCEPT ![0] = rv], e.nr_args)
                        ELSE [r EXCEPT ![0] = rv]
       /\ last' = [kind |-> "call", rv |-> rv, nr |-> nr, args |-> HypercallArgs]
       /\ cont' = NoCont
       /\ UNCHANGED pc
  \/ /\ e.fn \in ContFns
     /\ \E a \in [1 .. e.nr_args -> ContArgs] :
          LET c == [op |-> nr, args |-> a]
              regs == [i \in Regs |-> IF i = 12 THEN nr
                                      ELSE IF i + 1 <= e.nr_args THEN a[i + 1]
                                      ELSE r[i]]
          IN /\ r' = regs
             /\ pc' = pc - 4
             /\ cont' = c
             /\ last' = [kind |-> "cont", rv |-> regs[0], nr |-> nr,
                          args |-> HypercallArgs]

\* (Mutant: the error code stored without its sign.)
ReturnENOSYSPositive == r' = [r EXCEPT ![0] = ENOSYS]

\* HYPERCALL_RESULT_REG(regs) = -ENOSYS for an unimplemented number.
ReturnENOSYS == r' = [r EXCEPT ![0] = -ENOSYS]

\* do_trap_hypercall: the tag check, the table lookup, the call.
do_trap_hypercall(iss) ==
  LET nr == r[12] IN
  \/ /\ iss # XEN_HYPERCALL_TAG
     /\ Crash /\ last' = [kind |-> "crash", rv |-> 0, nr |-> 0, args |-> <<>>]
  \/ /\ iss = XEN_HYPERCALL_TAG
     /\ Unimplemented(nr)
     /\ ReturnENOSYS
     /\ last' = [kind |-> "enosys", rv |-> -ENOSYS, nr |-> 0, args |-> <<>>]
     /\ hsr' = NoTrap
     /\ UNCHANGED <<pc, vcpu, cont>>
  \/ /\ iss = XEN_HYPERCALL_TAG
     /\ ~Unimplemented(nr)
     /\ HypercallInvoke(arm_hypercall_table[nr], nr)
     /\ hsr' = NoTrap
     /\ UNCHANGED vcpu

\* The HSR_EC_HVC32 branch of do_trap_hypervisor.
do_trap_hvc32 ==
  /\ hsr # NoTrap
  /\ LET iss == hsr
         dbg == Debug /\ (iss & 65280) = 65280      \* 0xff00
     IN \/ dbg /\ do_debug_trap(iss & 255)
        \/ ~dbg /\ iss = 0 /\ do_trap_psci
        \/ ~dbg /\ iss # 0 /\ do_trap_hypercall(iss)
  /\ UNCHANGED <<hvcpc, hvciss, pre, n>>

Next ==
  \/ \E iss \in ISSs, r0 \in R0s, a \in [1 .. 4 -> Args], nr \in Nrs :
       GuestHVC(iss, [i \in Regs |-> IF i = 0 THEN r0 ELSE IF i = 12 THEN nr ELSE a[i]])
  \/ GuestReexecute
  \/ do_trap_hvc32

Spec == Init /\ [][Next]_vars

-----------------------------------------------------------------------------
NrArgs(nr) == IF UGE(nr, ARRAY_SIZE) THEN 0 ELSE arm_hypercall_table[nr].nr_args

Last == [kind : {"none", "debug", "crash", "psci", "enosys", "call", "cont"},
         rv : Int, nr : Int, args : Seq(Int)]

\* What a register can hold: what the guest put there, a call's result, a
\* continuation's argument, -ENOSYS or the clobber pattern.
Values == R0s \cup Args \cup Nrs \cup RetVals \cup ContArgs \cup {-ENOSYS, DEADBEEF}

TypeOK ==
  /\ r \in [Regs -> Values]
  /\ pc \in Nat /\ hvcpc \in Int /\ hvciss \in ISSs \cup {0}
  /\ hsr \in ISSs \cup {NoTrap}
  /\ vcpu \in {"running", "crashed", "panic"}
  /\ pre \in [Regs -> Values]
  /\ last \in Last
  /\ cont \in {NoCont} \cup [op : Nrs, args : Seq(ContArgs)]
  /\ n \in 0 .. MaxCalls

(* Back in the guest after an HVC, the registers are what the call        *)
(* convention promises: an unimplemented number leaves -ENOSYS in r0 and   *)
(* every other register as the guest set it; a completed call leaves its  *)
(* result in r0 and the registers beyond the call's arguments untouched;  *)
(* a continued call leaves the PC on the HVC and r12, r0.. holding the    *)
(* continuation; PSCI leaves its result in r0; a debug trap changes       *)
(* nothing.  This is do_trap_hypercall's early returns, its orig_pc test  *)
(* and the fall-through switch of the debug build's clobbering.           *)
HypercallReturnABI ==
  (hsr = NoTrap /\ vcpu = "running") =>
    CASE last.kind = "enosys" -> pc = hvcpc + 4 /\ r = [pre EXCEPT ![0] = -ENOSYS]
      [] last.kind = "call" ->
           /\ pc = hvcpc + 4 /\ r[0] = last.rv
           /\ \A i \in 1 .. 4 : i >= NrArgs(pre[12]) => r[i] = pre[i]
      [] last.kind = "cont" ->
           /\ pc = hvcpc /\ r[12] = cont.op
           /\ \A k \in DOMAIN cont.args : r[k - 1] = cont.args[k]
      [] last.kind = "psci" -> pc = hvcpc + 4 /\ r = [pre EXCEPT ![0] = last.rv]
      [] last.kind \in {"debug", "none"} -> pc = hvcpc + 4 /\ r = pre

(* spec.md 4.3: in a checked build, the argument registers beyond those   *)
(* the handler consumes are clobbered and the consumed ones are not.      *)
SpecClobbersBeyondConsumed ==
  (Debug /\ hsr = NoTrap /\ last.kind = "call") =>
    \A i \in 1 .. 4 : i < NrArgs(pre[12]) => r[i] = pre[i]

(* spec.md 7: a guest can provoke only recoverable errors and the death   *)
(* of its own context, never a halt of the host.                          *)
GuestCannotPanicHost == vcpu # "panic"
=============================================================================
