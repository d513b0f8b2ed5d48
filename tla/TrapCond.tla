------------------------------ MODULE TrapCond ------------------------------
(***************************************************************************)
(* Synchronous traps of one vCPU of a 32-bit guest, xen/arch/arm/traps.c:  *)
(* do_trap_hypervisor's dispatch on the exception class, the               *)
(* conditional-instruction filter (check_conditional_instr, cc_map), the   *)
(* PC and ITSTATE advance (advance_pc), and the handlers that use them:    *)
(* WFI/WFE, the CP15 emulation, trapped SMCs (smc.c) and guest data aborts.*)
(*                                                                         *)
(* The code is written as it computes, on the 32-bit CPSR, with the bit    *)
(* operators of Bitwise.  TLC's integers are signed 32-bit, so the CPSR is *)
(* held as its flags CPSR[31:28] (nzcv) and the word below them (low);     *)
(* every mask the code applies lies inside one of the two.  Beside it is the architecture (ARM DDI 0406C     *)
(* A2.5.2, A8.3): the CPSR layout, ConditionPassed and ITAdvance, written  *)
(* with arithmetic on fields.  The guest executes IT instructions and      *)
(* ordinary instructions under the architecture, and trapping ones that    *)
(* the handler must finish exactly as the processor would have.            *)
(***************************************************************************)
EXTENDS Integers, Bitwise

CONSTANTS
  Modes,      \* instruction sets the guest runs in: subset of {"arm", "thumb"}
  Conds,      \* condition fields of the guest's ARM-state instructions
  NZCVs,      \* flag values the guest's ordinary instructions may set
  ITBlocks,   \* <<firstcond, mask>> of the guest's IT instructions
  Bounds,     \* per instruction set: [ecs, regs, instrs], the exception classes
              \* its instructions trap with, the 32-bit CP15 registers they
              \* access, and the bound on the number of guest instructions
  NoTrap      \* no trap being handled

\* Exception classes (asm-arm/processor.h).
HSR_EC_UNKNOWN          == 0
HSR_EC_WFI_WFE          == 1
HSR_EC_CP15_32          == 3
HSR_EC_CP15_64          == 4
HSR_EC_SMC32            == 19
HSR_EC_DATA_ABORT_GUEST == 36

\* CPSR bits (asm-arm/processor.h).
PSR_THUMB    == 32
PSR_MODE_SVC == 19
PSR_IT_MASK  == 100727808     \* 0x0600fc00: CPSR[26:25] and CPSR[15:10]
LOW_MASK     == 268435455     \* 0x0fffffff: CPSR[27:0]

ASSUME Modes \subseteq {"arm", "thumb"} /\ Conds \subseteq 0 .. 14
ASSUME NZCVs \subseteq 0 .. 15 /\ Modes \subseteq DOMAIN Bounds
ASSUME \A b \in ITBlocks : b[1] \in 0 .. 14 /\ b[2] \in 1 .. 15
                          /\ (b[1] = 14 => b[2] = 8)

VARIABLES
  cpsr,   \* regs->cpsr: [nzcv |-> CPSR[31:28], low |-> CPSR[27:0]]
  pc,     \* regs->pc: the preferred return address of the trap
  hsr,    \* the syndrome of the trap being handled, or NoTrap
  vcpu,   \* "running", "blocked" (vcpu_block), "crashed" (domain crash),
          \* "panic" (host panic) or "hung" (do_unexpected_trap spins)
  rt,     \* what the guest's transfer register holds
  arch,   \* the architecture: CPSR and PC the trapped instruction leaves
  done,   \* the last trap: did its condition pass, did Xen perform it
  n       \* guest instructions executed

vars == <<cpsr, pc, hsr, vcpu, rt, arch, done, n>>

-----------------------------------------------------------------------------
(* The architecture, written from the ARM ARM with arithmetic on fields. *)

\* ITSTATE[7:2] is CPSR[15:10], ITSTATE[1:0] is CPSR[26:25].
ITOf(p) == ((p.low \div 2^10) % 64) * 4 + ((p.low \div 2^25) % 4)

WithIT(p, it) ==
  [p EXCEPT !.low = p.low - ((p.low \div 2^10) % 64) * 2^10
                          - ((p.low \div 2^25) % 4) * 2^25
                          + (it \div 4) * 2^10 + (it % 4) * 2^25]

FlagsOf(p) == p.nzcv
WithFlags(p, f) == [p EXCEPT !.nzcv = f]

IsThumb(p) == (p.low \div 32) % 2 = 1

\* ConditionPassed (A8.3.1) for a condition and flags NZCV.
ConditionPassed(c, f) ==
  LET N == (f \div 8) % 2 = 1
      Z == (f \div 4) % 2 = 1
      C == (f \div 2) % 2 = 1
      V == f % 2 = 1
      base == CASE c \div 2 = 0 -> Z
                [] c \div 2 = 1 -> C
                [] c \div 2 = 2 -> N
                [] c \div 2 = 3 -> V
                [] c \div 2 = 4 -> C /\ ~Z
                [] c \div 2 = 5 -> N = V
                [] c \div 2 = 6 -> N = V /\ ~Z
                [] c \div 2 = 7 -> TRUE
  IN IF c % 2 = 1 /\ c # 15 THEN ~base ELSE base

\* ITAdvance (A2.5.2): close the block after its last instruction, else
\* shift ITSTATE[4:0] left.
ITAdvance(it) ==
  IF it % 8 = 0 THEN 0 ELSE (it \div 32) * 32 + ((it % 16) * 2)

\* CurrentCond in Thumb state: ITSTATE[7:4] inside an IT block, else AL.
CurrentCond(it) == IF it = 0 THEN 14 ELSE it \div 16


\* The processor modes (B1.3.1, CPSR.M) a guest can be in, and the core
\* register a name R0-R15 denotes in each (B1.3.2, Table B1-2): a register
\* is <<bank, number>>, the bank named by the mode that owns the copy.
PSR_MODE_USR == 16
PSR_MODE_FIQ == 17
PSR_MODE_IRQ == 18
PSR_MODE_MON == 22
PSR_MODE_ABT == 23
PSR_MODE_HYP == 26
PSR_MODE_UND == 27
PSR_MODE_SYS == 31
GuestModes == {PSR_MODE_USR, PSR_MODE_FIQ, PSR_MODE_IRQ, PSR_MODE_SVC,
               PSR_MODE_ABT, PSR_MODE_UND, PSR_MODE_SYS}
CoreReg(m, r) ==
  IF \/ r \in 8 .. 12 /\ m = PSR_MODE_FIQ
     \/ r \in 13 .. 14 /\ m \notin {PSR_MODE_USR, PSR_MODE_SYS}
  THEN <<m, r>> ELSE <<PSR_MODE_USR, r>>
-----------------------------------------------------------------------------
(* The code. *)

\* cc_map: for each condition, bit NZCV is set iff the condition passes.
CcMapTable == <<61680, 3855, 52428, 13107, 65280, 255, 43690, 21845,
                3084, 62451, 43605, 21930, 2565, 62970, 65535, 0>>
\* select_user_reg on a 32-bit guest frame: the register a 4-bit register
\* field of a syndrome names in the mode of regs->cpsr, as a field of
\* struct cpu_user_regs and the offset the code adds to its address, or
\* BUG.  FieldReg is the core register each field holds; the BUILD_BUG_ONs
\* keep r0-r7, r8-r12, r8_fiq-r12_fiq and each sp_X, lr_X pair contiguous.
BUG == [field |-> "BUG", off |-> 0]
Slot(f, o) == [field |-> f, off |-> o]
FieldReg == [r0 |-> <<PSR_MODE_USR, 0>>, r8 |-> <<PSR_MODE_USR, 8>>,
             r8_fiq |-> <<PSR_MODE_FIQ, 8>>, sp_usr |-> <<PSR_MODE_USR, 13>>,
             lr |-> <<PSR_MODE_USR, 14>>, sp_fiq |-> <<PSR_MODE_FIQ, 13>>,
             sp_irq |-> <<PSR_MODE_IRQ, 13>>, sp_svc |-> <<PSR_MODE_SVC, 13>>,
             sp_abt |-> <<PSR_MODE_ABT, 13>>, sp_und |-> <<PSR_MODE_UND, 13>>,
             pc |-> <<PSR_MODE_USR, 15>>]
fiq_mode(p) == (p.low & 31) = PSR_MODE_FIQ
BankedSpLr(p, reg) ==
  CASE (p.low & 31) \in {PSR_MODE_USR, PSR_MODE_SYS} ->
         IF reg = 13 THEN Slot("sp_usr", 0) ELSE Slot("lr", 0)
    [] (p.low & 31) = PSR_MODE_FIQ -> Slot("sp_fiq", reg - 13)
    [] (p.low & 31) = PSR_MODE_IRQ -> Slot("sp_irq", reg - 13)
    [] (p.low & 31) = PSR_MODE_SVC -> Slot("sp_svc", reg - 13)
    [] (p.low & 31) = PSR_MODE_ABT -> Slot("sp_abt", reg - 13)
    [] (p.low & 31) = PSR_MODE_UND -> Slot("sp_und", reg - 13)
    [] OTHER -> BUG
\* (Mutant: the FIQ bank of r8-r12 forgotten.)
select_user_reg_no_fiq(p, reg) ==
  CASE reg \in 0 .. 7   -> Slot("r0", reg)
    [] reg \in 8 .. 12  -> Slot("r8", reg - 8)
    [] reg \in 13 .. 14 -> BankedSpLr(p, reg)
    [] reg = 15         -> Slot("pc", 0)
    [] OTHER            -> BUG
select_user_reg(p, reg) ==
  CASE reg \in 0 .. 7   -> Slot("r0", reg)
    [] reg \in 8 .. 12  -> IF fiq_mode(p) THEN Slot("r8_fiq", reg - 8)
                                         ELSE Slot("r8", reg - 8)
    [] reg \in 13 .. 14 -> BankedSpLr(p, reg)
    [] reg = 15         -> Slot("pc", 0)
    [] OTHER            -> BUG
SelectedReg(x) ==
  IF x = BUG THEN <<0, -1>> ELSE <<FieldReg[x.field][1], FieldReg[x.field][2] + x.off>>

\* (Mutant: LS written as the complement of GT rather than of HI.)
cc_map_ls_typo(cond) ==
  IF cond = 9 THEN 62970 ELSE CcMapTable[cond + 1]
cc_map(cond) == CcMapTable[cond + 1]

\* check_conditional_instr: 1 if the trapped instruction is to be
\* emulated, 0 if its condition failed.
check_conditional_instr(p, h) ==
  LET cond0 == IF h.ccvalid THEN h.cc ELSE -1
      it    == (shiftR(p.low, 8) & 252) | (shiftR(p.low, 25) & 3)
      cond  == IF cond0 < 0 THEN shiftR(it, 4) ELSE cond0
  IN  IF h.ec >= 16 THEN 1
      ELSE IF cond0 = 14 THEN 1
      ELSE IF cond0 < 0 /\ it = 0 THEN 1
      ELSE IF (shiftR(cc_map(cond), p.nzcv) & 1) = 0 THEN 0
      ELSE 1

\* (Mutants: the block closed when ITSTATE[3:0] is zero; ITSTATE[1:0]
\* written one bit too high.)
advance_pc_close4(p, pc0, h) ==
  LET w      == p.low
      cond   == shiftR(w & 57344, 13)
      it0    == shiftR(w & 7168, 8) | shiftR(w & 100663296, 25)
      close  == (it0 & 15) = 0
      itbits == IF close THEN 0 ELSE (it0 * 2) & 31
      cond1  == IF close THEN 0 ELSE cond
      w1     == (((w & (LOW_MASK - PSR_IT_MASK)) | (cond1 * 2^13))
                   | ((itbits & 28) * 2^8)) | ((itbits & 3) * 2^25)
  IN  [cpsr |-> IF (w & PSR_IT_MASK) # 0 THEN [p EXCEPT !.low = w1] ELSE p,
       pc   |-> pc0 + IF h.len = 1 THEN 4 ELSE 2]
advance_pc_shift26(p, pc0, h) ==
  LET w      == p.low
      cond   == shiftR(w & 57344, 13)
      it0    == shiftR(w & 7168, 8) | shiftR(w & 100663296, 25)
      close  == (it0 & 7) = 0
      itbits == IF close THEN 0 ELSE (it0 * 2) & 31
      cond1  == IF close THEN 0 ELSE cond
      w1     == (((w & (LOW_MASK - PSR_IT_MASK)) | (cond1 * 2^13))
                   | ((itbits & 28) * 2^8)) | ((itbits & 3) * 2^26)
  IN  [cpsr |-> IF (w & PSR_IT_MASK) # 0 THEN [p EXCEPT !.low = w1] ELSE p,
       pc   |-> pc0 + IF h.len = 1 THEN 4 ELSE 2]
\* advance_pc: step the IT state machine if an IT block is active, and
\* the PC by the instruction length.
advance_pc(p, pc0, h) ==
  LET w      == p.low
      cond   == shiftR(w & 57344, 13)                          \* 0xe000
      it0    == shiftR(w & 7168, 8) | shiftR(w & 100663296, 25) \* 0x1c00, 3 << 25
      close  == (it0 & 7) = 0
      itbits == IF close THEN 0 ELSE (it0 * 2) & 31
      cond1  == IF close THEN 0 ELSE cond
      w1     == (((w & (LOW_MASK - PSR_IT_MASK)) | (cond1 * 2^13))
                   | ((itbits & 28) * 2^8)) | ((itbits & 3) * 2^25)
  IN  [cpsr |-> IF (w & PSR_IT_MASK) # 0 THEN [p EXCEPT !.low = w1] ELSE p,
       pc   |-> pc0 + IF h.len = 1 THEN 4 ELSE 2]

-----------------------------------------------------------------------------
Classes == {HSR_EC_WFI_WFE, HSR_EC_CP15_32, HSR_EC_CP15_64, HSR_EC_SMC32,
            HSR_EC_DATA_ABORT_GUEST}

\* The syndrome fields the handlers read: class, IL, CV and COND, the CP15
\* register encoding and direction, and the data-abort ISS bits.
Syndromes == [ec : UNION {Bounds[m].ecs : m \in Modes}, len : {0, 1},
              ccvalid : BOOLEAN, cc : 0 .. 15,
              reg : UNION {Bounds[m].regs : m \in Modes} \cup {"CNTPCT", "none"},
              read : BOOLEAN,
              s1ptw : BOOLEAN, valid : BOOLEAN]

Init ==
  /\ \E f \in 0 .. 15, m \in Modes :
       cpsr = [nzcv |-> f,
               low |-> (IF m = "thumb" THEN PSR_THUMB ELSE 0) + PSR_MODE_SVC]
  /\ pc = 0
  /\ hsr = NoTrap
  /\ vcpu = "running"
  /\ rt = "old"
  /\ arch = [cpsr |-> cpsr, pc |-> pc]
  /\ done = [passed |-> TRUE, performed |-> TRUE]
  /\ n = 0

\* The bounds of the guest's current instruction set.
ECs      == Bounds[IF IsThumb(cpsr) THEN "thumb" ELSE "arm"].ecs
CP32Regs == Bounds[IF IsThumb(cpsr) THEN "thumb" ELSE "arm"].regs
MaxInstr == Bounds[IF IsThumb(cpsr) THEN "thumb" ELSE "arm"].instrs

\* The guest may run an instruction.
Executing == vcpu = "running" /\ hsr = NoTrap /\ n < MaxInstr

\* The condition of the next instruction: its own field in ARM state, the
\* IT state's in Thumb state.
InstrCond(c) == IF IsThumb(cpsr) THEN CurrentCond(ITOf(cpsr)) ELSE c
InstrConds == IF IsThumb(cpsr) THEN {14} ELSE Conds

(* The guest, under the architecture: an IT instruction outside a block  *)
(* opens one; an ordinary instruction sets the flags if its condition     *)
(* passes and steps the IT state.                                         *)
GuestIT(b) ==
  /\ Executing
  /\ IsThumb(cpsr) /\ ITOf(cpsr) = 0
  /\ cpsr' = WithIT(cpsr, b[1] * 16 + b[2])
  /\ pc' = pc + 2
  /\ arch' = [cpsr |-> cpsr', pc |-> pc']
  /\ n' = n + 1
  /\ UNCHANGED <<hsr, vcpu, rt, done>>

GuestInstr(c, f) ==
  LET ok == ConditionPassed(InstrCond(c), FlagsOf(cpsr))
  IN
  /\ Executing
  /\ cpsr' = WithIT(WithFlags(cpsr, IF ok THEN f ELSE FlagsOf(cpsr)),
                    ITAdvance(ITOf(cpsr)))
  /\ pc' = pc + (IF IsThumb(cpsr) THEN 2 ELSE 4)
  /\ arch' = [cpsr |-> cpsr', pc |-> pc']
  /\ n' = n + 1
  /\ UNCHANGED <<hsr, vcpu, rt, done>>

(* An instruction traps to Hyp mode.  The hardware fills the syndrome:   *)
(* COND is the instruction's condition when CV is 1; CV is 1 in ARM      *)
(* state and may be 0 for Thumb; a conditional instruction whose         *)
(* condition fails may trap too (IMPLEMENTATION DEFINED), except that    *)
(* a failing load never aborts and a failing SMC is not taken.  arch     *)
(* records what the processor would leave had it executed the           *)
(* instruction itself.                                                   *)
TakeTrap(h, c) ==
  LET cond   == InstrCond(c)
      passed == ConditionPassed(cond, FlagsOf(cpsr))
      ilen   == IF h.len = 1 THEN 4 ELSE 2
  IN
  /\ Executing
  /\ h.ccvalid => h.cc = cond
  /\ ~h.ccvalid => h.cc = 0 /\ IsThumb(cpsr)
  /\ ~IsThumb(cpsr) => h.len = 1
  /\ h.ec # HSR_EC_WFI_WFE => h.len = 1
  /\ (h.reg \in CP32Regs) = (h.ec = HSR_EC_CP15_32)
  /\ (h.reg = "CNTPCT") = (h.ec = HSR_EC_CP15_64)
  /\ h.ec \notin {HSR_EC_CP15_32, HSR_EC_CP15_64} => h.read
  /\ h.ec # HSR_EC_DATA_ABORT_GUEST => ~h.s1ptw /\ h.valid
  /\ h.ec \in {HSR_EC_SMC32, HSR_EC_DATA_ABORT_GUEST} => passed
  /\ hsr' = h
  /\ arch' = [cpsr |-> WithIT(cpsr, ITAdvance(ITOf(cpsr))), pc |-> pc + ilen]
  /\ done' = [passed |-> passed, performed |-> FALSE]
  /\ n' = n + 1
  /\ UNCHANGED <<cpsr, pc, vcpu, rt>>

\* An interrupt or event wakes a blocked vCPU (vcpu_unblock).
Wake ==
  /\ vcpu = "blocked"
  /\ vcpu' = "running"
  /\ UNCHANGED <<cpsr, pc, hsr, rt, arch, done, n>>

-----------------------------------------------------------------------------
(***************************************************************************)
(* The handlers.  Each runs to completion on the trapping CPU: either it  *)
(* returns to the guest (advance_pc, or the handler's own PC step), or the *)
(* domain is crashed (domain_crash_synchronous), or the host panics.       *)
(***************************************************************************)
\* The regs update of advance_pc.
Advance ==
  LET a == advance_pc(cpsr, pc, hsr) IN cpsr' = a.cpsr /\ pc' = a.pc

\* Return to the guest.
Resume(rt1) == hsr' = NoTrap /\ rt' = rt1

Performed == done' = [done EXCEPT !.performed = TRUE]

\* domain_crash_synchronous: the guest is dead, its registers untouched.
Crash ==
  /\ vcpu' = "crashed" /\ hsr' = NoTrap
  /\ UNCHANGED <<cpsr, pc, rt>>
  /\ Performed

\* panic(): the unhandled CP15 encodings.
Panic ==
  /\ vcpu' = "panic" /\ hsr' = NoTrap
  /\ UNCHANGED <<cpsr, pc, rt>>
  /\ Performed

\* The filter every conditional handler starts with: on a failed
\* condition, only advance_pc and return.
Conditional(Body) ==
  IF check_conditional_instr(cpsr, hsr) = 0
  THEN Advance /\ Resume(rt) /\ UNCHANGED <<vcpu, done>>
  ELSE Body

(* HSR_EC_WFI_WFE: block the vCPU; if an interrupt is already pending     *)
(* (local_events_need_delivery_nomask) unblock it at once; advance_pc.    *)
do_trap_wfi ==
  \E pending \in BOOLEAN :
    /\ vcpu' = IF pending THEN "running" ELSE "blocked"
    /\ Advance /\ Resume(rt) /\ Performed

(* do_cp15_32: the switch over the register encoding.  vtimer_emulate    *)
(* (vtimer.c) may fail, which crashes the domain.                         *)
do_cp15_32 ==
  LET h == hsr IN
  /\ \/ /\ h.reg \in {"CLIDR", "CCSIDR"} /\ h.read
        /\ Advance /\ Resume(h.reg) /\ Performed /\ UNCHANGED vcpu
     \/ /\ h.reg \in {"CLIDR", "CCSIDR"} /\ ~h.read
        /\ Crash
     \/ /\ h.reg = "DCCISW" /\ h.read
        /\ Crash
     \/ /\ h.reg = "DCCISW" /\ ~h.read
        /\ Advance /\ Resume(rt) /\ Performed /\ UNCHANGED vcpu
     \/ /\ h.reg \in {"CNTP_CTL", "CNTP_TVAL"}
        /\ Advance /\ Resume(IF h.read THEN "timer" ELSE rt) /\ Performed
        /\ UNCHANGED vcpu
     \/ /\ h.reg \in {"CNTP_CTL", "CNTP_TVAL"}
        /\ Crash
     \/ /\ h.reg = "ACTLR"
        /\ Advance /\ Resume(IF h.read THEN "ACTLR" ELSE rt) /\ Performed
        /\ UNCHANGED vcpu
     \/ /\ h.reg = "other"
        /\ Panic

\* do_cp15_64: CNTPCT goes to vtimer_emulate.
do_cp15_64 ==
  \/ Advance /\ Resume(IF hsr.read THEN "timer" ELSE rt) /\ Performed
     /\ UNCHANGED vcpu
  \/ Crash

(* handle_smc (smc.c): forward the call to the secure monitor, then step *)
(* regs->pc by 4 or 2.  It always returns 1.                              *)
handle_smc ==
  /\ pc' = pc + IF hsr.len = 1 THEN 4 ELSE 2
  /\ UNCHANGED <<cpsr, vcpu>>
  /\ Resume(rt) /\ Performed

(* do_trap_data_abort_guest: a stage-1 walk fault, a failed gva_to_ipa,   *)
(* an invalid ISS or an address no MMIO handler claims crashes the        *)
(* domain; a handled access advances the PC.                              *)
do_trap_data_abort_guest ==
  LET h == hsr IN
  \/ h.s1ptw /\ Crash
  \/ ~h.s1ptw /\ ~h.valid /\ Crash
  \/ ~h.s1ptw /\ h.valid /\ Crash
  \/ /\ ~h.s1ptw /\ h.valid
     /\ Advance /\ Resume(rt) /\ Performed /\ UNCHANGED vcpu

\* do_unexpected_trap: print and spin forever.
do_unexpected_trap ==
  /\ vcpu' = "hung" /\ hsr' = NoTrap
  /\ UNCHANGED <<cpsr, pc, rt, done>>

\* do_trap_hypervisor: dispatch on HSR.EC (32-bit guest: is_pv32_domain).
do_trap_hypervisor ==
  /\ hsr # NoTrap
  /\ \/ hsr.ec = HSR_EC_WFI_WFE /\ Conditional(do_trap_wfi)
     \/ hsr.ec = HSR_EC_CP15_32 /\ Conditional(do_cp15_32)
     \/ hsr.ec = HSR_EC_CP15_64 /\ Conditional(do_cp15_64)
     \/ hsr.ec = HSR_EC_SMC32 /\ handle_smc
     \/ hsr.ec = HSR_EC_DATA_ABORT_GUEST /\ Conditional(do_trap_data_abort_guest)
     \/ hsr.ec \notin Classes /\ do_unexpected_trap
  /\ UNCHANGED <<arch, n>>

-----------------------------------------------------------------------------
\* The syndromes the hardware can report for the next instruction: only
\* the fields of its class vary.
TrapSyndromes(c) ==
  LET cond == InstrCond(c)
      Regs(ec)  == CASE ec = HSR_EC_CP15_32 -> CP32Regs
                     [] ec = HSR_EC_CP15_64 -> {"CNTPCT"}
                     [] OTHER -> {"none"}
      Reads(ec) == IF ec \in {HSR_EC_CP15_32, HSR_EC_CP15_64} THEN BOOLEAN ELSE {TRUE}
      Aborts(ec) == IF ec = HSR_EC_DATA_ABORT_GUEST
                    THEN BOOLEAN \X BOOLEAN ELSE {<<FALSE, TRUE>>}
      Lens(ec)  == IF ec = HSR_EC_WFI_WFE /\ IsThumb(cpsr) THEN {0, 1} ELSE {1}
      CVs       == IF IsThumb(cpsr) THEN BOOLEAN ELSE {TRUE}
  IN
  UNION {{[ec |-> ec, len |-> len, ccvalid |-> cv, cc |-> IF cv THEN cond ELSE 0,
           reg |-> reg, read |-> rd, s1ptw |-> ab[1], valid |-> ab[2]] :
            len \in Lens(ec), cv \in CVs, reg \in Regs(ec), rd \in Reads(ec),
            ab \in Aborts(ec)} : ec \in ECs}

Next ==
  \/ \E b \in ITBlocks : GuestIT(b)
  \/ \E c \in InstrConds, f \in NZCVs : GuestInstr(c, f)
  \/ \E c \in InstrConds : \E h \in TrapSyndromes(c) : TakeTrap(h, c)
  \/ do_trap_hypervisor
  \/ Wake

Spec == Init /\ [][Next]_vars

-----------------------------------------------------------------------------
\* The CPSRs a guest in SVC mode can be in: the T bit and ITSTATE vary.
CPSRs == [nzcv : 0 .. 15,
          low : {PSR_MODE_SVC + t + (it \div 4) * 2^10 + (it % 4) * 2^25 :
                   t \in {0, PSR_THUMB}, it \in 0 .. 255}]

TypeOK ==
  /\ cpsr \in CPSRs
  /\ pc \in Nat
  /\ hsr \in Syndromes \cup {NoTrap}
  /\ vcpu \in {"running", "blocked", "crashed", "panic", "hung"}
  /\ rt \in {"old", "timer", "ACTLR", "CLIDR", "CCSIDR"}
  /\ arch \in [cpsr : CPSRs, pc : Nat]
  /\ done \in [passed : BOOLEAN, performed : BOOLEAN]
  /\ n \in Nat /\ \E m \in Modes : n <= Bounds[m].instrs

(* A trap handled and returned from leaves the guest's CPSR and PC as the *)
(* processor itself would have left them after the instruction: the PC    *)
(* past it and, inside a Thumb IT block, the IT state advanced (closing   *)
(* the block after its last instruction), whatever the handler and       *)
(* whether or not the condition passed.  This is advance_pc's bit-level   *)
(* rewrite of CPSR[26:25,15:10], and the PC step of handle_smc.           *)
TrapResumesArchitecturally ==
  (hsr = NoTrap /\ vcpu \in {"running", "blocked"})
    => cpsr = arch.cpsr /\ pc = arch.pc

(* A trapped instruction is emulated exactly when its condition passes    *)
(* under the flags and, in Thumb state, the IT state: check_conditional_  *)
(* instr's use of CV/COND, of ITSTATE[7:4] and of the cc_map bit patterns *)
(* agrees with the architecture's ConditionPassed for every condition,    *)
(* flag value and IT block.                                               *)
EmulatedIffConditionPassed ==
  (hsr = NoTrap /\ vcpu \in {"running", "blocked", "crashed", "panic"})
    => (done.performed <=> done.passed)

(* The register of the guest's frame that an emulated access reads or     *)
(* writes (select_user_reg, for the CP15, data-abort and hypercall        *)
(* handlers) is the core register R0-R15 names in the guest's mode, with  *)
(* the FIQ copies of R8-R12, the banked SP and LR of FIQ, IRQ, SVC, ABT   *)
(* and UND, and the user SP and LR shared by USR and SYS, for every       *)
(* register field a syndrome can carry.                                   *)
SelectUserRegBanked ==
  \A m \in GuestModes, r \in 0 .. 15 :
    SelectedReg(select_user_reg([nzcv |-> 0, low |-> m], r)) = CoreReg(m, r)

=============================================================================
