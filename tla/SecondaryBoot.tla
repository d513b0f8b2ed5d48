--------------------------- MODULE SecondaryBoot ---------------------------
(***************************************************************************)
(* Bringing up the secondary CPUs of an Exynos5 board on dom0's request.   *)
(*                                                                         *)
(* dom0 powers a core on through the PMU and writes its boot address to    *)
(* the SYSRAM boot register.  The write traps to exynos5_sysram_ns_write   *)
(* (exynos5_mmio.c), which keeps the address in exynos5_boot_addr, puts    *)
(* Xen's own entry point in the register (so the core enters Xen's         *)
(* head.S), and, if exynos5_get_booting_cpu() names the CPU its static     *)
(* counter expects, calls cpu_up(cpu) and increments the counter.          *)
(* cpu_up (common/cpu.c) takes the hotplug lock and calls __cpu_up         *)
(* (smpboot.c), which releases the core through smp_up_cpu and spins until *)
(* it is online.  The core runs start_secondary: it marks itself online,   *)
(* then creates dom0's vCPU of the same number starting at                 *)
(* exynos5_boot_addr, and wakes it.                                        *)
(*                                                                         *)
(* Each handler step is one statement of shared state; dom0's vCPUs that   *)
(* write the register run on different physical CPUs at once.              *)
(***************************************************************************)
EXTENDS Naturals, FiniteSets

CONSTANTS
  NCPU,       \* cores of the board, CPU 0 the boot CPU
  Writers,    \* dom0 vCPUs that write the boot register
  Addrs,      \* boot addresses dom0 writes
  MaxWrites,  \* bound on dom0's writes of the boot register
  PassRegs,   \* other SYSRAM registers dom0 writes: REG0-REG4, REG6, CPUn/GICn_STATE
  None        \* no address, no CPU

CPUs == 0 .. NCPU - 1
Secondaries == CPUs \ {0}

\* exynos5_get_booting_cpu scans 8 power-status words.
NR_PMU_CORES == 8

EINVAL == 22
EBUSY == 16

VARIABLES
  pmu,          \* core powered (S5P_PMU_CORE_CONFIG status == 3)
  sysram,       \* the SYSRAM boot register: None or "xen_start"
  boot_addr,    \* exynos5_boot_addr
  counter,      \* the static cpu of exynos5_sysram_ns_write
  smp_up_cpu,   \* smp_up_cpu
  online,       \* cpu_online_map
  hotplug,      \* holder of cpu_add_remove_lock, or None
  core,         \* per secondary: "off", "head", "start", "online", "idle"
  vcpu,         \* per CPU: dom0's vCPU, [st |-> "down" or "up", pc |-> address]
  h,            \* per writer: the handler's program counter and locals
  intended,     \* per CPU: the boot address of the write that brought it up
  writes,       \* boot-register writes so far
  hw,           \* the SYSRAM registers in PassRegs: what was last written
  directgo,     \* REG7_DIRECTGO_ADDR: [reg |-> the register, addr |-> exynos5_directgo_addr]
  crashed       \* dom0 crashed (domain_crash_synchronous)

vars == <<pmu, sysram, boot_addr, counter, smp_up_cpu, online, hotplug, core,
          vcpu, h, intended, writes, hw, directgo, crashed>>

Init ==
  /\ pmu = [c \in CPUs |-> c = 0]
  /\ sysram = None
  /\ boot_addr = None
  /\ counter = 1
  /\ smp_up_cpu = 0
  /\ online = {0}
  /\ hotplug = None
  /\ core = [c \in Secondaries |-> "off"]
  /\ vcpu = [c \in CPUs |-> IF c = 0 THEN [st |-> "up", pc |-> None]
                                     ELSE [st |-> "down", pc |-> None]]
  /\ h = [w \in Writers |-> [pc |-> "guest", addr |-> None, cpu |-> None, tmp |-> 0]]
  /\ intended = [c \in CPUs |-> None]
  /\ writes = 0
  /\ hw = [r \in PassRegs |-> None]
  /\ directgo = [reg |-> None, addr |-> None]
  /\ crashed = FALSE

\* panic() stops every CPU; so does dom0's crash.
Halted == crashed \/ \E w \in Writers : h[w].pc = "panic"

-----------------------------------------------------------------------------
(* dom0. *)

Running(w) == ~Halted /\ vcpu[w].st = "up" /\ h[w].pc = "guest"

\* dom0 powers a core on through the PMU (the PMU is dom0's).
PowerOn(w, c) ==
  /\ Running(w) /\ ~pmu[c]
  /\ pmu' = [pmu EXCEPT ![c] = TRUE]
  /\ UNCHANGED <<sysram, boot_addr, counter, smp_up_cpu, online, hotplug, core,
                 vcpu, h, intended, writes, hw, directgo, crashed>>

-----------------------------------------------------------------------------
(* exynos5_mmio.c. *)

\* exynos5_get_booting_cpu: one less than the first core that is off; 0
\* if all are on.  Cores past NCPU are not on the board.
IsOn(i) == i < NCPU /\ pmu[i]
exynos5_get_booting_cpu ==
  IF \A i \in 0 .. NR_PMU_CORES - 1 : IsOn(i) THEN 0
  ELSE LET i == CHOOSE j \in 0 .. NR_PMU_CORES - 1 :
                  ~IsOn(j) /\ \A k \in 0 .. j - 1 : IsOn(k)
       IN  i - 1

\* case REG5_BOOT_ADDR, up to the counter check: exynos5_boot_addr = *r,
\* the register gets virt_to_maddr(start).
WriteBootAddr(w, a) ==
  /\ Running(w) /\ writes < MaxWrites
  /\ boot_addr' = a
  /\ sysram' = "xen_start"
  /\ h' = [h EXCEPT ![w] = [pc |-> "check", addr |-> a, cpu |-> None, tmp |-> 0]]
  /\ writes' = writes + 1
  /\ UNCHANGED <<pmu, counter, smp_up_cpu, online, hotplug, core, vcpu, intended, hw, directgo, crashed>>

\* if (exynos5_get_booting_cpu() == cpu): the first read of the static
\* cpu; on a mismatch return 1 to the guest.
CheckBootingCpu(w) ==
  /\ ~Halted
  /\ h[w].pc = "check"
  /\ h' = [h EXCEPT ![w].pc = IF exynos5_get_booting_cpu = counter THEN "cpu_up" ELSE "guest"]
  /\ UNCHANGED <<pmu, sysram, boot_addr, counter, smp_up_cpu, online, hotplug,
                 core, vcpu, intended, writes, hw, directgo, crashed>>

\* sev(); ret = cpu_up(cpu): the second read of the static cpu, which
\* another writer may have incremented since the check.  cpu_up
\* (common/cpu.c): cpu_hotplug_begin() is a trylock of cpu_add_remove_lock,
\* -EBUSY if it is held; -EINVAL if cpu >= nr_cpu_ids, not present or
\* already online; otherwise __cpu_up(cpu), which sets smp_up_cpu = cpu,
\* sev()s and then spins until the CPU is online.  A non-zero result
\* panics the host.
cpu_up(w) ==
  LET cpu == counter IN
  /\ ~Halted
  /\ h[w].pc = "cpu_up"
  /\ \/ /\ hotplug # None
        /\ h' = [h EXCEPT ![w].pc = "panic", ![w].cpu = cpu, ![w].tmp = EBUSY]
        /\ UNCHANGED <<hotplug, smp_up_cpu, intended>>
     \/ /\ hotplug = None /\ (cpu \notin CPUs \/ cpu \in online)
        /\ h' = [h EXCEPT ![w].pc = "panic", ![w].cpu = cpu, ![w].tmp = EINVAL]
        /\ UNCHANGED <<hotplug, smp_up_cpu, intended>>
     \/ /\ hotplug = None /\ cpu \in CPUs /\ cpu \notin online
        /\ hotplug' = w
        /\ smp_up_cpu' = cpu
        /\ intended' = [intended EXCEPT ![cpu] = h[w].addr]
        /\ h' = [h EXCEPT ![w].pc = "wait", ![w].cpu = cpu]
  /\ UNCHANGED <<pmu, sysram, boot_addr, counter, online, core, vcpu, writes,
                 hw, directgo, crashed>>

CpuUpReturnNoWait(w) ==
  /\ ~Halted
  /\ h[w].pc = "wait"
  /\ hotplug' = None
  /\ h' = [h EXCEPT ![w].pc = "inc_load"]
  /\ UNCHANGED <<pmu, sysram, boot_addr, counter, smp_up_cpu, online, core, vcpu,
                 intended, writes, hw, directgo, crashed>>

\* while ( !cpu_online(cpu) ) ...; return 0; cpu_hotplug_done().
CpuUpReturn(w) ==
  /\ ~Halted
  /\ h[w].pc = "wait" /\ h[w].cpu \in online
  /\ hotplug' = None
  /\ h' = [h EXCEPT ![w].pc = "inc_load"]
  /\ UNCHANGED <<pmu, sysram, boot_addr, counter, smp_up_cpu, online, core, vcpu,
                 intended, writes, hw, directgo, crashed>>

\* cpu += 1, a load and a store of the unlocked static counter.
IncLoad(w) ==
  /\ ~Halted
  /\ h[w].pc = "inc_load"
  /\ h' = [h EXCEPT ![w].pc = "inc_store", ![w].tmp = counter]
  /\ UNCHANGED <<pmu, sysram, boot_addr, counter, smp_up_cpu, online, hotplug,
                 core, vcpu, intended, writes, hw, directgo, crashed>>

IncStore(w) ==
  /\ ~Halted
  /\ h[w].pc = "inc_store"
  /\ counter' = h[w].tmp + 1
  /\ h' = [h EXCEPT ![w].pc = "guest"]
  /\ UNCHANGED <<pmu, sysram, boot_addr, smp_up_cpu, online, hotplug, core, vcpu,
                 intended, writes, hw, directgo, crashed>>

\* The other cases of exynos5_sysram_ns_write, reached (through
\* exynos5_sysram_ns_check) only by dom0 in the SYSRAM_NS window.  REG0-REG4,
\* REG6 and the CPUn/GICn state words are written through with iowritel.
WritePassThrough(w, r, a) ==
  /\ Running(w)
  /\ hw' = [hw EXCEPT ![r] = a]
  /\ UNCHANGED <<pmu, sysram, boot_addr, counter, smp_up_cpu, online, hotplug,
                 core, vcpu, h, intended, writes, directgo, crashed>>

\* case REG7_DIRECTGO_ADDR: exynos5_directgo_addr = *r, and the register
\* gets virt_to_maddr(exynos5_cpu_resume), Xen's own resume entry.
WriteDirectgo(w, a) ==
  /\ Running(w)
  /\ directgo' = [reg |-> "exynos5_cpu_resume", addr |-> a]
  /\ UNCHANGED <<pmu, sysram, boot_addr, counter, smp_up_cpu, online, hotplug,
                 core, vcpu, h, intended, writes, hw, crashed>>

\* exynos5_sysram_ns_read (every offset) and the default case of the write
\* handler: domain_crash_synchronous() of dom0, which takes the host down.
SysramCrash(w) ==
  /\ Running(w)
  /\ crashed' = TRUE
  /\ UNCHANGED <<pmu, sysram, boot_addr, counter, smp_up_cpu, online, hotplug,
                 core, vcpu, h, intended, writes, hw, directgo>>

-----------------------------------------------------------------------------
(* A secondary core: the boot ROM, Xen's head.S, start_secondary. *)

\* Powered on, the boot ROM waits for the SYSRAM boot register; Xen's entry
\* there sends the core into head.S.
EnterXen(c) ==
  /\ ~Halted
  /\ core[c] = "off" /\ pmu[c] /\ sysram = "xen_start"
  /\ core' = [core EXCEPT ![c] = "head"]
  /\ UNCHANGED <<pmu, sysram, boot_addr, counter, smp_up_cpu, online, hotplug,
                 vcpu, h, intended, writes, hw, directgo, crashed>>

\* head.S waits for an event with smp_up_cpu matching its cpuid.
Release(c) ==
  /\ ~Halted
  /\ core[c] = "head" /\ smp_up_cpu = c
  /\ core' = [core EXCEPT ![c] = "start"]
  /\ UNCHANGED <<pmu, sysram, boot_addr, counter, smp_up_cpu, online, hotplug,
                 vcpu, h, intended, writes, hw, directgo, crashed>>

\* start_secondary: per-CPU initialisation, then cpumask_set_cpu(cpuid,
\* &cpu_online_map).
ReportOnline(c) ==
  /\ ~Halted
  /\ core[c] = "start"
  /\ online' = online \cup {c}
  /\ core' = [core EXCEPT ![c] = "online"]
  /\ UNCHANGED <<pmu, sysram, boot_addr, counter, smp_up_cpu, hotplug, vcpu, h,
                 intended, writes, hw, directgo, crashed>>

SetupDom0VcpuFromSysram(c) ==
  /\ ~Halted
  /\ core[c] = "online"
  /\ vcpu' = [vcpu EXCEPT ![c] = [st |-> "up", pc |-> sysram]]
  /\ core' = [core EXCEPT ![c] = "idle"]
  /\ UNCHANGED <<pmu, sysram, boot_addr, counter, smp_up_cpu, online, hotplug, h,
                 intended, writes, hw, directgo, crashed>>

\* start_secondary, "Setup dom0 boot pc": alloc_vcpu(dom0, cpuid, cpuid),
\* regs->pc = exynos5_boot_addr, vcpu_wake(v).
SetupDom0Vcpu(c) ==
  /\ ~Halted
  /\ core[c] = "online"
  /\ vcpu' = [vcpu EXCEPT ![c] = [st |-> "up", pc |-> boot_addr]]
  /\ core' = [core EXCEPT ![c] = "idle"]
  /\ UNCHANGED <<pmu, sysram, boot_addr, counter, smp_up_cpu, online, hotplug, h,
                 intended, writes, hw, directgo, crashed>>

-----------------------------------------------------------------------------

Handler(w) ==
  \/ CheckBootingCpu(w) \/ cpu_up(w) \/ CpuUpReturn(w)
  \/ IncLoad(w) \/ IncStore(w)

Core(c) == EnterXen(c) \/ Release(c) \/ ReportOnline(c) \/ SetupDom0Vcpu(c)

\* Every action is disabled once the host has halted.
Next ==
  \/ \E w \in Writers, c \in Secondaries : PowerOn(w, c)
  \/ \E w \in Writers, a \in Addrs : WriteBootAddr(w, a)
  \/ \E w \in Writers, r \in PassRegs, a \in Addrs : WritePassThrough(w, r, a)
  \/ \E w \in Writers, a \in Addrs : WriteDirectgo(w, a)
  \/ \E w \in Writers : SysramCrash(w)
  \/ \E w \in Writers : Handler(w)
  \/ \E c \in Secondaries : Core(c)

\* Xen's handler code and the cores run without being descheduled for
\* good; dom0 need not write again.
Spec ==
  /\ Init /\ [][Next]_vars
  /\ \A w \in Writers : WF_vars(Handler(w))
  /\ \A c \in Secondaries : WF_vars(Core(c))

-----------------------------------------------------------------------------
(* Properties. *)

\* The variables keep their types.
TypeOK ==
  /\ pmu \in [CPUs -> BOOLEAN]
  /\ sysram \in {None, "xen_start"}
  /\ boot_addr \in Addrs \cup {None}
  /\ counter \in 1 .. NCPU + MaxWrites
  /\ smp_up_cpu \in CPUs
  /\ online \subseteq CPUs
  /\ hotplug \in Writers \cup {None}
  /\ core \in [Secondaries -> {"off", "head", "start", "online", "idle"}]
  /\ hw \in [PassRegs -> Addrs \cup {None}]
  /\ directgo \in [reg : {None, "exynos5_cpu_resume"}, addr : Addrs \cup {None}]
  /\ crashed \in BOOLEAN
  /\ vcpu \in [CPUs -> [st : {"down", "up"}, pc : Addrs \cup {None}]]
  /\ h \in [Writers -> [pc : {"guest", "check", "cpu_up", "panic", "wait",
                              "inc_load", "inc_store"},
                        addr : Addrs \cup {None}, cpu : CPUs \cup {None} \cup (1 .. NCPU + MaxWrites),
                        tmp : 0 .. NCPU + MaxWrites + EINVAL]]

\* exynos5_sysram_ns_write never reaches its panic: no cpu_up it makes
\* fails with -EBUSY or -EINVAL.
NoBringUpPanic == \A w \in Writers : h[w].pc # "panic"

\* The counter of exynos5_sysram_ns_write tracks the CPUs it brought up:
\* whenever no handler is inside the REG5 case, the online CPUs are
\* exactly 0 .. cpu-1.
CounterMatchesOnline ==
  (\A w \in Writers : h[w].pc = "guest") => online = 0 .. counter - 1

\* start_secondary starts dom0's vCPU at the boot address written by the
\* REG5 write that brought its CPU up.
SecondaryStartsAtItsBootAddr ==
  \A c \in Secondaries : vcpu[c].st = "up" => vcpu[c].pc = intended[c]

\* __cpu_up's spin ends: a cpu_up that released a core returns, and that
\* core's dom0 vCPU is then started, unless another write has panicked
\* the host meanwhile.
CpuUpReturns ==
  \A w \in Writers, c \in Secondaries :
    (h[w].pc = "wait" /\ h[w].cpu = c) ~> ((h[w].pc = "guest" /\ vcpu[c].st = "up") \/ Halted)
=============================================================================
