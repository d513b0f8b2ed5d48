# TLA+ models of the Xen/ARM hypervisor core

This directory holds TLA+ models of the ARM port of Xen in `src/`, the TLC
configurations that check them, and the record of what was checked
(`PROJECT.json`). `spec.md` gives the intended behaviour. Every module is
written from the C source. Where an action stands for code outside `src/`,
such as the hardware table walker, the domain-destruction path or the
scheduler, it is marked `spec_modelled` in the map.

## 1. The system: components, state, operations

| Component | Source | State it keeps | Operations |
|---|---|---|---|
| Stage-2 (P2M) engine | `arch/arm/p2m.c` | `p2m->first_level` (2-page root), `p2m->pages` (the table pages), `p2m->lock`, `p2m->vmid`, `d->arch.vttbr`; the tables themselves (`lpae_t` entries) | `p2m_init`, `p2m_alloc_table`, `create_p2m_entries` (ALLOCATE / INSERT / REMOVE, via `p2m_populate_ram`, `map_mmio_regions`, `guest_physmap_add_page`, `guest_physmap_remove_page`), `p2m_protect_ram`, `p2m_lookup`, `p2m_teardown`, `p2m_load_VTTBR` |
| TLBs (hardware) | none | one stage-2 TLB per physical CPU, tagged by VMID, filled by the walker | filled on a guest access; flushed by `flush_tlb_all_local` on the calling CPU |
| Trap dispatch | `arch/arm/traps.c` | guest registers (`cpu_user_regs`: pc, cpsr with ITSTATE, r0..r12) | `do_trap_hypervisor` decodes HSR.EC and routes; `check_conditional_instr` / `cc_map` suppress failed predicated instructions; `advance_pc` steps pc and the IT state |
| Hypercalls, multicall, PSCI | `arch/arm/traps.c` | the same registers | `do_trap_hypercall` (table of 37 slots with holes, ENOSYS, the debug clobbering of argument registers unless pc moved), `do_multicall_call`, `do_trap_psci` (cpu_off / cpu_on) |
| CP15 / system registers | `arch/arm/traps.c` | virtual timer and feature registers | `do_cp15_32`, `do_cp15_64`, `do_sysreg` |
| Data aborts / MMIO | `arch/arm/traps.c`, `arch/arm/exynos5_mmio.c` | the Exynos5 SYSRAM words, a static `cpu` counter | `do_trap_data_abort_guest` tries the MMIO handlers, else injects the abort; `exynos5_mmio_read/write`, `exynos5_get_booting_cpu` |
| Physical IRQs | `arch/arm/irq.c` | `irq_desc`: status (PENDING, INPROGRESS, DISABLED, GUEST), `desc->lock` | `do_IRQ` runs the handler with the lock dropped, looping while PENDING was set again; the guest path injects into the vGIC |
| SMP boot and hotplug | `arch/arm/smpboot.c` | `cpu_online_map`, `smp_up_cpu`, the global `cpu_is_dead` | `__cpu_up` / `start_secondary`, `__cpu_disable`, `stop_cpu`, `__cpu_die` |
| SMC | `arch/arm/smc.c` | the guest registers | `handle_smc` forwards the call and steps pc by 4 or 2 |
| Suspend / resume | `arch/arm/suspend.c` | saved CPU context | `cpu_suspend`, `cpu_resume`, `exynos5_resume_vcpu` |
| Domain control | `common/domctl.c` | `domctl_lock`, dom0's `hypercall_deadlock_mutex`, the static `rover`, `vcpu_alloc_lock`; per domain `pause_count`, `is_paused_by_controller`, `max_vcpus`, the `vcpu` array, each vCPU's `pause_count` and `is_initialised` | `do_domctl` with its lookup, trylocks and continuation; the commands that create, destroy, pause, resume and size a domain and set or read vCPU contexts |
| 16550 UART | `drivers/char/ns16550.c` | per port `intr_works`, the poll and resume timers, the chip's registers; the static `delayed_resume_tries` | `ns16550_interrupt`, `ns16550_poll`, `tx_ready` / `putc` / `getc` for the serial core, `ns16550_suspend`, `ns16550_resume`, `ns16550_delayed_resume` |
| Not part of the core | `arch/x86/xstate.c`, `pl011.c`, `early_printk` | | x86 code and device I/O; see section 12 |

How the components interact. A guest access that misses the TLB makes the
hardware walk the P2M tables and cache the leaf it finds. A stage-2 fault
comes in through `do_trap_hypervisor` to `do_trap_data_abort_guest`, which
resolves the address (`gva_to_ipa`, `p2m_lookup`) and routes it to an MMIO
handler. The range operations are called from the domain-building and memory
hypercalls. They run on whichever CPU makes the call, while the same guest's
vCPUs run on other CPUs and walk the same tables. Domain destruction gives the
guest's RAM back first (`domain_relinquish_resources`) and then runs
`p2m_teardown`. A domain created later reuses those frames, and it gets the
VMID `domain_id + 1` again.

### The hard behaviours

* **Interleavings.** Bulk range operations take `p2m->lock` and write one
  leaf per loop iteration. Between two iterations, vCPUs on other CPUs walk
  the half-updated tree.
* **Invalidation.** The only flush is `flush_tlb_all_local`, on the calling
  CPU. It is issued when the old leaf was valid (create) or when the bits
  changed (protect). Nothing flushes at teardown or re-creation.
* **Partial failure.** -ENOMEM can hit at L1, at L2 or at the leaf. A
  protect hits -EINVAL at the first unmapped page. Neither undoes the pages
  already done.
* **Frame recycling.** Teardown frees the table pages, and relinquish frees
  the RAM. The same frames come back as tables or RAM of the next
  incarnation.
* **Numeric edges.** `vmid & 0xff` in the VTTBR; the bit-39-only address
  check; ITSTATE shifts; `get_booting_cpu` returning `i - 1`.
* **Lock-dropping protocols.** `do_IRQ` runs the handler without the
  descriptor lock. `__cpu_die` waits on a single global flag.
* **Unlocked shared state in MMIO handlers.** The Exynos5 boot-register
  handler reads and increments a static counter from several dom0 vCPUs at
  once, and calls `cpu_up` in between.
* **Waiting on the scheduler.** `domain_pause` and `vcpu_pause` spin until
  the target's vCPUs are off their CPUs; a domctl that pauses the caller's
  own domain waits on itself. `domctl_lock` is only ever trylocked, and a
  busy lock turns into a continuation the guest re-executes.

### What each component needs to be correct

* **P2M.**
  * Every heap frame is free, a table page or guest RAM, and never two of
    these at once.
  * `p2m->pages` is exactly the tree reachable from the root, each table
    linked once, so teardown frees all of it and nothing else.
  * A leaf maps guest RAM or a device frame, never a table page.
  * A running vCPU never uses a translation the table no longer has.
  * Protect is all-or-nothing (spec.md).
  * Every operation ends and releases the lock.
  * Seen through `p2m_lookup`, the tree implements the flat map of the
    contract.
* **Trap and condition filter.** An instruction is suppressed exactly when
  the ARM condition table says so. `advance_pc` steps pc and the IT state as
  the architecture does.
* **Hypercalls.** The call is dispatched exactly when the slot is filled. The
  result is in r0/x0. Only the right argument registers are clobbered, and
  none on a continuation.
* **IRQ.** An interrupt that arrives while its handler runs is handled by
  that loop. It is never lost, and the handler never runs twice at once.
* **SMP boot.** A CPU brought up is online before `__cpu_up` returns. A CPU
  taken down is reported dead only after it is. The Exynos5 counter names
  exactly the CPUs brought up, and no boot-register write panics the host.
* **Domain control.** Every domctl returns or continues. A domain is off
  the CPUs while its vCPU array is changed. Every `domain_pause` and
  `vcpu_pause` is undone on every exit. The vCPU array stays within
  `max_vcpus`.

## 2. Plan: modules, in order of importance

1. **`P2M` and `P2MMap` (done).**
   * `P2M` models the detailed engine with the per-CPU TLBs and the domain
     lifecycle.
   * `P2MMap` is the abstract contract, a flat map from guest frame to
     mapping.
   * `P2M` refines `P2MMap` through `p2m_lookup` (`Refinement`).
2. **`TrapCond` (done).** One vCPU of a 32-bit guest trapping into
   `do_trap_hypervisor`: the dispatch, `cc_map`, `check_conditional_instr`,
   `advance_pc`, WFI, the CP15 handlers, `handle_smc` and guest data aborts.
   The code operators are checked against an independent statement of the
   ARM condition and IT rules, over every condition, NZCV and IT block.
3. **`Hypercall` (done).** The HVC32 path: `do_debug_trap`,
   `do_trap_psci` and `do_trap_hypercall` over every call number, with the
   debug build's clobbering of argument registers and continuations.
4. **`SecondaryBoot` (done).** The Exynos5 boot-register handler, `cpu_up`,
   `__cpu_up` and `start_secondary` with two dom0 vCPUs writing at once.
5. **`Domctl` (done).** `do_domctl` on two dom0 vCPUs, with the scheduler
   and the domain lifecycle.
6. **`Irq` (done).** `do_IRQ` and the return to the guest
   (`do_trap_irq`, `leave_hypervisor_tail`) on one CPU, with interrupts
   nesting in the handler loop and in `do_softirq`.
7. **`Uart` (done).** The 16550 driver at run time: interrupt, poll
   timer, suspend and the delayed resume with its shared retry counter.
8. **`Vmid` (done).** Domain ids from the createdomain rover, the VMID
   `p2m_init` and `p2m_alloc_table` derive from them, and one CPU's TLB
   across context switches.

## 3. The P2M model

### Modules

* **`P2M.tla`** is the engine of one guest. Its state and the code it stands
  for:
  * `first_level`, `vttbr` and `pages` are the fields of `struct p2m_domain`
    and `d->arch`.
  * `mem` is the contents of every heap frame, read as a table page.
  * `free` and `dompages` are the domheap frames that are free and those
    given to the guest.
  * `op[c]` holds the locals of the range loop running on CPU `c`: next
    address, maddr accumulator, rc, and where in the loop body it is.
  * `lock` is `p2m->lock`.
  * `tlb[c]` is CPU `c`'s stage-2 TLB.
  * `dstate` and `created` describe the domain lifecycle.
  
  Actions:
  * One per loop step of `create_p2m_entries`: `create_p2m_entries_l1`,
    `_l2`, `_leaf`, with `p2m_create_table` and -ENOMEM in `EnsureTable`.
  * One for `p2m_protect_ram_walk` and one for `p2m_op_out`.
  * The callers are the actions that take the lock.
  * The lifecycle actions are `p2m_init`, `p2m_alloc_table`,
    `domain_relinquish_resources` and `p2m_teardown`.
  * The hardware actions are `GuestTLBFill` and `GuestWrite`.
  
  A loop step is one action because the code holds the lock throughout. The
  only concurrent observers are the hardware walkers, and they see the tables
  between leaf writes.
* **`P2MMap.tla`** is the contract from spec.md 4.4: a flat map changed one
  page at a time, in order, under the lock. -ENOMEM may stop any
  create-kind operation. -EINVAL stops a protect at an unmapped page.
* **`MC_P2M.tla`** adds `HeapSymmetry`. Heap frames are interchangeable model
  values, so symmetry is sound for safety checks. `p2m_single` does not
  use it, because it also checks a liveness property.

### Data abstraction

* A table has `Fan = 2` entries. The offsets are `g div Fan^2`,
  `(g div Fan) % Fan` and `g % Fan`, so `NGfn = 3` already spreads over two
  third-level tables, and `NGfn = 5` over two first-level slots.
* An entry keeps the `lpae_t` fields the code reads: valid, table, base,
  read, write, xn, mattr.
* A guest store into a RAM page is modelled by `GarbagePage`. The page then
  reads as a table of valid entries, which is what arbitrary data can look
  like to a walker.

### Runs

| Run | cfg | Expect | What it shows |
|---|---|---|---|
| `p2m_single` | `P2M_single.cfg` | pass (1.13M states, under 3 min) | On one CPU, frame ownership and tree shape (`P2MIntegrity`), TLB coherence (`TLBCoherent`) and `Refinement` of `P2MMap` survive every order of populate, MMIO insert, remove, protect, -ENOMEM, guest accesses and teardown. A RAM page gets mapped, so the guest's TLB fills and writes reach it. `OpTerminates`: every operation leaves its loop and releases `p2m->lock`, including the -ENOMEM exits at the second level and at the leaf. No symmetry, so the liveness check is sound. |
| (reproducer) | `P2M_two_tlb.cfg` | violation of `TLBCoherent` | The flush is local. After a protect on CPU 1, CPU 2's vCPU keeps the old permissions. |
| (reproducer) | `P2M_protect.cfg` | violation of `ProtectAllOrNothing` | Protect over [0,2) with page 1 unmapped rewrites page 0 and then returns -EINVAL. spec.md says it touches no entry. |
| `p2m_recreate` | `P2M_recreate.cfg` | violation of `P2MIntegrity` | The domain is destroyed and re-created with the same VMID and no flush. A TLB entry from the first life maps a frame that is now the new root, and the guest overwrites its own stage-2 table. |

The rows marked reproducer are configurations kept beside the runs of
`PROJECT.json` to reproduce findings 1 and 2 of section 11 with
`tlc -config <cfg> MC_P2M`. `TLBCoherent` holds in `p2m_single`, but
that run has one CPU, so it checks only the local flush. A remote TLB
exists only in the `P2M_two_tlb.cfg` reproducer, where the property is
violated. `OpCPUs` is the set of CPUs that issue P2M operations. It is a
subset of `CPUs`, so a reproducer can have one CPU run operations while
another only runs the guest.

Each property of a passing run has a mutant of the code it is about (see
`PROJECT.json`), and TLC finds the property violated under that mutant:
* an error code stored with the wrong sign;
* a table page not put on `p2m->pages`;
* the leaf flush dropped;
* the third-level -EINVAL check dropped;
* the loop header without `addr += PAGE_SIZE`, so the range loop never
  reaches `end` (`OpTerminates`).

### Bounds and why they are enough

* `p2m_single` has 4 heap frames: a root, one L2, one L3 and one RAM
  page, with `NGfn = 3` and `Fan = 2`. That maps a RAM page, which the
  guest fills into its TLB and writes. It also runs out of memory at the
  second level, when a range crosses into the second L2 slot, and at the
  leaf, when the RAM page is taken. The run uses no symmetry, which the
  liveness property needs. A fifth frame takes it past five minutes.
* The `P2M_two_tlb.cfg` reproducer has two CPUs and 4 frames, with
  symmetry.
* `MaxRange = 2` gives multi-page ranges. These are what make partial
  failure and a protect stopped half way possible.
* One MMIO base and two permission sets, one of them read-only, make the
  protect flush fire and not fire.
* `MaxCreate = 1` for the passing runs. With 2, the re-creation violation
  shows up at once.
* `CHECK_DEADLOCK FALSE`: with `MaxCreate` creations done and the domain
  destroyed, the system really stops.

### Fairness

Only each CPU's loop steps (`OpStep`) are weakly fair. A CPU inside a P2M
operation runs hypervisor code and is not preempted. No lock is held across a
suspension point (spec.md), and the guest cannot stop it. Nothing is assumed
of guests, of when hypercalls arrive, or of the domain lifecycle.

## 4. The trap model

### Modules

* **`TrapCond`** models one vCPU of a 32-bit guest and the synchronous
  traps it takes.
  * State: the guest's `regs->cpsr` and `regs->pc`; `hsr`, the syndrome of
    the trap being handled, or `NoTrap` while the guest runs; `vcpu`, the
    vCPU's fate (`running`, `blocked`, `crashed`, `panic`, `hung`); `rt`,
    what the transfer register received.
  * Two auxiliary variables hold what the architecture says: `arch`, the
    CPSR and PC the instruction would leave had the processor run it, and
    `done`, whether its condition passed and whether Xen performed it.
  * The code is written as the C computes it. `cc_map` is the table of
    16-bit patterns. `check_conditional_instr` and `advance_pc` use `&`,
    `|` and `shiftR` of `Bitwise` on the CPSR with the masks of the source.
  * The architecture is written independently, with arithmetic on fields
    (ARM DDI 0406C A2.5.2, A8.3): `ITOf`, `WithIT`, `ConditionPassed`,
    `ITAdvance` and `CurrentCond`.
  * `select_user_reg` is a pure operator: for a frame's `cpsr` and a
    register field, the field of `struct cpu_user_regs` and the offset
    the code adds. `SelectedReg` reads it as a core register, using the
    contiguity the BUILD_BUG_ONs enforce. `CoreReg` is the ARM ARM's
    banked-register table (B1.3.2), and `SelectUserRegBanked` compares the
    two for every guest mode and every register field.
  * Hardware actions (`spec_modelled`): `GuestIT` opens an IT block,
    `GuestInstr` runs an untrapped instruction, `TakeTrap` traps with any
    syndrome the hardware may report, and `Wake` is an interrupt unblocking
    a WFI.
  * The handler action is `do_trap_hypervisor`. Each handler is one
    disjunct per path of its code: `do_trap_wfi`, `do_cp15_32` (every
    case, the read-only and write-only crashes, `vtimer_emulate` failing,
    the panic), `do_cp15_64`, `handle_smc`, `do_trap_data_abort_guest`
    (s1ptw, `gva_to_ipa` fault, invalid ISS, no MMIO handler, handled),
    and `do_unexpected_trap`.
* **`MC_TrapCond`** supplies the sets of IT blocks and conditions, and
  `Bounds`: per instruction set, the exception classes its instructions
  trap with, the CP15 registers they access and the number of
  instructions. The guest never changes instruction set, so one run
  covers an ARM-state guest and a Thumb-state guest, each with its own
  bounds.

The CPSR is held as two fields, `nzcv` (bits 31:28) and `low` (bits
27:0), because TLC's integers are 32-bit signed. Every mask the code applies
lies inside one of the two fields.

### Runs

| Run | cfg | Expect | What it shows |
|---|---|---|---|
| `trapcond` | `TrapCond.cfg` | pass (243k states, 2.5 min) | A Thumb guest in IT blocks of every firstcond and of one to four instructions, and an ARM guest with every condition under every flag value, every trap class, CP15 encoding and data-abort outcome. Traps are emulated exactly when ConditionPassed (`EmulatedIffConditionPassed`). The handler leaves CPSR and PC as the processor would (`TrapResumesArchitecturally`). `select_user_reg` picks the register the guest's mode names, for all seven guest modes (`SelectUserRegBanked`). |
| `trapcond_smc` | `TrapCond_smc.cfg` | violation of `TrapResumesArchitecturally` | An SMC inside an IT block returns with the IT state unadvanced. |

The mutants:
* ITSTATE[1:0] is written one bit too high (`TypeOK`);
* the block is closed on ITSTATE[3:0] instead of [2:0];
* the LS entry of `cc_map` is mistyped;
* `select_user_reg` forgets the FIQ copies of r8-r12.

### Bounds

* Four instructions in Thumb: an IT instruction and three more. Blocks of one
  to three instructions close within the bound, and four-instruction blocks
  are checked part way.
* Flags `{0, 15}` for instructions inside a block, with any initial flags.
  Every condition is therefore seen both passing and failing.
* In ARM state, two instructions are enough, because there is no state carried
  between instructions beyond the flags.
* `CHECK_DEADLOCK FALSE`: the guest stops at the instruction bound, and a
  crashed, panicked or hung vCPU never runs again (`domain_crash_synchronous`,
  `panic`, the `while(1)` of `do_unexpected_trap`).

No fairness is assumed. The properties are invariants.

## 5. The hypercall model

### Module

* **`Hypercall`** models the `HSR_EC_HVC32` branch of
  `do_trap_hypervisor` for one vCPU of a 32-bit guest.
  * State: the registers `r[0..4]` and `r[12]` as 32-bit signed values,
    `pc`, `hsr` (the HVC immediate being handled, or `NoTrap`), `vcpu`
    (`running`, `crashed`, `panic`), and `cont`, the continuation a
    hypercall function left pending.
  * History variables for the properties: `hvcpc` and `pre` (pc and
    registers at the HVC), `last` (what the handler did) and `n` (HVCs so
    far).
  * `GuestHVC` traps with any immediate and registers; `GuestReexecute`
    re-executes the HVC a continuation points at.
  * `do_trap_hypercall` is the whole handler: the tag check and crash, the
    bounds and hole checks of `arm_hypercall_table` (-ENOSYS), the call,
    the result in r0, and in a debug build the fall-through clobbering of
    the argument registers with 0xDEADBEEF unless pc moved. `do_trap_psci`
    and `do_debug_trap` (which panics on an unknown code) are actions of
    their own.
  * A hypercall function is an outside collaborator. It returns a value of
    `RetVals`, or, for `ContFns`, creates a continuation:
    `hypercall_create_continuation` rewrites r12 and the arguments and moves
    pc back onto the HVC.
* **`MC_Hypercall`** gives the call numbers (a hole, the first and last
  slots, one past the end, 0xDEADBEEF) and the immediates (PSCI, the tag, a
  wrong tag, a debug putc, an unknown debug code).

### Runs

| Run | cfg | Expect | What it shows |
|---|---|---|---|
| `hypercall_debug` | `Hypercall_debug.cfg` | pass | In a debug build, every path leaves the registers as the ABI says (`HypercallReturnABI`): -ENOSYS for every hole and out-of-range number, the result in r0, the registers beyond the call's arguments untouched; a continued call leaves the PC on the HVC and the continuation in r12 and the argument registers. |
| (reproducer) | `Hypercall_clobber.cfg` | violation of `SpecClobbersBeyondConsumed` | spec.md 4.3 says the registers beyond the consumed ones are clobbered; the code clobbers the consumed ones (finding 5). |
| (reproducer) | `Hypercall_panic.cfg` | violation of `GuestCannotPanicHost` | An HVC with immediate 0xff10 reaches `do_debug_trap`'s `panic` (finding 6). |

Mutants: -ENOSYS stored with the wrong sign (`TypeOK`), the clobbering
loop one register off (`HypercallReturnABI`).

Bounds: `MaxCalls = 4` HVCs give a continuation, its re-execution and a
call after it. One argument value and two return values tell clobbered
registers from kept ones. No fairness is assumed; the properties are
safety properties.

## 6. The secondary-CPU boot model

### Modules

* **`SecondaryBoot`** models dom0 bringing up the secondary cores of an
  Exynos5 board: `exynos5_sysram_ns_write` and `exynos5_get_booting_cpu`
  (`exynos5_mmio.c`), `cpu_up` (modelled from Xen's `common/cpu.c`),
  `__cpu_up` and `start_secondary` (`smpboot.c`).
  * State: `pmu` (cores powered), `sysram` (the boot register),
    `boot_addr` (`exynos5_boot_addr`), `counter` (the handler's static
    `cpu`), `smp_up_cpu`, `online` (`cpu_online_map`), `hotplug` (the
    hotplug lock's holder), `core` (where each core is: off, in `head.S`,
    released, online), `vcpu` (dom0's vCPUs started and where), and `h`, the
    locals and position of each writer's handler.
  * A writer's handler is split at every access to shared state:
    `WriteBootAddr`, `CheckBootingCpu` (the comparison at line 136, a read
    of the static `cpu`), `cpu_up` (the second read of `cpu` at line 140,
    with cpu_up's -EBUSY and -EINVAL panics), `CpuUpReturn` (the spin until
    online), and the unlocked increment as `IncLoad` and `IncStore`. Every
    action is disabled once the host has halted.
  * The other SYSRAM offsets are each one action. `WritePassThrough`
    covers the registers written straight through (two of them, `PassRegs`,
    in the runs). `WriteDirectgo` is REG7: it keeps the guest's address in
    `exynos5_directgo_addr` and installs `exynos5_cpu_resume`. `SysramCrash`
    is every read and the default write case: `domain_crash_synchronous`
    of dom0, which halts the host like a panic.
  * A core enters Xen (`EnterXen`), waits for `smp_up_cpu` (`Release`),
    marks itself online (`ReportOnline`) and starts dom0's vCPU at
    `exynos5_boot_addr` (`SetupDom0Vcpu`).
* **`MC_SecondaryBoot`** gives two boot addresses.

### Runs

| Run | cfg | Expect | What it shows |
|---|---|---|---|
| `secondary_boot` | `SecondaryBoot.cfg` | pass (125k states) | With two writers, whenever no handler is in flight the counter names exactly the CPUs online (`CounterMatchesOnline`). The races end in a panic or a hang, never in a CPU skipped or started twice. |
| `secondary_spin` | `SecondaryBoot_spin.cfg` | violation of `CpuUpReturns` | Writer 1's comparison matches counter 1. Writer 0's increment then makes the counter 2 before writer 1 reads it again for `cpu_up`. `__cpu_up(2)` waits for a core nobody powered, for good (finding 14). |
| (reproducer) | `SecondaryBoot_panic.cfg` | violation of `NoBringUpPanic` | Two writers race on the unlocked counter and both call `cpu_up` for the same CPU; the second one panics the host (finding 7). |
| (reproducer) | `SecondaryBoot_bootaddr.cfg` | violation of `SecondaryStartsAtItsBootAddr` | One writer writes the register again after `__cpu_up` returned but before the core read `exynos5_boot_addr`; the vCPU starts at the newer address. |

Bounds: three cores give two secondaries, so the counter passes one CPU
and a second write can race with it; `MaxWrites = 3` lets a CPU be written
for twice. Fairness: each writer's handler and each core's steps are
weakly fair, because hypervisor code on a CPU runs to its next step; the
writers' choice to write is not fair. A panic stops everything, so
`CHECK_DEADLOCK FALSE`.

## 7. The domain-control model

### Modules

* **`Domctl`** models `do_domctl` issued by two dom0 vCPUs at once.
  * State: per domain id `dom[d]` (`st`: no struct domain, alive, dying or
    dead; `ctrl`, `is_paused_by_controller`; `pause`, `pause_count`;
    `max`, `max_vcpus`; `vcpus`, the non-NULL entries of `d->vcpu`;
    `vpause` and `init`, each vCPU's `pause_count` and `is_initialised`;
    `dbg`, `debugger_attached`), `running[d]` (its vCPUs on a CPU),
    `rover`, the holders of `mutex` (dom0's `hypercall_deadlock_mutex`),
    `lock` (`domctl_lock`) and `valloc` (`vcpu_alloc_lock`), and `call[c]`,
    where each dom0 vCPU is in the handler.
  * `Start` is the entry: the version check, the lookup (-ESRCH), and
    `domctl_lock_acquire`'s two trylocks, which return a continuation when
    either lock is held. `Reexecute` is the guest re-executing it.
  * One action per command, and one per step where the command waits or
    loops: `createdomain` with the rover search `RoverLoop`, a recursive
    operator that follows the C loop test by test; `destroydomain` and
    `KillRelinquish`; `pausedomain`, `unpausedomain`, `resumedomain`;
    `max_vcpus` with `MvTrylock` (the trylock loop and its continuation),
    `MvCheck`, `MvAlloc` (one `alloc_vcpu` per step, any of which may
    fail), `MvOut`, `MvUnpause`; `setvcpucontext` with `SvcReset` and
    `SvcSet`; `getvcpucontext` with `GvcGet`; `getvcpuinfo`;
    `setdebugging` with `SdSet`; `getdomaininfo`, which copies back the
    flags `DomInfo` computes as the C function `getdomaininfo` does (the
    other fields are data the model leaves out); `max_mem`.
  * `PauseSync`, `SvcSet`, `SdSet` and `ResumeUnpause` wait for
    `vcpu_sleep_sync`: no vCPU of the domain on a CPU. For dom0 this means
    no dom0 vCPU inside the hypervisor, since the callers are dom0's vCPUs.
  * The rest of the system: the scheduler (`Schedule` of a runnable vCPU,
    `Deschedule` of any), `Reap` (the last reference to a dead domain
    goes, once no `do_domctl` holds it) and `OtherAlloc` (other holders of
    `vcpu_alloc_lock`).
  * The bitmap conversions the affinity and nodemask commands use,
    `bitmap_to_xenctl_bitmap` and `xenctl_bitmap_to_bitmap`, are
    operators on sets of bit numbers: byte counts, the zero fill of the
    guest's tail and the mask of its partial last byte as in the C.
    `bitmap_long_to_byte` and `bitmap_byte_to_long` are outside the tree
    and are taken as keeping the bits below `nbits`.
* **`MC_Domctl`** gives the command sets: `AllOps` has one command for
  each outcome of every modelled command, on domain 1 where a guest is
  needed; `ExplicitOps` creates every id explicitly; `ResumeOps` is dom0
  resuming itself.

### Runs

| Run | cfg | Expect | What it shows |
|---|---|---|---|
| `domctl` | `Domctl.cfg` | pass (1.09M states, about 2.5 min) | No vCPU of a domain runs while max_vcpus or domain_kill works on it after `domain_pause` (`PausedDomainNotRunning`). Every domain pause and vCPU pause is undone on every exit, error and continuation exits included (`PauseCountBalanced`). The vCPU array stays below `max_vcpus` and the BUG_ONs never fire (`VcpuArrayConsistent`). Every call returns (`DomctlReturns`). `bitmap_to_xenctl_bitmap` and `xenctl_bitmap_to_bitmap` copy exactly the bits below both widths, whatever lies in the guest's buffer, for every pair of widths up to 20 bits, and each domain's vCPU set survives the trip (`XenctlBitmapExact`). |
| (reproducer) | `Domctl_rover.cfg` | violation of `RoverFindsFreeId` | With ids 1 and 2 created explicitly, an automatic creation spins for good (finding 8; the run is `domctl_rover` in section 10). |
| (reproducer) | `Domctl_selfmiss.cfg` | violation of `RoverFindsFreeId` | Ids 1 and 2 are allocated from the rover and 2 is destroyed. The next automatic creation fails with -ENOMEM, though id 2 is free (finding 8). |
| (reproducer) | `Domctl_resume.cfg` | violation of `DomctlReturns` | dom0 resuming itself waits for its own vCPU to stop (finding 9). |

Mutants: `max_vcpus` without the MAX_VIRT_CPUS check (`TypeOK`), the
pause sync dropped (`PausedDomainNotRunning`), max_vcpus's error exits
taken without `domain_unpause` (`PauseCountBalanced`), the -EBUSY check
dropped (`VcpuArrayConsistent`), pausedomain without the check against
the caller's own domain (`DomctlReturns`), the last-byte mask of
`xenctl_bitmap_to_bitmap` dropped (`XenctlBitmapExact`).

Bounds: three domain ids make the rover wrap and leave one id for an
automatic creation after an explicit one; `MAX_VIRT_CPUS = 2` lets
max_vcpus reduce, grow and fail half way; four commands from two callers
cover create, size, set a context and read it back. Fairness: each dom0
vCPU's hypervisor steps are weakly fair (Xen code runs to its next step);
a vCPU that is not runnable is eventually taken off its CPU
(`vcpu_sleep_nosync`); other holders of `vcpu_alloc_lock` release it.
The guest's choice to issue commands is not fair, so `CHECK_DEADLOCK
FALSE` after `MaxOps` commands.

## 8. The interrupt and return-to-guest model

### Modules

* **`Irq`** models one CPU taking physical interrupts and returning to
  the guest.
  * State:
    * `mode`: guest or Xen;
    * `irqon`: CPSR.I clear in Xen;
    * `stack`: Xen's frames on the CPU, each a line, a position and where
      it was entered from;
    * the GIC's `pend` and `active` lines;
    * `status` (`desc->status`) and `locked` (`desc->lock`) per line;
    * `softirq`: `softirq_pending`;
    * `injected`: lines given to dom0;
    * `n`: interrupts so far.
  * Code actions:
    * `TakeIrq` is `do_trap_irq` / `do_trap_fiq`: acknowledge, and push a
      `do_IRQ` frame. From the guest, a `leave_hypervisor_tail` frame
      goes below it.
    * `do_IRQ` is split where it drops or takes `desc->lock`: `IrqLock`
      (the no-action, `IRQ_GUEST` and host paths), `IrqLoop`,
      `IrqHandler`, `IrqRelock` (`spin_lock_irq`), `IrqOut` (`end`) and
      `IrqExit` (unlock and the exception return).
    * `leave_hypervisor_tail` is `LeaveDisable`, `LeaveCheck`,
      `LeaveInject` and `LeaveEnable`.
  * Environment actions (`spec_modelled`):
    * `DeviceIrq`: a device raises a line;
    * `GuestTrap`: a synchronous trap from the guest;
    * `GuestEOI`: dom0's EOI of an injected line, through gic.c's
      maintenance path;
    * `DoSoftirq`.
  * The GIC is outside the tree. A line stays active from its
    acknowledge until `end()` or dom0's EOI, and an active line is not
    delivered again. So one CPU is enough: a line never re-enters
    `do_IRQ`, and the `IRQ_PENDING` loop runs its handler once. Nothing
    in the tree sets `IRQ_DISABLED`.
* **`MC_Irq`** names four lines:
  * a timer and a UART, with handlers;
  * a line with no action;
  * a line routed to dom0.

### Runs

| Run | cfg | Expect | What it shows |
|---|---|---|---|
| `irq` | `Irq.cfg` | pass (18k states) | The CPU enters the guest only with no softirq pending (`EntersGuestWithNoSoftirq`), as spec.md's trap contract requires. Every host line acknowledged is ended (`HostLineEnded`). Every entry into Xen returns to the guest (`ReturnsToGuest`). Interrupts nest in `do_IRQ`'s loop and in `do_softirq`. |

Mutants:
* `local_irq_disable` dropped before the softirq test (`EntersGuestWithNoSoftirq`);
* the no-action path leaving through `out_no_end` (`HostLineEnded`);
* the softirq test inverted (`ReturnsToGuest`).

`Irq.tla` also states `TypeOK`, but the run does not check it. Every
variable is written from a fixed set of constants, so no plausible change
to `do_IRQ` or the tail can give one a value of the wrong type. The bound
on device interrupts, `MaxIrqs`, is the model's own, not the code's.

Bounds: four device interrupts across four lines let a second interrupt
nest inside a handler, and a third inside `do_softirq` or between the tail's
test and its return. Two softirqs let a handler raise more than one.

Fairness: Xen's code on the CPU (`XenStep`) is weakly fair, and so is the
GIC's delivery of a line the CPU can take. Nothing is assumed of the
guest. Deadlock is checked: the guest can always trap again.

## 9. The 16550 UART model

### Modules

* **`Uart`** models the 16550 driver (`drivers/char/ns16550.c`) for the
  ports the serial core drives asynchronously.
  * State per port:
    * `hw`: the chip, as whether its I/O ports decode, LSR.THRE, the
      receive FIFO's fill, a pending THRI and IER;
    * `intr_works`, `timer` (the poll timer pending), `spin` (a poll
      looping on LSR.DR), `rtimer` (the resume timer pending);
    * `phase`: up, suspended, or resuming through the delayed resume;
    * `txq`: the serial core's transmit buffer.
  * Shared state: `tries` is `delayed_resume_tries`. `delays` and `waits`
    count resume delays since the last resume, in all and per port; only
    the properties read them.
  * Code actions:
    * `ns16550_interrupt`;
    * `ns16550_poll`: `__ns16550_poll` with its early return, its LSR.DR
      loop and the timer set again (`PollTail`). On a port that reads
      0xff the loop does not end, and `PollLoop` finishes it once the port
      decodes;
    * `ns16550_suspend` for every port, then the sleep;
    * `ns16550_resume` for every port, as `serial_resume` calls it;
    * `ns16550_delayed_resume`, with the test
      `ns16550_ioport_invalid(uart) && delayed_resume_tries--` (`Retry`).
  * `_ns16550_resume` is `Reprogram` (`ns16550_setup_preirq`, then
    `ns16550_setup_postirq`), with `intr_works` cleared and the poll timer
    set in the calling action.
  * Environment actions (`spec_modelled`):
    * `serial_putc`: the serial core's asynchronous `__serial_putc`;
    * `TxDone` and `RxChar`: the chip's transmitter and receiver;
    * `AmlInit`: dom0's AML making the ports decode again.
  * `TxFlush` is `serial_tx_interrupt`.
  * Every timer of the driver is created on CPU 0 (`init_timer(..., 0)`).
    Timers there run one at a time in the timer softirq, so a poll that
    loops blocks the other timers (`TimerSoftirqFree`).
* **`MC_Uart`** names COM1 and COM2.

### Runs

| Run | cfg | Expect | What it shows |
|---|---|---|---|
| `uart` | `Uart.cfg` | pass (56k states) | COM1 has an IRQ line and COM2 is polled. After each of two sleeps either port may come back undecoded. Every character the console buffers reaches the UART (`TxDrained`): the poll timer, THRI, the resume and the delayed resume hand the transmitter to each other. A port is given up while still undecoded only after the ports together have waited `RESUME_RETRIES` delays (`SharedRetryBudget`). |

Reproducers, not in the run list:

| cfg | Result | What it shows |
|---|---|---|
| `Uart_budget.cfg` | `PatientResume` violated | With both ports undecoded, COM1's timer uses up the shared counter, and COM2 is given up with no delay of its own. |
| `Uart_giveup.cfg` | `TxDrained` violated under `SpecNoAml` | When dom0 never runs its AML, the given-up port's poll loops for good on CPU 0, and output stays buffered. |

Mutants:
* `serial_tx_interrupt` ignoring an empty buffer (`TypeOK`);
* `__ns16550_poll` not setting its timer again (`TxDrained`);
* a pre-decrement `--delayed_resume_tries` (`SharedRetryBudget`).

Bounds:
* Two ports, one of each kind, are enough for the shared counter and
  for the poll of one port blocking the other's resume timer.
* `RESUME_RETRIES = 2` is enough for a retry, a shared budget and a
  give-up. The real value is outside the tree.
* A counter of -2 lets a port retry below zero. Below that, the model
  waits for the AML.
* A transmitter with no FIFO (`fifo_size` 1) leaves characters buffered
  after each flush.
* Three characters and two sleeps let output be buffered across a sleep,
  and let a port come back undecoded after a sleep in which
  `intr_works` was set.

Fairness:
* The GIC delivers an asserted line, timers fire, the transmitter empties
  and the sleep ends. These are weakly fair.
* `Spec` also makes dom0's AML weakly fair. `ns16550_resume`'s comment
  names this assumption: the driver waits for dom0's ACPI processing.
* `SpecNoAml` leaves the AML out, and `Uart_giveup.cfg` shows what then
  happens.
* Nothing is assumed of the console's writes or the receiver.
* Deadlock is checked: a polled port's timer keeps firing.

## 10. The VMID model

### Modules

* **`Vmid`** models the ids of domains created and destroyed one after
  another, and the TLB of one CPU.
  * State: `live`, the ids with a `struct domain`; `rover`, the static
    rover of XEN_DOMCTL_createdomain; `cur`, the domain running on the
    CPU; `vttbr_el2`, the VMID field of the loaded VTTBR; `tlb`, the
    cached translations of each domain's one guest page, as
    `[vmid, frame]` with the frame named by its domain.
  * `p2m_init` gives `domain_id + 1` and `p2m_alloc_table` keeps its low
    eight bits, as `p2m.c` does. `RoverLoop` is the rover search of
    `do_domctl`.
  * `createdomain(dom)` is the whole XEN_DOMCTL_createdomain case. A flags
    check may fail with -EINVAL. An explicit id (`ExplicitIds`, empty in
    `Vmid.cfg`) gives -EINVAL if taken. Id 0 runs the rover search. It
    returns -ENOMEM when the search comes back to the rover, and otherwise
    moves the rover. `domain_create` may then fail with -ENOMEM, so the
    rover reaches high ids with few domains alive. `ret` is the result, or
    `Hang` when the search never ends; nothing runs after a hang. `destroydomain` frees
    an id. `p2m_load_VTTBR` is a context switch: it loads the VTTBR and
    flushes nothing (the switch code, `domain.c`, is outside the tree;
    it calls only `p2m_load_VTTBR`). `GuestAccess` is a TLB miss that
    caches the walk under the loaded VMID (spec-modelled hardware).
* **`MC_Vmid`** gives `DOMID_FIRST_RESERVED` its real value, 0x7FF0.

### Runs

| Run | cfg | Expect | What it shows |
|---|---|---|---|
| `vmid` | `Vmid.cfg` | violation of `TlbIsolation` | After the rover has passed 255 ids, domain 256 is created with VMID 1, dom0's. dom0's cached translation is then used by domain 256 (finding 13). |
| `domctl_rover` | `Vmid_rover.cfg` | violation of `RoverFindsFreeId` | With three domain ids, an automatic create that moved the rover to 1 and failed, then an explicit create of 2, leave the next automatic create failing with -ENOMEM while id 1 is free (finding 8, a four-state trace). |

Bounds: one guest alive at a time and a TLB of one entry; the rover's
range is the real one, since the collision needs ids past 255. TLC finds
the violation after about 160 000 states. `Vmid_rover.cfg` uses three ids
and explicit ids 1 and 2. That is the smallest range where an explicit
create can take every id but the rover's. `MaxGuests = 3` lets dom0 ask for
a domain when every id is taken. No fairness: the run asks a safety
question.

## 11. Findings

1. **Protect is not all-or-nothing** (`p2m.c:289`). The earlier pages keep
   their new permissions when -EINVAL is returned.
2. **The flush is CPU-local** (`p2m.c:226`, `317`). Other CPUs keep stale
   translations. spec.md leaves the all-CPU flush to an outer layer that
   nothing in the source provides.
3. **A re-created domain keeps its old VMID, and nothing is flushed**
   (`p2m.c:424`, `400-413`). A stale TLB entry of the old life makes a
   table page of the new one writable by the guest.
4. **An SMC in an IT block leaves ITSTATE behind** (`smc.c:104`).
   `handle_smc` steps the PC itself and not through `advance_pc`, so the IT
   state is not advanced. The rest of the block runs under the wrong
   conditions, one instruction late.

5. **The debug build clobbers the consumed argument registers**
   (`traps.c:975`). The fall-through switch writes 0xDEADBEEF into ARG2 up
   to the call's last argument; spec.md 4.3 says the registers beyond the
   consumed ones. `HypercallReturnABI` states what the code does, and
   `Hypercall_clobber.cfg` shows the disagreement with spec.md.
6. **A guest HVC can panic the host in a debug build** (`traps.c:1417`).
   An immediate with 0xff in bits 15:8 goes to `do_debug_trap` before the
   tag check, and an unknown code panics (`Hypercall_panic.cfg`).
7. **Two boot-register writes panic the host** (`exynos5_mmio.c:136`). The
   static counter is read and incremented without a lock; a second dom0
   vCPU writing while the first is inside `cpu_up` calls `cpu_up` for the
   same CPU and gets -EBUSY or -EINVAL, on which the handler panics
   (`SecondaryBoot_panic.cfg`, kept as a reproducer).
8. **The rover search of createdomain misses the rover's own id and can
   spin for good** (`domctl.c:437`, `428`). The search starts at
   `rover + 1` and stops on `rover` without testing it, then returns
   -ENOMEM. The rover moves even when `domain_create` then fails, so its
   own id can be free. The run `domctl_rover` (`Vmid_rover.cfg`,
   DOMID_FIRST_RESERVED 3) shows it in four states:
   * an automatic create moves the rover to 1, and `domain_create` fails;
   * an explicit create takes id 2;
   * the next automatic create returns -ENOMEM while id 1 is free.

   The loop also tests `dom != rover` before the body wraps `dom` to 0 at
   DOMID_FIRST_RESERVED. With `rover` still 0 and every id taken, `dom`
   never equals `rover`, and the vCPU spins with `domctl_lock` held. Both
   break `RoverFindsFreeId`. The `Domctl_rover.cfg` and
   `Domctl_selfmiss.cfg` reproducers show the same two edges in the
   two-caller `Domctl` model.
9. **dom0 resuming itself never returns** (`domctl.c:401`).
   `resumedomain` has none of the `d == current->domain` checks that
   pausedomain and setdebugging have, and `domain_resume` begins with
   `domain_pause`, which waits for the calling vCPU to stop
   (`Domctl_resume.cfg`).
10. **A secondary may start at a later boot address** (`smpboot.c:195`).
    `start_secondary` reads the global `exynos5_boot_addr` after `__cpu_up`
    has returned, so a boot-register write in between decides where the
    vCPU starts (`SecondaryBoot_bootaddr.cfg`).

11. **A shared retry budget** (`ns16550.c:323`). `delayed_resume_tries`
    is one static counter for both ports. With COM1 and COM2 both
    undecoded after a sleep, one port is given up after fewer than
    `RESUME_RETRIES` delays of its own. The other then tests a counter
    below zero, which `tries--` takes as true, and retries past the
    budget (`Uart_budget.cfg`).
12. **The give-up spins** (`ns16550.c:326`, `ns16550.c:104`). When the
    retries run out, `_ns16550_resume` reprograms a port that still reads
    0xff and sets its poll timer. `__ns16550_poll` then loops on LSR.DR
    in CPU 0's timer softirq until dom0's AML runs. The comment of
    `ns16550_resume` says the delay exists to avoid exactly that loop
    (`Uart_giveup.cfg`).

13. **VMIDs collide after 255 domains** (`p2m.c:393`, `p2m.c:424`).
    `p2m_init` sets `vmid = domain_id + 1` and `p2m_alloc_table` keeps
    only `vmid & 0xff` in the VTTBR. Domain 255 gets VMID 0, which the
    comment of `p2m_init` calls reserved, and domains `d` and `d + 256`
    share a VMID. No TLB flush separates their translations on a
    context switch, so a guest can use another's cached stage-2
    translations. spec.md says the VMID is the per-guest tag by which the
    CPU tells guests' cached translations apart (`vmid`).
14. **A secondary-CPU bring-up can hang dom0 and the hotplug lock**
    (`exynos5_mmio.c:140`, `smpboot.c:268`). The boot-register handler
    compares the booting CPU with the static `cpu` at line 136, then reads
    `cpu` again for `cpu_up` at line 140. A second dom0 vCPU's `cpu += 1`
    can land between the two reads. `cpu_up` then brings up the next core,
    whose boot address nobody wrote and which may be unpowered, and
    `__cpu_up` waits for it to come online for good, holding
    `cpu_add_remove_lock` (`secondary_spin`).

## 12. Not modelled, and why

* **`guest_physmap_add_page`.** An INSERT of an mfn that comes from outside
  the model.
* **`dump_p2m_lookup` and the other printk paths.** Output only.
* **The remaining domctls** (affinities, `scheduler_op`, the IRQ and I/O
  memory permissions, `set_target`, `settimeoffset`, `subscribe`,
  `disable_migrate`, `set_virq_handler`). They copy
  data in or out under `domctl_lock` and change nothing a property is
  about. The effect of domain creation and destruction on the P2M is
  `P2M`'s lifecycle actions.
* **`xstate.c`.** x86 code.
* **`ns16550.c` at boot** (`ns16550_init`, `ns16550_parse_port_config`,
  `check_existence`, `pci_uart_config`, `parse_pci_bdf`, the FIFO probe of
  `ns16550_init_preirq`). They parse the command line and probe the chip
  once, before any other code runs. `Uart` starts in the state
  `ns16550_init_postirq` leaves. The PCI BAR and command register saved and
  restored around a sleep are not modelled either.
* **`pl011.c`.** The driver never calls `serial_async_transmit`, so the
  serial core drives it synchronously: each `putc` spins on `tx_ready`.
  Its interrupt handler only receives, and its suspend and resume are
  `BUG()`. Nothing in it holds state across calls.
* **`early_printk`.** Register writes in a loop, before the console exists.
* **The 64-bit trap classes** (HVC64, SMC64, SYSREG, `do_sysreg`). The
  build modelled is the 32-bit one.
* **CPU down** (`__cpu_disable`, `stop_cpu`, `__cpu_die` in `smpboot.c`).
  These are called only by `cpu_down` in `common/cpu.c`, which is outside
  the tree. Nothing in the tree calls `cpu_down`.
* **Suspend and resume** (`suspend.c`).
  * `cpu_suspend` is called only from `handle_smc` under `CONFIG_PM`.
    `smc.c` defines that as 0, so `SMC_CMD_SHUTDOWN` and `SMC_CMD_SAVE`
    only break, and that path is dead in this build.
  * `cpu_resume` is entered from `exynos5_cpu_resume`, the entry REG7
    installs (modelled in `SecondaryBoot`). That entry is assembly
    outside the tree, and the firmware calls it after a sleep the tree
    does not request. Its one effect, dom0's vCPU restarted at
    `exynos5_directgo_addr`, is left out.
* **`make_cpus_ready`, `init_IRQ`, `request_dt_irq`.** Boot-time set-up
  before any guest runs. The lines with an action are a constant of `Irq`.
* **The pirq stubs of `irq.c`.** Unreachable: `alloc_pirq_struct` returns
  NULL, and the others BUG.
* **`do_multicall_call`.** `__HYPERVISOR_multicall` has no slot in
  `arm_hypercall_table`, so no ARM guest reaches it.
* **The PSCI `cpu_on` / `cpu_off` bodies.** These live outside the tree.
  They are collaborators of `Hypercall` that return a value.
* **`inject_undef32_exception`.** Unreachable: its one caller is the SMC
  path, and `handle_smc` always returns 1.
* **The GIC driver, `do_softirq`, `gic_inject`.** Outside the tree. `Irq`
  takes them as its environment.
