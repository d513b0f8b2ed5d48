-------------------------------- MODULE P2M --------------------------------
(***************************************************************************)
(* The stage-2 (P2M) translation engine of one guest, xen/arch/arm/p2m.c:  *)
(* the three-level table, the page-table pages it owns, the bulk range     *)
(* operations that run under p2m->lock one page per loop iteration, and    *)
(* the domain lifecycle that creates and tears the table down.  Beside it  *)
(* are the per-CPU stage-2 TLBs that the guest's vCPUs fill by hardware    *)
(* walks of the same table, which is what the flushes in p2m.c protect.    *)
(*                                                                         *)
(* Data abstraction: a guest frame number stands for a page-aligned IPA,   *)
(* a heap frame for a machine page of the domheap, an MMIO base for a      *)
(* device machine frame.  A table has Fan entries instead of 512 (1024 at  *)
(* the first level, which is one frame here instead of two).  A table      *)
(* entry is the lpae_t fields the code reads or writes.                    *)
(***************************************************************************)
EXTENDS Integers, FiniteSets

CONSTANTS
  CPUs,        \* physical CPUs, each running a vCPU of the guest
  OpCPUs,      \* the CPUs on which P2M operations are issued
  HeapFrames,  \* machine frames of the domheap (alloc_domheap_page)
  MmioBases,   \* device frame numbers passed to map_mmio_regions
  Prots,       \* permission sets passed to p2m_protect_ram
  NGfn,        \* guest frames 0 .. NGfn-1 are the IPAs operated on
  Fan,         \* entries per table in the model geometry
  MaxRange,    \* longest range passed to a bulk operation
  MaxCreate,   \* bound on the number of times the domain is created
  NoFrame,     \* a NULL page pointer / an all-zero base field
  NoOp,        \* a CPU not inside a P2M operation
  NoCPU        \* p2m->lock not held

ASSUME Fan \in Nat \ {0} /\ NGfn \in 1 .. Fan * Fan * Fan
ASSUME MaxRange \in Nat \ {0} /\ MaxCreate \in Nat \ {0}
ASSUME OpCPUs \subseteq CPUs
ASSUME NoFrame \notin HeapFrames /\ MmioBases \subseteq Nat

GFNs  == 0 .. NGfn - 1
Slots == 0 .. Fan - 1

VARIABLES
  first_level, \* p2m->first_level: the root table page, or NoFrame
  vttbr,       \* d->arch.vttbr: the root VTTBR_EL2 is loaded with (NoFrame = 0)
  pages,       \* p2m->pages: the page-table pages owned by the P2M
  mem,         \* the contents of every heap frame, read as a table page
  free,        \* domheap frames not allocated to anyone
  dompages,    \* frames allocated to the guest by alloc_domheap_page(d, 0)
  op,          \* per CPU: the P2M range operation it is executing, or NoOp
  lock,        \* p2m->lock: the CPU holding it, or NoCPU
  tlb,         \* per CPU and guest frame: the cached stage-2 leaf entry
  dstate,      \* the domain: "dead", "live" or "dying" (being destroyed)
  created      \* how many times the domain has been created

vars == <<first_level, vttbr, pages, mem, free, dompages, op, lock, tlb,
          dstate, created>>

-----------------------------------------------------------------------------
(* lpae_t, as far as the P2M reads and writes it. *)
ENOMEM == 12
EINVAL == 22
MATTR_DEV == 1
MATTR_MEM == 15

\* The device frames an INSERT range starting at an MMIO base can reach.
MmioFrames == {b + k : b \in MmioBases, k \in 0 .. MaxRange - 1}

Entries == [valid : BOOLEAN, table : BOOLEAN,
            base : HeapFrames \cup MmioFrames \cup {NoFrame},
            read : BOOLEAN, write : BOOLEAN, xn : BOOLEAN,
            mattr : {0, MATTR_DEV, MATTR_MEM}]

ZeroEntry == [valid |-> FALSE, table |-> FALSE, base |-> NoFrame,
              read |-> FALSE, write |-> FALSE, xn |-> FALSE, mattr |-> 0]

ZeroPage == [s \in Slots |-> ZeroEntry]

EmptyTLB == [g \in GFNs |-> ZeroEntry]

\* asm-arm/page.h: a valid, accessible, read/write/exec entry for mfn.
mfn_to_p2m_entry(mfn, mattr) ==
  [valid |-> TRUE, table |-> TRUE, base |-> mfn,
   read |-> TRUE, write |-> TRUE, xn |-> FALSE, mattr |-> mattr]

\* What a page the guest has written holds, read as a table: every entry
\* looks like a valid table entry (here pointing back at the page itself).
GarbagePage(f) == [s \in Slots |-> mfn_to_p2m_entry(f, MATTR_MEM)]

first_table_offset(g)  == g \div (Fan * Fan)
second_table_offset(g) == (g \div Fan) % Fan
third_table_offset(g)  == g % Fan

(* p2m_lookup: the entry the software walk stops at.  The hardware walk  *)
(* that fills a TLB reads the same table the same way.                   *)
p2m_lookup(g) ==
  LET e1 == mem[first_level][first_table_offset(g)]
      e2 == mem[e1.base][second_table_offset(g)]
      e3 == mem[e2.base][third_table_offset(g)]
  IN  IF ~e1.valid \/ ~e1.table THEN e1
      ELSE IF ~e2.valid \/ ~e2.table THEN e2
      ELSE IF ~e3.table THEN ZeroEntry
      ELSE e3

\* The table pages reachable from the root, level by level.
ValidTargets(T) ==
  UNION {{mem[t][s].base : s \in {x \in Slots : mem[t][x].valid}} : t \in T}
RootTables   == IF first_level = NoFrame THEN {} ELSE {first_level}
SecondTables == ValidTargets(RootTables)
ThirdTables  == ValidTargets(SecondTables)
TableFrames  == RootTables \cup SecondTables \cup ThirdTables

\* The frames the valid leaf entries map.
MappedFrames == ValidTargets(ThirdTables)

GuestRunning(c) == dstate = "live" /\ vttbr # NoFrame /\ op[c] = NoOp

-----------------------------------------------------------------------------
Init ==
  /\ first_level = NoFrame
  /\ vttbr = NoFrame
  /\ pages = {}
  /\ mem = [f \in HeapFrames |-> ZeroPage]
  /\ free = HeapFrames
  /\ dompages = {}
  /\ op = [c \in CPUs |-> NoOp]
  /\ lock = NoCPU
  /\ tlb = [c \in CPUs |-> EmptyTLB]
  /\ dstate = "dead"
  /\ created = 0

(* p2m_init, run when the domain is created: empty page list, no root,  *)
(* VTTBR 0.  The VMID is domain_id + 1, the same on every creation.     *)
p2m_init ==
  /\ dstate = "dead"
  /\ created < MaxCreate
  /\ first_level' = NoFrame
  /\ vttbr' = NoFrame
  /\ pages' = {}
  /\ dstate' = "live"
  /\ created' = created + 1
  /\ UNCHANGED <<mem, free, dompages, op, lock, tlb>>

(* p2m_alloc_table: allocate and clear the root, record it in VTTBR.  On *)
(* -ENOMEM nothing changes, which is a stuttering step.                  *)
p2m_alloc_table ==
  /\ dstate = "live"
  /\ first_level = NoFrame
  /\ lock = NoCPU
  /\ \E t \in free :
       /\ pages' = pages \cup {t}
       /\ mem' = [mem EXCEPT ![t] = ZeroPage]
       /\ free' = free \ {t}
       /\ first_level' = t
       /\ vttbr' = t
  /\ UNCHANGED <<dompages, op, lock, tlb, dstate, created>>

(* Destroying the domain (outside p2m.c): with every vCPU paused and no  *)
(* operation on its P2M in flight, the guest's RAM is given back.        *)
domain_relinquish_resources ==
  /\ dstate = "live"
  /\ lock = NoCPU
  /\ \A c \in CPUs : op[c] = NoOp
  /\ free' = free \cup dompages
  /\ dompages' = {}
  /\ dstate' = "dying"
  /\ UNCHANGED <<first_level, vttbr, pages, mem, op, lock, tlb, created>>

(* p2m_teardown: free every page on p2m->pages, forget the root.  Neither *)
(* VTTBR nor any TLB is touched.                                          *)
p2m_teardown ==
  /\ dstate = "dying"
  /\ lock = NoCPU
  /\ free' = free \cup pages
  /\ pages' = {}
  /\ first_level' = NoFrame
  /\ dstate' = "dead"
  /\ UNCHANGED <<vttbr, mem, dompages, op, lock, tlb, created>>


-----------------------------------------------------------------------------
(***************************************************************************)
(* The range operations.  Each takes p2m->lock for the whole range and     *)
(* walks it one page per iteration; op[c] holds the loop's state: the      *)
(* next address, the machine-address accumulator and where in the loop     *)
(* body the CPU is ("l1", "l2", "leaf" for create_p2m_entries, "walk" for  *)
(* p2m_protect_ram, "out" once the loop is left).  The hardware walkers of *)
(* the other CPUs read the table between these steps.                      *)
(***************************************************************************)
Kinds == {"ALLOCATE", "INSERT", "REMOVE", "PROTECT"}

OpRecs == [kind : Kinds, addr : 0 .. NGfn, end : 0 .. NGfn,
           maddr : Nat, mattr : {MATTR_DEV, MATTR_MEM}, prot : SUBSET {"R", "W", "X"},
           pc : {"l1", "l2", "leaf", "walk", "out"}, rc : {0, -ENOMEM, -EINVAL},
           changed : BOOLEAN]

\* Ranges [s, e) of at most MaxRange pages inside the modelled IPA space.
Ranges == {<<s, e>> \in GFNs \X (1 .. NGfn) : s < e /\ e - s <= MaxRange}

\* Taking the lock and entering the loop (the BUG_ONs on bit 39 hold for
\* every modelled range).
BeginOp(c, kind, r, maddr, mattr, prot, firstpc) ==
  /\ dstate = "live"
  /\ first_level # NoFrame
  /\ op[c] = NoOp
  /\ lock = NoCPU
  /\ lock' = c
  /\ op' = [op EXCEPT ![c] = [kind |-> kind, addr |-> r[1], end |-> r[2],
                              maddr |-> maddr, mattr |-> mattr, prot |-> prot,
                              pc |-> firstpc, rc |-> 0, changed |-> FALSE]]
  /\ UNCHANGED <<first_level, vttbr, pages, mem, free, dompages, tlb,
                 dstate, created>>

create_p2m_entries(c, kind, r, maddr, mattr) ==
  BeginOp(c, kind, r, maddr, mattr, {}, "l1")

p2m_populate_ram(c, r) == create_p2m_entries(c, "ALLOCATE", r, 0, MATTR_MEM)

map_mmio_regions(c, r, maddr) == create_p2m_entries(c, "INSERT", r, maddr, MATTR_DEV)

guest_physmap_remove_page(c, gpfn, order) ==
  /\ gpfn + 2^order <= NGfn
  /\ create_p2m_entries(c, "REMOVE", <<gpfn, gpfn + 2^order>>, 0, MATTR_MEM)

p2m_protect_ram(c, r, prot) == BeginOp(c, "PROTECT", r, 0, MATTR_MEM, prot, "walk")

\* Mutant of the error exit: the code returning ENOMEM instead of -ENOMEM.
FailPositive(c, rc) == op' = [op EXCEPT ![c].rc = -rc, ![c].pc = "out"]

\* Leaving the loop for the out: label with an error code.
Fail(c, rc) == op' = [op EXCEPT ![c].rc = rc, ![c].pc = "out"]

\* Mutant: the loop header without addr += PAGE_SIZE.
AdvanceNoIncrement(o, maddr, nextpc) ==
  [o EXCEPT !.maddr = maddr,
            !.pc = IF o.addr + 1 < o.end THEN nextpc ELSE "out"]

\* The loop increment: next page, and leave the loop after the last one.
Advance(o, maddr, nextpc) ==
  [o EXCEPT !.addr = o.addr + 1, !.maddr = maddr,
            !.pc = IF o.addr + 1 < o.end THEN nextpc ELSE "out"]

\* Mutant: the new table page is not put on p2m->pages.
CreateTableUnlisted(t, parent, slot) ==
  /\ pages' = pages
  /\ free' = free \ {t}
  /\ mem' = [mem EXCEPT ![t] = ZeroPage,
                        ![parent][slot] = mfn_to_p2m_entry(t, MATTR_MEM)]

(* p2m_create_table: take a page from the heap, put it on p2m->pages,    *)
(* clear it and hook it into the given entry.                            *)
p2m_create_table(t, parent, slot) ==
  /\ pages' = pages \cup {t}
  /\ free' = free \ {t}
  /\ mem' = [mem EXCEPT ![t] = ZeroPage,
                        ![parent][slot] = mfn_to_p2m_entry(t, MATTR_MEM)]

\* One intermediate level of the create loop: allocate the missing table
\* below parent[slot], or leave with -ENOMEM when the heap is empty.
EnsureTable(c, parent, slot, nextpc) ==
  /\ \/ /\ mem[parent][slot].valid
        /\ op' = [op EXCEPT ![c].pc = nextpc]
        /\ UNCHANGED <<pages, free, mem>>
     \/ /\ ~mem[parent][slot].valid
        /\ \E t \in free : p2m_create_table(t, parent, slot)
        /\ op' = [op EXCEPT ![c].pc = nextpc]
     \/ /\ ~mem[parent][slot].valid
        /\ free = {}
        /\ Fail(c, -ENOMEM)
        /\ UNCHANGED <<pages, free, mem>>
  /\ UNCHANGED <<first_level, vttbr, dompages, lock, tlb, dstate, created>>

create_p2m_entries_l1(c) ==
  /\ op[c] # NoOp
  /\ op[c].pc = "l1"
  /\ EnsureTable(c, first_level, first_table_offset(op[c].addr), "l2")

create_p2m_entries_l2(c) ==
  /\ op[c] # NoOp
  /\ op[c].pc = "l2"
  /\ EnsureTable(c, mem[first_level][first_table_offset(op[c].addr)].base,
                 second_table_offset(op[c].addr), "leaf")

\* The third-level table page the loop has mapped for op[c].addr.
ThirdOf(a) ==
  mem[mem[first_level][first_table_offset(a)].base][second_table_offset(a)].base

\* Mutant: the flush after overwriting a valid leaf is left out.
NoLeafFlush(old) == FALSE

\* flush = third[...].p2m.valid, read before the leaf is written.
LeafFlush(old) == old.valid

(* The leaf write of one iteration: note whether the entry was valid,    *)
(* write it as the operation says, then flush this CPU's TLB if it was.  *)
create_p2m_entries_leaf(c) ==
  LET o     == op[c]
      l3    == ThirdOf(o.addr)
      i     == third_table_offset(o.addr)
      flush == LeafFlush(mem[l3][i])
      tlbAfter == IF flush THEN [tlb EXCEPT ![c] = EmptyTLB] ELSE tlb
  IN
  /\ o # NoOp
  /\ o.pc = "leaf"
  /\ \/ /\ o.kind = "ALLOCATE"
        /\ free = {}
        /\ Fail(c, -ENOMEM)
        /\ UNCHANGED <<mem, free, dompages, tlb>>
     \/ /\ o.kind = "ALLOCATE"
        /\ \E f \in free :
             /\ mem' = [mem EXCEPT ![l3][i] = mfn_to_p2m_entry(f, o.mattr)]
             /\ free' = free \ {f}
             /\ dompages' = dompages \cup {f}
        /\ op' = [op EXCEPT ![c] = Advance(o, o.maddr, "l1")]
        /\ tlb' = tlbAfter
     \/ /\ o.kind = "INSERT"
        /\ mem' = [mem EXCEPT ![l3][i] = mfn_to_p2m_entry(o.maddr, o.mattr)]
        /\ op' = [op EXCEPT ![c] = Advance(o, o.maddr + 1, "l1")]
        /\ tlb' = tlbAfter
        /\ UNCHANGED <<free, dompages>>
     \/ /\ o.kind = "REMOVE"
        /\ mem' = [mem EXCEPT ![l3][i] = ZeroEntry]
        /\ op' = [op EXCEPT ![c] = Advance(o, o.maddr + 1, "l1")]
        /\ tlb' = tlbAfter
        /\ UNCHANGED <<free, dompages>>
  /\ UNCHANGED <<first_level, vttbr, pages, lock, dstate, created>>

\* Mutant: the check of the third-level entry is left out.
ProtectMappedNoLeaf(e1, e2, e3) == e1.valid /\ e2.valid

\* The three -EINVAL checks of p2m_protect_ram: the walk reaches a valid leaf.
ProtectMapped(e1, e2, e3) == e1.valid /\ e2.valid /\ e3.valid

(* One iteration of p2m_protect_ram: -EINVAL at the first page without a *)
(* valid entry at some level; otherwise rewrite the permission bits and  *)
(* flush this CPU's TLB if the entry changed.                            *)
p2m_protect_ram_walk(c) ==
  LET o   == op[c]
      e1  == mem[first_level][first_table_offset(o.addr)]
      e2  == mem[e1.base][second_table_offset(o.addr)]
      i   == third_table_offset(o.addr)
      old == mem[e2.base][i]
      pte == [old EXCEPT !.read = "R" \in o.prot, !.write = "W" \in o.prot,
                         !.xn = "X" \notin o.prot]
      flush == pte # old
      mapped == ProtectMapped(e1, e2, old)
  IN
  /\ o # NoOp
  /\ o.pc = "walk"
  /\ \/ /\ ~mapped
        /\ Fail(c, -EINVAL)
        /\ UNCHANGED <<mem, tlb>>
     \/ /\ mapped
        /\ mem' = [mem EXCEPT ![e2.base][i] = pte]
        /\ tlb' = IF flush THEN [tlb EXCEPT ![c] = EmptyTLB] ELSE tlb
        /\ op' = [op EXCEPT ![c] = [Advance(o, o.maddr, "walk")
                                      EXCEPT !.changed = o.changed \/ flush]]
  /\ UNCHANGED <<first_level, vttbr, pages, free, dompages, lock, dstate, created>>

\* The out: label of both loops: unmap, unlock, return rc.
p2m_op_out(c) ==
  /\ op[c] # NoOp
  /\ op[c].pc = "out"
  /\ lock' = NoCPU
  /\ op' = [op EXCEPT ![c] = NoOp]
  /\ UNCHANGED <<first_level, vttbr, pages, mem, free, dompages, tlb,
                 dstate, created>>

-----------------------------------------------------------------------------
(***************************************************************************)
(* The guest side (hardware, not p2m.c): a vCPU running on CPU c touches   *)
(* guest frame g.  On a TLB miss the stage-2 walker reads the table and    *)
(* caches a valid leaf; a write through a writable entry to a RAM page     *)
(* leaves data in it that a table walk would misread.                      *)
(***************************************************************************)
GuestTLBFill(c, g) ==
  /\ GuestRunning(c)
  /\ ~tlb[c][g].valid
  /\ p2m_lookup(g).valid
  /\ tlb' = [tlb EXCEPT ![c][g] = p2m_lookup(g)]
  /\ UNCHANGED <<first_level, vttbr, pages, mem, free, dompages, op, lock,
                 dstate, created>>

GuestWrite(c, g) ==
  /\ GuestRunning(c)
  /\ tlb[c][g].valid
  /\ tlb[c][g].write
  /\ tlb[c][g].base \in HeapFrames
  /\ mem' = [mem EXCEPT ![tlb[c][g].base] = GarbagePage(tlb[c][g].base)]
  /\ UNCHANGED <<first_level, vttbr, pages, free, dompages, op, lock, tlb,
                 dstate, created>>

-----------------------------------------------------------------------------
OpStep(c) ==
  \/ create_p2m_entries_l1(c)
  \/ create_p2m_entries_l2(c)
  \/ create_p2m_entries_leaf(c)
  \/ p2m_protect_ram_walk(c)
  \/ p2m_op_out(c)

StartOp(c) ==
  \/ \E r \in Ranges : p2m_populate_ram(c, r)
  \/ \E r \in Ranges, m \in MmioBases : map_mmio_regions(c, r, m)
  \/ \E g \in GFNs, order \in {0, 1} : guest_physmap_remove_page(c, g, order)
  \/ \E r \in Ranges, p \in Prots : p2m_protect_ram(c, r, p)

Next ==
  \/ p2m_init
  \/ p2m_alloc_table
  \/ domain_relinquish_resources
  \/ p2m_teardown
  \/ \E c \in CPUs :
       \/ c \in OpCPUs /\ StartOp(c)
       \/ OpStep(c)
       \/ \E g \in GFNs : GuestTLBFill(c, g) \/ GuestWrite(c, g)

(* A CPU inside a P2M operation runs hypervisor code to completion: the  *)
(* trap path is not preempted, and the lock is never held across a      *)
(* suspension point, so each CPU's loop steps are weakly fair.  Nothing  *)
(* is assumed of guests, of hypercall arrival or of domain lifecycle.    *)
Fairness == \A c \in CPUs : WF_vars(OpStep(c))

Spec == Init /\ [][Next]_vars /\ Fairness

-----------------------------------------------------------------------------
TypeOK ==
  /\ first_level \in HeapFrames \cup {NoFrame}
  /\ vttbr \in HeapFrames \cup {NoFrame}
  /\ pages \subseteq HeapFrames
  /\ mem \in [HeapFrames -> [Slots -> Entries]]
  /\ free \subseteq HeapFrames
  /\ dompages \subseteq HeapFrames
  /\ op \in [CPUs -> OpRecs \cup {NoOp}]
  /\ lock \in CPUs \cup {NoCPU}
  /\ tlb \in [CPUs -> [GFNs -> Entries]]
  /\ dstate \in {"dead", "live", "dying"}
  /\ created \in 0 .. MaxCreate

(* Memory integrity of the P2M across lazy table creation, -ENOMEM exits *)
(* part way through a range, teardown and re-creation: every heap frame  *)
(* is free, a page of p2m->pages, or a page of the guest, and never two  *)
(* of these; p2m->pages is exactly the set of tables reachable from the  *)
(* root, each linked from one entry only, so teardown frees all of them  *)
(* and nothing else; and while the guest lives, a leaf maps only the     *)
(* guest's own RAM or a device frame, never a table page or a free page. *)
P2MIntegrity ==
  /\ free \cup pages \cup dompages = HeapFrames
  /\ free \cap pages = {}
  /\ free \cap dompages = {}
  /\ pages \cap dompages = {}
  /\ pages = TableFrames
  /\ \A t1, t2 \in RootTables \cup SecondTables, s1, s2 \in Slots :
       (mem[t1][s1].valid /\ mem[t2][s2].valid /\ mem[t1][s1].base = mem[t2][s2].base)
         => <<t1, s1>> = <<t2, s2>>
  /\ RootTables \cap (SecondTables \cup ThirdTables) = {}
  /\ SecondTables \cap ThirdTables = {}
  /\ dstate = "live" => MappedFrames \subseteq dompages \cup MmioFrames

(* No stale translation: whenever a vCPU runs on CPU c, every entry its   *)
(* TLB holds is the entry p2m_lookup finds now.  This is what the        *)
(* "flush if the old entry was valid" / "flush if the bits changed"     *)
(* logic of create_p2m_entries and p2m_protect_ram is for, and it must   *)
(* survive every order of range operations and guest accesses.           *)
TLBCoherent ==
  \A c \in CPUs : GuestRunning(c) =>
    \A g \in GFNs : tlb[c][g].valid => tlb[c][g] = p2m_lookup(g)

(* spec.md 4.4 and 8: p2m_protect_ram requires every page of the range to *)
(* be mapped, and on an unmapped range returns an error touching no      *)
(* entry.  Stated here: an operation returning -EINVAL changed no entry. *)
ProtectAllOrNothing ==
  \A c \in CPUs : (op[c] # NoOp /\ op[c].kind = "PROTECT" /\ op[c].rc = -EINVAL)
                    => ~op[c].changed

-----------------------------------------------------------------------------
(***************************************************************************)
(* Refinement: read through p2m_lookup, the radix tree with its lazily     *)
(* created tables, its -ENOMEM exits, the guests' writes to their RAM and  *)
(* frames recycled through teardown implements the flat map of P2MMap.     *)
(***************************************************************************)
AbsMap ==
  [g \in GFNs |->
     IF first_level = NoFrame THEN NoFrame
     ELSE LET e == p2m_lookup(g) IN
          IF e.valid
          THEN [mfn |-> e.base, read |-> e.read, write |-> e.write,
                xn |-> e.xn, mattr |-> e.mattr]
          ELSE NoFrame]

AbsOp ==
  [c \in CPUs |->
     IF op[c] = NoOp THEN NoOp
     ELSE [kind |-> op[c].kind, addr |-> op[c].addr, end |-> op[c].end,
           maddr |-> op[c].maddr, mattr |-> op[c].mattr, prot |-> op[c].prot,
           pc |-> IF op[c].pc = "out" THEN "out" ELSE "run", rc |-> op[c].rc]]

AbsStatus ==
  IF dstate = "live" THEN IF first_level = NoFrame THEN "new" ELSE "ready"
  ELSE dstate

Abs == INSTANCE P2MMap WITH map <- AbsMap, aop <- AbsOp, status <- AbsStatus,
                            Unmapped <- NoFrame

(* The detailed engine implements the abstract map: every lookup the    *)
(* walk can return is one the flat-map contract allows, at every step.  *)
Refinement == Abs!Spec

(* Every range operation a CPU starts ends and releases p2m->lock. *)
OpTerminates == \A c \in CPUs : op[c] # NoOp ~> op[c] = NoOp
=============================================================================
