-------------------------------- MODULE Vmid --------------------------------
(***************************************************************************)
(* VMIDs of domains created one after another, and the TLB they tag.       *)
(*                                                                         *)
(* XEN_DOMCTL_createdomain (common/domctl.c) picks the next free domain id *)
(* with its static rover; domain_create gives the domain a P2M through     *)
(* p2m_init, which sets vmid = domain_id + 1, and p2m_alloc_table, which   *)
(* puts vmid & 0xff into bits 55:48 of the VTTBR (arch/arm/p2m.c).         *)
(* XEN_DOMCTL_destroydomain kills a guest and its id becomes free.  The    *)
(* CPU's TLB caches stage-2 translations tagged with the VMID field of the *)
(* VTTBR that was loaded when it walked; a context switch loads the next   *)
(* domain's VTTBR with p2m_load_VTTBR and flushes nothing.                 *)
(*                                                                         *)
(* Each domain has one guest page; its frame is named by the domain's id.  *)
(***************************************************************************)
EXTENDS Integers, FiniteSets

CONSTANTS
  DOMID_FIRST_RESERVED,  \* first id the rover may not hand out (0x7FF0)
  MaxGuests,             \* bound on guests alive at once besides dom0
  TlbSize,               \* entries the TLB holds
  ExplicitIds            \* ids dom0 passes to createdomain besides 0

VARIABLES
  live,     \* ids of the domains that exist; dom0 (id 0) always does
  rover,    \* createdomain's static rover
  cur,      \* domain whose vCPU runs on the CPU
  vttbr_el2,\* VMID field of the VTTBR the CPU has loaded
  tlb,      \* cached translations of the guest page: [vmid, frame]
  ret       \* result of dom0's last createdomain, or Hang

vars == <<live, rover, cur, vttbr_el2, tlb, ret>>

ENOMEM == 12
EINVAL == 22
\* The rover's search never ends: dom0's vCPU spins under domctl_lock.
Hang == -1

DomIds == 0 .. DOMID_FIRST_RESERVED - 1

\* p2m_init: "Zero is reserved", p2m->vmid = d->domain_id + 1.
p2m_init(d) == d + 1

\* p2m_alloc_table: d->arch.vttbr = root | ((uint64_t)p2m->vmid & 0xff) << 48.
\* Only the VMID field is kept: the value d->arch.vttbr holds for d.
p2m_alloc_table(d) == p2m_init(d) % 256

\* is_free_domid: below DOMID_FIRST_RESERVED and no struct domain.
is_free_domid(d) == d < DOMID_FIRST_RESERVED /\ d \notin live

\* for ( dom = rover + 1; dom != rover; dom++ ), dom reset to 0 at
\* DOMID_FIRST_RESERVED inside the body; x is dom at the test.  With at
\* a free id the body runs at most Cardinality(live) + 1 times; without
\* one it reaches the rover, unless the rover is 0, which dom never equals
\* at the test: then the loop does not end.
RECURSIVE RoverLoop(_, _)
RoverLoop(x, fuel) ==
  IF x = rover THEN rover
  ELSE IF fuel = 0 THEN Hang
  ELSE LET y == IF x = DOMID_FIRST_RESERVED THEN 0 ELSE x
       IN  IF is_free_domid(y) THEN y ELSE RoverLoop(y + 1, fuel - 1)

RoverSearch == RoverLoop(rover + 1, Cardinality(live) + 1)

Init ==
  /\ live = {0}
  /\ rover = 0
  /\ cur = 0
  /\ vttbr_el2 = p2m_alloc_table(0)
  /\ tlb = {}
  /\ ret = 0

\* domain_create(dom): the new domain and its P2M, or -ENOMEM.
domain_create(d) ==
  \/ live' = live \cup {d} /\ ret' = 0
  \/ ret' = -ENOMEM /\ UNCHANGED live

\* XEN_DOMCTL_createdomain from dom0 with op->domain = dom: -EINVAL for
\* unknown flags; an explicit id must be free and leaves the rover alone;
\* otherwise the rover's search, -ENOMEM if it ends on the rover, and
\* rover = dom before domain_create, which may still fail.  dom0 issues
\* domctls, so its vCPU is the one running.
createdomain(dom) ==
  /\ cur = 0 /\ ret # Hang
  /\ Cardinality(live) <= MaxGuests
  /\ \/ ret' = -EINVAL /\ UNCHANGED <<live, rover>>
     \/ /\ dom > 0 /\ dom < DOMID_FIRST_RESERVED
        /\ IF is_free_domid(dom)
           THEN domain_create(dom) /\ UNCHANGED rover
           ELSE ret' = -EINVAL /\ UNCHANGED <<live, rover>>
     \/ /\ ~(dom > 0 /\ dom < DOMID_FIRST_RESERVED)
        /\ LET x == RoverSearch IN
           CASE x = Hang  -> ret' = Hang /\ UNCHANGED <<live, rover>>
             [] x = rover -> ret' = -ENOMEM /\ UNCHANGED <<live, rover>>
             [] OTHER     -> rover' = x /\ domain_create(x)
  /\ UNCHANGED <<cur, vttbr_el2, tlb>>

\* XEN_DOMCTL_destroydomain from dom0 on a guest: domain_kill, then the
\* last reference frees the domain (p2m_teardown, no flush) and its id.
destroydomain ==
  /\ cur = 0 /\ ret # Hang
  /\ \E d \in live \ {0} : live' = live \ {d}
  /\ UNCHANGED <<rover, cur, vttbr_el2, tlb, ret>>

\* Context switch to a vCPU of domain d: p2m_load_VTTBR(d), no TLB flush.
\* Xen is not preempted, so a CPU spinning in the rover loop switches no more.
p2m_load_VTTBR ==
  /\ ret # Hang
  /\ \E d \in live \ {cur} :
    /\ cur' = d
    /\ vttbr_el2' = p2m_alloc_table(d)
    /\ UNCHANGED <<live, rover, tlb, ret>>

\* A guest access to its page that misses in the TLB (a hit changes no
\* state): the walk of cur's table gives cur's frame, and the entry is
\* cached under the loaded VMID, evicting others when the TLB is full.
GuestAccess ==
  /\ \A e \in tlb : e.vmid # vttbr_el2
  /\ \E kept \in SUBSET tlb :
       /\ Cardinality(kept) < TlbSize
       /\ tlb' = kept \cup {[vmid |-> vttbr_el2, frame |-> cur]}
  /\ UNCHANGED <<live, rover, cur, vttbr_el2, ret>>

Next ==
  \/ \E dom \in {0} \cup ExplicitIds : createdomain(dom)
  \/ destroydomain
  \/ p2m_load_VTTBR
  \/ GuestAccess

Spec == Init /\ [][Next]_vars

-----------------------------------------------------------------------------
TypeOK ==
  /\ 0 \in live /\ live \subseteq DomIds
  /\ rover \in DomIds /\ cur \in live
  /\ vttbr_el2 \in 0 .. 255
  /\ \A e \in tlb : e.vmid \in 0 .. 255 /\ e.frame \in DomIds
  /\ Cardinality(tlb) <= TlbSize
  /\ ret \in {0, -ENOMEM, -EINVAL, Hang}

(* spec.md: the VMID is the per-guest tag by which the CPU tells apart the *)
(* cached translations of different guests.  So every TLB entry under the *)
(* VMID the CPU has loaded is a translation of the running domain, however *)
(* many domains were created and destroyed before; p2m_init and          *)
(* p2m_alloc_table choose the tag, the context switch flushes nothing.    *)
TlbIsolation == \A e \in tlb : e.vmid = vttbr_el2 => e.frame = cur

(* XEN_DOMCTL_createdomain with op->domain = 0 answers every call: the    *)
(* rover's search neither spins for good holding domctl_lock nor reports *)
(* -ENOMEM, with the rover left where it was, while some domain id is    *)
(* still free.                                                            *)
RoverFindsFreeId ==
  [][createdomain(0) =>
       /\ ret' # Hang
       /\ (ret' = -ENOMEM /\ rover' = rover) => \A d \in DomIds : ~is_free_domid(d)]_vars
=============================================================================
